----------------------------- MODULE EditingProofs -----------------------------
(***************************************************************************)
(* Proofs about the document's history and about the macOS editor over it, *)
(* for any limits, any clock and any number of edits.  History, for any    *)
(* texts: undo and redo lead through the texts the document has had.       *)
(* EditorPane, for texts of one-byte characters: whatever is typed,        *)
(* composed, pasted, found, replaced or recovered, the editor's mirror is  *)
(* the document, and replacing all matches is all or nothing.              *)
(***************************************************************************)
EXTENDS History, EditorPane, FiniteSetTheorems, WellFoundedInduction, SequenceTheorems, TLAPS

-----------------------------------------------------------------------------
(* Induction on a number *)

LEMMA Least ==
  ASSUME NEW S, IsFiniteSet(S), S # {}, \A j \in S : j \in Int
  PROVE  \E i \in S : \A j \in S : i <= j
<1> DEFINE Below(i) == {j \in S : j < i}
           T == {Below(i) : i \in S}
<1>1. IsWellFoundedOn(StrictSubsetOrdering(S), SUBSET S)
  <2>1. FiniteSubsetsOf(S) = SUBSET S
    BY FS_FiniteSubsetsOfFinite
  <2>2. IsWellFoundedOn(StrictSubsetOrdering(S), FiniteSubsetsOf(S))
    BY FS_StrictSubsetOrderingWellFounded
  <2> QED
    BY <2>1, <2>2
<1>2. T \subseteq SUBSET S /\ T # {}
  OBVIOUS
<1> HIDE DEF T
<1>3. \E x \in T : \A y \in T : ~ (<<y, x>> \in StrictSubsetOrdering(S))
  BY <1>1, <1>2, WFMin, Zenon
<1>4. PICK i \in S : \A y \in T : ~ (<<y, Below(i)>> \in StrictSubsetOrdering(S))
  BY <1>3 DEF T
<1>5. ASSUME NEW j \in S, j < i PROVE FALSE
  <2>1. i \in Int /\ j \in Int
    OBVIOUS
  <2>2. j \in Below(i) /\ j \notin Below(j)
    BY <1>5, <2>1
  <2>3. ASSUME NEW k \in Below(j) PROVE k \in Below(i)
    <3>1. k \in S /\ k \in Int /\ k < j
      OBVIOUS
    <3> QED
      BY <1>5, <2>1, <3>1
  <2>4. <<Below(j), Below(i)>> \in StrictSubsetOrdering(S)
    <3>1. Below(j) \subseteq S /\ Below(i) \subseteq S /\ Below(j) \subseteq Below(i)
      BY <2>3
    <3> HIDE DEF Below
    <3> QED
      BY <2>2, <3>1 DEF StrictSubsetOrdering
  <2> QED
    BY <1>4, <2>4, Zenon DEF T
<1>6. \A j \in S : j \in Int /\ i \in Int /\ ~(j < i)
  BY <1>5
<1> QED
  BY <1>6

\* What holds at 0, and at k if it does at k - 1, holds up to n.
LEMMA Climb ==
    ASSUME NEW n \in Nat, NEW G, 0 \in G,
           \A k \in 1 .. n : k - 1 \in G => k \in G
    PROVE  \A k \in 0 .. n : k \in G
<1> DEFINE Out == {k \in 0 .. n : k \notin G}
<1>1. IsFiniteSet(Out) /\ \A k \in Out : k \in Int
  <2>1. IsFiniteSet(0 .. n)
    BY FS_Interval
  <2>2. Out \subseteq 0 .. n
    OBVIOUS
  <2> QED
    BY <2>1, <2>2, FS_Subset
<1>2. ASSUME Out # {} PROVE FALSE
  <2> HIDE DEF Out
  <2>1. PICK i \in Out : \A j \in Out : i <= j
    BY <1>1, <1>2, Least
  <2>2. i \in 0 .. n /\ i \notin G
    BY <2>1 DEF Out
  <2>3. i \in 1 .. n /\ i - 1 \in 0 .. n
    BY <2>2
  <2>4. i - 1 \notin Out
    BY <2>1, <2>3
  <2> QED
    BY <2>2, <2>3, <2>4 DEF Out
<1> QED
  BY <1>2

\* A set of numbers between two is finite.
LEMMA Between ==
    ASSUME NEW m \in Int, NEW n \in Int, NEW S, S \subseteq m .. n
    PROVE  IsFiniteSet(S) /\ \A j \in S : j \in Int
<1>1. IsFiniteSet(m .. n)
  BY FS_Interval
<1>2. \A j \in S : j \in Int
  OBVIOUS
<1> QED
  BY <1>1, <1>2, FS_Subset

\* Min and Max of sets of numbers that are not empty.
LEMMA MinIs ==
    ASSUME NEW m \in Int, NEW n \in Int, NEW S, S \subseteq m .. n, S # {}
    PROVE  Min(S) \in S /\ Min(S) \in Int /\ \A j \in S : Min(S) <= j
<1>1. IsFiniteSet(S) /\ \A j \in S : j \in Int
  BY Between
<1>2. \E i \in S : \A j \in S : i <= j
  BY <1>1, Least
<1>3. Min(S) = CHOOSE i \in S : \A j \in S : i <= j
  BY DEF Min
<1> QED
  BY <1>1, <1>2, <1>3, Zenon

LEMMA MaxIs ==
    ASSUME NEW m \in Int, NEW n \in Int, NEW S, S \subseteq m .. n, S # {}
    PROVE  Max(S) \in S /\ Max(S) \in Int /\ \A j \in S : j <= Max(S)
<1> DEFINE T == {k \in 0 .. n - m : n - k \in S}
<1>1. T # {}
  <2>1. PICK j \in S : j \in m .. n
    OBVIOUS
  <2>2. n - j \in 0 .. n - m /\ n - (n - j) = j
    BY <2>1
  <2> QED
    BY <2>2
<1>2. T \subseteq 0 .. n - m /\ 0 \in Int /\ n - m \in Int
  OBVIOUS
<1> HIDE DEF T
<1>3. IsFiniteSet(T) /\ \A k \in T : k \in Int
  BY <1>2, Between
<1>4. PICK l \in T : \A k \in T : l <= k
  BY <1>1, <1>3, Least
<1>5. n - l \in S /\ l \in Int
  BY <1>3, <1>4 DEF T
<1>6. \A j \in S : j \in Int /\ n - l >= j /\ j <= n - l
  <2> TAKE j \in S
  <2>1. j \in m .. n /\ n - j \in 0 .. n - m /\ n - (n - j) = j
    OBVIOUS
  <2>2. n - j \in T
    BY <2>1 DEF T
  <2>3. l <= n - j
    BY <1>4, <2>2
  <2> QED
    BY <1>5, <2>1, <2>3
<1>7. \E i \in S : \A j \in S : i >= j
  BY <1>5, <1>6
<1>8. Max(S) = CHOOSE i \in S : \A j \in S : i >= j
  BY DEF Max
<1>9. Max(S) \in S /\ \A j \in S : Max(S) >= j
  BY <1>7, <1>8, Zenon
<1> QED
  BY <1>6, <1>9

-----------------------------------------------------------------------------
(* Sums and replays: a sequence that starts like one and takes its steps   *)
(* is the one they are defined by                                          *)

Adds(S, n, D, numbers) ==
    /\ n \in Nat /\ Len(numbers) = n /\ S \in [0 .. n -> D] /\ S[0] = 0
    /\ \A k \in 1 .. n : S[k] = S[k - 1] + numbers[k]

LEMMA TotalIs ==
    ASSUME NEW S, NEW n, NEW D, NEW numbers, Adds(S, n, D, numbers)
    PROVE  Total(numbers) = S[n]
<1>0. /\ n \in Nat /\ Len(numbers) = n /\ S \in [0 .. n -> D] /\ S[0] = 0
      /\ \A k \in 1 .. n : S[k] = S[k - 1] + numbers[k]
  BY DEF Adds
<1> DEFINE R(it) == it = [k \in 0 .. n |-> IF k = 0 THEN 0 ELSE it[k - 1] + numbers[k]]
<1>1. R(S)
  <2>1. ASSUME NEW k \in 0 .. n PROVE S[k] = IF k = 0 THEN 0 ELSE S[k - 1] + numbers[k]
    <3>1. k = 0 \/ (k \in 1 .. n /\ k # 0)
      BY <1>0
    <3> QED
      BY <1>0, <3>1
  <2>2. S = [k \in 0 .. n |-> S[k]]
    BY <1>0
  <2> QED
    BY <2>1, <2>2
<1>2. R(CHOOSE it : R(it))
  BY <1>1, Zenon
<1>3. Total(numbers) = (CHOOSE it : R(it))[n]
  BY <1>0 DEF Total
<1> DEFINE it == CHOOSE it : R(it)
           G == {k \in 0 .. n : it[k] = S[k]}
<1>4. \A k \in 0 .. n : it[k] = IF k = 0 THEN 0 ELSE it[k - 1] + numbers[k]
  <2> HIDE DEF it
  <2>1. R(it)
    BY <1>2 DEF it
  <2> QED
    BY <2>1
<1> HIDE DEF it
<1>5. 0 \in G
  BY <1>0, <1>4
<1>6. ASSUME NEW k \in 1 .. n, k - 1 \in G PROVE k \in G
  <2>1. k \in 0 .. n /\ k - 1 \in 0 .. n /\ k # 0
    BY <1>0
  <2> QED
    BY <1>0, <1>4, <1>6, <2>1
<1> HIDE DEF G
<1>7. n \in G
  <2>1. \A k \in 0 .. n : k \in G
    BY <1>0, <1>5, <1>6, Climb
  <2> QED
    BY <1>0, <2>1
<1> QED
  BY <1>3, <1>7 DEF it, G

Makes(T, n, D, text, edits) ==
    /\ n \in Nat /\ Len(edits) = n /\ T \in [0 .. n -> D] /\ T[0] = text
    /\ \A k \in 1 .. n : T[k] = Splice(T[k - 1], edits[n - k + 1])

LEMMA AppliedIs ==
    ASSUME NEW T, NEW n, NEW D, NEW text, NEW edits, Makes(T, n, D, text, edits)
    PROVE  ApplyEdits(text, edits) = T[n]
<1>0. /\ n \in Nat /\ Len(edits) = n /\ T \in [0 .. n -> D] /\ T[0] = text
      /\ \A k \in 1 .. n : T[k] = Splice(T[k - 1], edits[n - k + 1])
  BY DEF Makes
<1> DEFINE R(it) == it = [k \in 0 .. n |->
                            IF k = 0 THEN text ELSE Splice(it[k - 1], edits[n - k + 1])]
<1>1. R(T)
  <2>1. ASSUME NEW k \in 0 .. n PROVE T[k] = IF k = 0 THEN text ELSE Splice(T[k - 1], edits[n - k + 1])
    <3>1. k = 0 \/ (k \in 1 .. n /\ k # 0)
      BY <1>0
    <3> QED
      BY <1>0, <3>1
  <2>2. T = [k \in 0 .. n |-> T[k]]
    BY <1>0
  <2> QED
    BY <2>1, <2>2
<1>2. R(CHOOSE it : R(it))
  BY <1>1, Zenon
<1>3. ApplyEdits(text, edits) = (CHOOSE it : R(it))[n]
  BY <1>0 DEF ApplyEdits
<1> DEFINE it == CHOOSE it : R(it)
           G == {k \in 0 .. n : it[k] = T[k]}
<1>4. \A k \in 0 .. n : it[k] = IF k = 0 THEN text ELSE Splice(it[k - 1], edits[n - k + 1])
  <2> HIDE DEF it
  <2>1. R(it)
    BY <1>2 DEF it
  <2> QED
    BY <2>1
<1> HIDE DEF it
<1>5. 0 \in G
  BY <1>0, <1>4
<1>6. ASSUME NEW k \in 1 .. n, k - 1 \in G PROVE k \in G
  <2>1. k \in 0 .. n /\ k - 1 \in 0 .. n /\ k # 0
    BY <1>0
  <2> QED
    BY <1>0, <1>4, <1>6, <2>1
<1> HIDE DEF G
<1>7. n \in G
  <2>1. \A k \in 0 .. n : k \in G
    BY <1>0, <1>5, <1>6, Climb
  <2> QED
    BY <1>0, <2>1
<1> QED
  BY <1>3, <1>7 DEF it, G

\* The sums of any numbers exist.
LEMMA TotalUnfolds ==
    ASSUME NEW numbers, NEW n \in Nat, Len(numbers) = n
    PROVE  \E S : /\ S[0] = 0 /\ Total(numbers) = S[n]
                  /\ \A k \in 1 .. n : S[k] = S[k - 1] + numbers[k]
<1> DEFINE R(it, m) == it = [k \in 0 .. m |-> IF k = 0 THEN 0 ELSE it[k - 1] + numbers[k]]
           G == {m \in 0 .. n : \E it : R(it, m)}
<1>1. 0 \in G
  <2> DEFINE it == [k \in 0 .. 0 |-> 0]
  <2>1. R(it, 0)
    OBVIOUS
  <2> HIDE DEF it
  <2> QED
    BY <2>1
<1>2. ASSUME NEW m \in 1 .. n, m - 1 \in G PROVE m \in G
  <2> DEFINE Step(T) == [k \in 0 .. m |-> IF k = 0 THEN 0 ELSE T[k - 1] + numbers[k]]
  <2>1. PICK T : T = [k \in 0 .. m - 1 |-> IF k = 0 THEN 0 ELSE T[k - 1] + numbers[k]]
    BY <1>2
  <2>2. ASSUME NEW k \in 0 .. m, k # 0 PROVE Step(T)[k - 1] = T[k - 1]
    <3>1. k - 1 \in 0 .. m /\ k - 1 \in 0 .. m - 1
      BY <2>2
    <3>2. T[k - 1] = IF k - 1 = 0 THEN 0 ELSE T[k - 1 - 1] + numbers[k - 1]
      BY <2>1, <3>1
    <3>3. Step(T)[k - 1] = IF k - 1 = 0 THEN 0 ELSE T[k - 1 - 1] + numbers[k - 1]
      BY <3>1
    <3> QED
      BY <3>2, <3>3
  <2> DEFINE next == Step(T)
  <2>3. R(next, m)
    BY <2>2
  <2>4. m \in 0 .. n
    OBVIOUS
  <2> HIDE DEF next
  <2> QED
    BY <2>3, <2>4
<1> HIDE DEF G
<1>3. n \in G
  <2>1. \A m \in 0 .. n : m \in G
    BY <1>1, <1>2, Climb
  <2> QED
    BY <2>1
<1>4. \E it : R(it, n)
  BY <1>3 DEF G
<1>5. R(CHOOSE it : R(it, n), n)
  BY <1>4, Zenon
<1>6. Total(numbers) = (CHOOSE it : R(it, n))[n]
  BY DEF Total
<1> DEFINE S == CHOOSE it : R(it, n)
<1>7. R(S, n)
  BY <1>5
<1> HIDE DEF S
<1>8. S[0] = 0 /\ \A k \in 1 .. n : S[k] = S[k - 1] + numbers[k]
  <2>1. ASSUME NEW k \in 1 .. n PROVE S[k] = S[k - 1] + numbers[k]
    <3>1. k \in 0 .. n /\ k # 0
      OBVIOUS
    <3> QED
      BY <1>7, <3>1
  <2>2. 0 \in 0 .. n
    OBVIOUS
  <2> QED
    BY <1>7, <2>1, <2>2
<1> QED
  BY <1>6, <1>8 DEF S

LEMMA TotalAppend ==
    ASSUME NEW numbers \in Seq(Int), NEW x \in Int
    PROVE  /\ Total(numbers) \in Int
           /\ Total(<< >>) = 0
           /\ Total(Append(numbers, x)) = Total(numbers) + x
<1> DEFINE n == Len(numbers)
           longer == Append(numbers, x)
<1>1. n \in Nat /\ Len(longer) = n + 1 /\ longer[n + 1] = x /\ \A k \in 1 .. n : longer[k] = numbers[k]
  OBVIOUS
<1>2. \A k \in 1 .. n : numbers[k] \in Int
  OBVIOUS
<1> HIDE DEF n, longer
<1>3. PICK S : /\ S[0] = 0 /\ Total(numbers) = S[n]
               /\ \A k \in 1 .. n : S[k] = S[k - 1] + numbers[k]
  BY <1>1, TotalUnfolds DEF n
<1> DEFINE G == {k \in 0 .. n : S[k] \in Int}
<1>4. \A k \in 0 .. n : S[k] \in Int
  <2>1. 0 \in G
    BY <1>1, <1>3
  <2>2. ASSUME NEW k \in 1 .. n, k - 1 \in G PROVE k \in G
    BY <1>1, <1>2, <1>3, <2>2
  <2> HIDE DEF G
  <2>3. \A k \in 0 .. n : k \in G
    BY <1>1, <2>1, <2>2, Climb
  <2> QED
    BY <2>3 DEF G
<1> DEFINE M == [k \in 0 .. n + 1 |-> IF k = n + 1 THEN S[n] + x ELSE S[k]]
           m == n + 1
<1>5. /\ M \in [0 .. m -> Int] /\ M[m] = S[n] + x /\ \A k \in 0 .. n : M[k] = S[k]
      /\ m \in Nat /\ n \in 0 .. n
  BY <1>1, <1>4
<1>6. ASSUME NEW k \in 1 .. m PROVE M[k] = M[k - 1] + longer[k]
  <2>1. (k = m /\ k - 1 = n) \/ (k \in 1 .. n /\ k - 1 \in 0 .. n /\ k \in 0 .. n)
    BY <1>1
  <2> HIDE DEF M
  <2> QED
    BY <1>1, <1>3, <1>5, <2>1
<1>7. Adds(M, m, Int, longer)
  <2>1. 0 \in 0 .. n /\ Len(longer) = m
    BY <1>1
  <2> HIDE DEF M, m
  <2> QED
    BY <1>3, <1>5, <1>6, <2>1 DEF Adds
<1> HIDE DEF M, m
<1>8. Total(longer) = S[n] + x
  BY <1>5, <1>7, TotalIs
<1>9. Total(<< >>) = 0
  <2> DEFINE none == << >>
             z == 0
  <2>1. Len(none) = z /\ z \in Nat
    OBVIOUS
  <2> HIDE DEF none, z
  <2>2. \E T : T[0] = 0 /\ Total(none) = T[z]
    BY <2>1, TotalUnfolds
  <2> QED
    BY <2>2 DEF none, z
<1> QED
  BY <1>1, <1>3, <1>4, <1>8, <1>9 DEF n, longer

\* The texts between two edits of a list.
Spliced(T, n, t, edits) ==
    /\ T[0] = t /\ ApplyEdits(t, edits) = T[n]
    /\ \A k \in 1 .. n : T[k] = Splice(T[k - 1], edits[n - k + 1])

LEMMA ApplyUnfolds ==
    ASSUME NEW t, NEW edits, NEW n \in Nat, Len(edits) = n
    PROVE  \E T : Spliced(T, n, t, edits)
<1> DEFINE R(it, m) == it = [k \in 0 .. m |-> IF k = 0 THEN t
                                               ELSE Splice(it[k - 1], edits[n - k + 1])]
           G == {m \in 0 .. n : \E it : R(it, m)}
<1>1. 0 \in G
  <2> DEFINE it == [k \in 0 .. 0 |-> t]
  <2>1. R(it, 0)
    OBVIOUS
  <2> HIDE DEF it
  <2> QED
    BY <2>1
<1>2. ASSUME NEW m \in 1 .. n, m - 1 \in G PROVE m \in G
  <2> DEFINE Step(T) == [k \in 0 .. m |-> IF k = 0 THEN t ELSE Splice(T[k - 1], edits[n - k + 1])]
  <2>1. PICK T : T = [k \in 0 .. m - 1 |-> IF k = 0 THEN t ELSE Splice(T[k - 1], edits[n - k + 1])]
    BY <1>2
  <2>2. ASSUME NEW k \in 0 .. m, k # 0 PROVE Step(T)[k - 1] = T[k - 1]
    <3>1. k - 1 \in 0 .. m /\ k - 1 \in 0 .. m - 1
      BY <2>2
    <3>2. T[k - 1] = IF k - 1 = 0 THEN t ELSE Splice(T[k - 1 - 1], edits[n - (k - 1) + 1])
      BY <2>1, <3>1
    <3>3. Step(T)[k - 1] = IF k - 1 = 0 THEN t ELSE Splice(T[k - 1 - 1], edits[n - (k - 1) + 1])
      BY <3>1
    <3> QED
      BY <3>2, <3>3
  <2> DEFINE next == Step(T)
  <2>3. R(next, m)
    BY <2>2
  <2>4. m \in 0 .. n
    OBVIOUS
  <2> HIDE DEF next
  <2> QED
    BY <2>3, <2>4
<1> HIDE DEF G
<1>3. n \in G
  <2>1. \A m \in 0 .. n : m \in G
    BY <1>1, <1>2, Climb
  <2> QED
    BY <2>1
<1>4. \E it : R(it, n)
  BY <1>3 DEF G
<1>5. R(CHOOSE it : R(it, n), n)
  BY <1>4, Zenon
<1>6. ApplyEdits(t, edits) = (CHOOSE it : R(it, n))[n]
  BY DEF ApplyEdits
<1> DEFINE S == CHOOSE it : R(it, n)
<1>7. R(S, n)
  BY <1>5
<1> HIDE DEF S
<1>8. S[0] = t /\ \A k \in 1 .. n : S[k] = Splice(S[k - 1], edits[n - k + 1])
  <2>1. ASSUME NEW k \in 1 .. n PROVE S[k] = Splice(S[k - 1], edits[n - k + 1])
    <3>1. k \in 0 .. n /\ k # 0
      OBVIOUS
    <3> QED
      BY <1>7, <3>1
  <2>2. 0 \in 0 .. n
    OBVIOUS
  <2> QED
    BY <1>7, <2>1, <2>2
<1>9. Spliced(S, n, t, edits)
  <2>1. ApplyEdits(t, edits) = S[n]
    BY <1>6 DEF S
  <2> QED
    BY <1>8, <2>1 DEF Spliced
<1> QED
  BY <1>9

LEMMA ApplyNone == ASSUME NEW t PROVE ApplyEdits(t, << >>) = t
<1> DEFINE none == << >>
           z == 0
<1>1. Len(none) = z /\ z \in Nat
  OBVIOUS
<1> HIDE DEF none, z
<1>2. PICK P : Spliced(P, z, t, none)
  BY <1>1, ApplyUnfolds
<1> QED
  BY <1>2 DEF Spliced, none, z

\* The last edit of a list is made first.
LEMMA ApplyAppend ==
    ASSUME NEW t, NEW S, NEW edits \in Seq(S), NEW e \in S
    PROVE  ApplyEdits(t, Append(edits, e)) = ApplyEdits(Splice(t, e), edits)
<1> DEFINE n == Len(edits)
           longer == Append(edits, e)
           u == Splice(t, e)
           m == n + 1
<1>1. n \in Nat /\ m \in Nat /\ Len(longer) = m /\ longer[m] = e /\ \A k \in 1 .. n : longer[k] = edits[k]
  OBVIOUS
<1>2. PICK T : /\ T[0] = u /\ ApplyEdits(u, edits) = T[n]
               /\ \A k \in 1 .. n : T[k] = Splice(T[k - 1], edits[n - k + 1])
  <2>1. Len(edits) = n
    OBVIOUS
  <2> HIDE DEF n, u
  <2>2. \E T : Spliced(T, n, u, edits)
    BY <1>1, <2>1, ApplyUnfolds
  <2> QED
    BY <2>2, Zenon DEF Spliced
<1> DEFINE M == [k \in 0 .. m |-> IF k = 0 THEN t ELSE T[k - 1]]
           D == {M[k] : k \in 0 .. m}
<1>3. M \in [0 .. m -> D] /\ M[0] = t /\ \A k \in 1 .. m : M[k] = T[k - 1]
  BY <1>1
<1> HIDE DEF n, longer, u, M, D
<1>4. ASSUME NEW k \in 1 .. m PROVE M[k] = Splice(M[k - 1], longer[m - k + 1])
  <2>1. CASE k = 1
    <3>1. m - k + 1 = m /\ k - 1 = 0
      BY <1>1, <2>1
    <3> QED
      BY <1>1, <1>2, <1>3, <3>1 DEF u
  <2>2. CASE k # 1
    <3> DEFINE l == k - 1
    <3>1. l \in 1 .. n /\ l \in 1 .. m /\ m - k + 1 = n - l + 1 /\ n - l + 1 \in 1 .. n
      BY <1>1, <2>2
    <3>2. M[k] = T[l] /\ M[l] = T[l - 1]
      BY <1>3, <3>1
    <3> HIDE DEF l
    <3>3. T[l] = Splice(T[l - 1], edits[n - l + 1])
      BY <1>2, <3>1
    <3>4. longer[m - k + 1] = edits[n - l + 1]
      BY <1>1, <3>1
    <3> QED
      BY <3>2, <3>3, <3>4 DEF l
  <2> QED
    BY <2>1, <2>2
<1> HIDE DEF m
<1>5. ApplyEdits(t, longer) = M[m]
  <2>1. Makes(M, m, D, t, longer)
    BY <1>1, <1>3, <1>4 DEF Makes
  <2> QED
    BY <2>1, AppliedIs
<1>6. M[m] = T[n]
  <2>1. m \in 1 .. m /\ m - 1 = n
    BY <1>1 DEF m
  <2> QED
    BY <1>3, <2>1
<1> QED
  BY <1>2, <1>5, <1>6 DEF longer, u

-----------------------------------------------------------------------------
(* Texts and splices, byte by byte *)

Given == Words \cup {Start} \cup Opened \cup Keys \cup Pastes \cup Replacements

Byte == UNION {ToSet(text) : text \in Given}
Text == Seq(Byte)

Edit == [from : Nat, to : Nat, with : Text]
Fits(t, e) == e.from <= e.to /\ e.to <= Len(t)

LEMMA TextsGiven == Given \cup {<< >>} \subseteq Text
<1>1. ASSUME NEW t \in Given PROVE t \in Text
  <2>1. t \in Seq(ToSet(t))
    <3>1. CASE t \in Words \cup {Start}
      BY <3>1, HistoryAssumption
    <3>2. CASE t \in Opened \cup Keys \cup Pastes \cup Replacements
      <4>1. t \in Seq(ToSet(t) \ {Trail})
        BY <3>2, EditorAssumption
      <4>2. ToSet(t) \ {Trail} \subseteq ToSet(t)
        OBVIOUS
      <4> QED
        BY <4>1, <4>2, SeqMonotonic
    <3> QED
      BY <3>1, <3>2 DEF Given
  <2>2. ToSet(t) \subseteq Byte
    BY DEF Byte
  <2> QED
    BY <2>1, <2>2 DEF Text
<1>2. << >> \in Text
  BY DEF Text
<1> QED
  BY <1>1, <1>2

LEMMA SliceAt ==
    ASSUME NEW t \in Text, NEW i \in Nat, NEW j \in Nat, i <= j, j <= Len(t)
    PROVE  /\ Slice(t, i, j) \in Text
           /\ Len(Slice(t, i, j)) = j - i
           /\ \A k \in 1 .. j - i : Slice(t, i, j)[k] = t[i + k]
<1> DEFINE a == i + 1
<1>1. Len(t) \in Nat /\ a \in Int /\ j \in Int
  BY DEF Text
<1>2. \A k \in a .. j : t[k] \in Byte
  <2> TAKE k \in a .. j
  <2>1. k \in 1 .. Len(t)
    BY <1>1
  <2> QED
    BY <2>1 DEF Text
<1>3. Slice(t, i, j) = SubSeq(t, a, j)
  BY DEF Slice
<1>4. a <= j \/ j - a + 1 = 0
  OBVIOUS
<1>5. j - a + 1 = j - i
  OBVIOUS
<1>6. \A k \in 1 .. j - i : a + k - 1 = i + k
  OBVIOUS
<1> HIDE DEF a
<1>7. /\ SubSeq(t, a, j) \in Seq(Byte)
      /\ Len(SubSeq(t, a, j)) = IF a <= j THEN j - a + 1 ELSE 0
      /\ \A k \in 1 .. j - a + 1 : SubSeq(t, a, j)[k] = t[a + k - 1]
  BY <1>1, <1>2, SubSeqProperties
<1> QED
  BY <1>3, <1>4, <1>5, <1>6, <1>7 DEF Text

LEMMA SpliceAt ==
    ASSUME NEW t \in Text, NEW e \in Edit, Fits(t, e)
    PROVE  /\ Splice(t, e) \in Text
           /\ Len(Splice(t, e)) = Len(t) + Len(e.with) - (e.to - e.from)
           /\ \A k \in 1 .. Len(Splice(t, e)) :
                 Splice(t, e)[k] = IF k <= e.from THEN t[k]
                                   ELSE IF k <= e.from + Len(e.with) THEN e.with[k - e.from]
                                   ELSE t[k - Len(e.with) + (e.to - e.from)]
<1> DEFINE a == Slice(t, 0, e.from)
           w == e.with
           b == Slice(t, e.to, Len(t))
           p == e.from
           q == e.to
           n == Len(t)
<1>1. p \in Nat /\ q \in Nat /\ n \in Nat /\ w \in Text /\ p <= q /\ q <= n
  BY DEF Text, Edit, Fits
<1>2. a \in Text /\ Len(a) = p /\ \A k \in 1 .. p : a[k] = t[k]
  <2>1. 0 \in Nat /\ 0 <= p /\ p <= Len(t) /\ p - 0 = p /\ \A k \in 1 .. p : 0 + k = k
    BY <1>1
  <2>2. /\ Slice(t, 0, p) \in Text /\ Len(Slice(t, 0, p)) = p - 0
        /\ \A k \in 1 .. p - 0 : Slice(t, 0, p)[k] = t[0 + k]
    BY <1>1, <2>1, SliceAt
  <2> QED
    BY <2>1, <2>2
<1>3. b \in Text /\ Len(b) = n - q /\ \A k \in 1 .. n - q : b[k] = t[q + k]
  <2>1. n <= Len(t) /\ b = Slice(t, q, n)
    BY <1>1
  <2> HIDE DEF b, q, n
  <2> QED
    BY <1>1, <2>1, SliceAt
<1>4. Splice(t, e) = a \o w \o b
  BY DEF Splice
<1> HIDE DEF a, b, w, p, q, n
<1>5. /\ a \o w \in Text /\ Len(a \o w) = p + Len(w)
      /\ \A k \in 1 .. p + Len(w) : (a \o w)[k] = IF k <= p THEN a[k] ELSE w[k - p]
  BY <1>1, <1>2, ConcatProperties DEF Text
<1> DEFINE c == a \o w
<1>6. c \in Text /\ Len(c) = p + Len(w)
      /\ \A k \in 1 .. p + Len(w) : c[k] = IF k <= p THEN a[k] ELSE w[k - p]
  BY <1>5
<1> HIDE DEF c
<1>7. /\ c \o b \in Text /\ Len(c \o b) = Len(c) + Len(b)
      /\ \A k \in 1 .. Len(c) + Len(b) :
            (c \o b)[k] = IF k <= Len(c) THEN c[k] ELSE b[k - Len(c)]
  BY <1>3, <1>6, ConcatProperties DEF Text
<1> DEFINE u == c \o b
<1>8. /\ u \in Text /\ Len(u) = Len(c) + Len(b)
      /\ \A k \in 1 .. Len(c) + Len(b) : u[k] = IF k <= Len(c) THEN c[k] ELSE b[k - Len(c)]
  BY <1>7
<1>9. Splice(t, e) = u
  BY <1>4 DEF c
<1> HIDE DEF u
<1>10. Len(w) \in Nat
  BY <1>1 DEF Text
<1>11. Len(u) = n + Len(w) - (q - p)
  BY <1>1, <1>3, <1>6, <1>8, <1>10
<1>12. ASSUME NEW k \in 1 .. Len(u)
       PROVE  u[k] = IF k <= p THEN t[k]
                     ELSE IF k <= p + Len(w) THEN w[k - p]
                     ELSE t[k - Len(w) + (q - p)]
  <2>1. k \in 1 .. Len(c) + Len(b)
    BY <1>8
  <2>2. CASE k <= p + Len(w)
    <3>1. u[k] = c[k]
      BY <1>6, <1>8, <2>1, <2>2
    <3>2. k \in 1 .. p + Len(w)
      BY <1>1, <1>10, <2>2
    <3>3. c[k] = IF k <= p THEN a[k] ELSE w[k - p]
      BY <1>6, <3>2
    <3>4. CASE k <= p
      <4>1. k \in 1 .. p
        BY <3>4, <1>1
      <4> QED
        BY <1>2, <3>1, <3>3, <3>4, <4>1
    <3> QED
      BY <2>2, <3>1, <3>3, <3>4
  <2>3. CASE ~ (k <= p + Len(w))
    <3>1. u[k] = b[k - (p + Len(w))]
      BY <1>6, <1>8, <2>1, <2>3
    <3>2. k - (p + Len(w)) \in 1 .. n - q
      BY <1>1, <1>10, <1>11, <2>3
    <3>3. q + (k - (p + Len(w))) = k - Len(w) + (q - p) /\ ~ (k <= p)
      BY <1>1, <1>10, <2>3
    <3> QED
      BY <1>3, <2>3, <3>1, <3>2, <3>3
  <2> QED
    BY <2>2, <2>3
<1>13. /\ u \in Text /\ Len(u) = Len(t) + Len(e.with) - (e.to - e.from)
       /\ \A k \in 1 .. Len(u) :
             u[k] = IF k <= e.from THEN t[k]
                    ELSE IF k <= e.from + Len(e.with) THEN e.with[k - e.from]
                    ELSE t[k - Len(e.with) + (e.to - e.from)]
  BY <1>8, <1>11, <1>12 DEF w, p, q, n
<1> QED
  BY <1>9, <1>13

\* The edit that takes an edit back, shifted by what came before it.
Undoing(t, e, shift) ==
    [from |-> e.from + shift, to |-> e.from + shift + Len(e.with),
     with |-> Slice(t, e.from, e.to)]

LEMMA UndoingFits ==
    ASSUME NEW t \in Text, NEW e \in Edit, Fits(t, e)
    PROVE  Undoing(t, e, 0) \in Edit /\ Fits(Splice(t, e), Undoing(t, e, 0))
<1>1. e.from \in Nat /\ e.to \in Nat /\ e.with \in Text /\ Len(e.with) \in Nat
  BY DEF Edit, Text
<1>2. Slice(t, e.from, e.to) \in Text
  BY <1>1, SliceAt DEF Fits
<1>3. Len(Splice(t, e)) = Len(t) + Len(e.with) - (e.to - e.from) /\ Len(t) \in Nat
  BY SpliceAt DEF Text
<1> QED
  BY <1>1, <1>2, <1>3 DEF Undoing, Fits, Edit

\* Taking an edit back restores the text.
LEMMA SpliceBack ==
    ASSUME NEW t \in Text, NEW e \in Edit, Fits(t, e)
    PROVE  Splice(Splice(t, e), Undoing(t, e, 0)) = t
<1> DEFINE u == Splice(t, e)
           i == Undoing(t, e, 0)
           v == Splice(u, i)
           p == e.from
           q == e.to
           n == Len(t)
           m == Len(e.with)
<1>1. p \in Nat /\ q \in Nat /\ n \in Nat /\ m \in Nat /\ p <= q /\ q <= n
  BY DEF Text, Edit, Fits
<1>2. /\ u \in Text /\ Len(u) = n + m - (q - p)
      /\ \A k \in 1 .. Len(u) : u[k] = IF k <= p THEN t[k]
                                       ELSE IF k <= p + m THEN e.with[k - p]
                                       ELSE t[k - m + (q - p)]
  BY SpliceAt
<1>3. i \in Edit /\ Fits(u, i)
  BY UndoingFits
<1>4. i.from = p /\ i.to = p + m /\ Len(i.with) = q - p
      /\ \A k \in 1 .. q - p : i.with[k] = t[p + k]
  <2>1. /\ i.from = p + 0 /\ i.to = p + 0 + m /\ i.with = Slice(t, p, q)
    BY DEF Undoing
  <2>2. p + 0 = p
    BY <1>1
  <2>3. i.from = p /\ i.to = p + m
    BY <2>1, <2>2
  <2> HIDE DEF i, p, q, m
  <2>4. /\ Len(Slice(t, p, q)) = q - p
        /\ \A k \in 1 .. q - p : Slice(t, p, q)[k] = t[p + k]
    BY <1>1, SliceAt DEF n
  <2> QED
    BY <2>1, <2>3, <2>4
<1> HIDE DEF u, i
<1>5. /\ v \in Text /\ Len(v) = Len(u) + Len(i.with) - (i.to - i.from)
      /\ \A k \in 1 .. Len(v) : v[k] = IF k <= i.from THEN u[k]
                                       ELSE IF k <= i.from + Len(i.with) THEN i.with[k - i.from]
                                       ELSE u[k - Len(i.with) + (i.to - i.from)]
  BY <1>2, <1>3, SpliceAt
<1> HIDE DEF v, p, q, n, m
<1>6. Len(v) = n
  BY <1>1, <1>2, <1>4, <1>5
<1>7. ASSUME NEW k \in 1 .. n PROVE v[k] = t[k]
  <2>1. k \in Int /\ 1 <= k /\ k <= n
    BY <1>1
  <2>0. v[k] = IF k <= p THEN u[k]
               ELSE IF k <= p + (q - p) THEN i.with[k - p]
               ELSE u[k - (q - p) + m]
    <3>1. i.from = p /\ Len(i.with) = q - p /\ i.to - i.from = m
      BY <1>1, <1>4
    <3> QED
      BY <1>5, <1>6, <3>1
  <2>2. CASE k <= p
    <3>1. k \in 1 .. Len(u)
      BY <1>1, <1>2, <2>1, <2>2
    <3>2. v[k] = u[k]
      BY <2>0, <2>2
    <3> QED
      BY <1>2, <2>2, <3>1, <3>2
  <2>3. CASE p < k /\ k <= q
    <3>1. v[k] = i.with[k - p]
      <4>1. ~ (k <= p) /\ k <= p + (q - p)
        BY <1>1, <2>1, <2>3
      <4> QED
        BY <2>0, <4>1
    <3>2. k - p \in 1 .. q - p /\ p + (k - p) = k
      BY <1>1, <2>1, <2>3
    <3> QED
      BY <1>4, <3>1, <3>2
  <2>4. CASE q < k
    <3> DEFINE l == k - (q - p) + m
    <3>1. v[k] = u[l]
      <4>1. ~ (k <= p) /\ ~ (k <= p + (q - p))
        BY <1>1, <2>1, <2>4
      <4> QED
        BY <2>0, <4>1
    <3>2. l \in 1 .. Len(u) /\ ~ (l <= p) /\ ~ (l <= p + m) /\ l - m + (q - p) = k
      BY <1>1, <1>2, <2>1, <2>4
    <3> HIDE DEF l
    <3> QED
      BY <1>2, <3>1, <3>2
  <2> QED
    BY <1>1, <2>1, <2>2, <2>3, <2>4
<1>8. v = t
  BY <1>5, <1>6, <1>7, SeqEqual DEF Text, n
<1> QED
  BY <1>8 DEF v, u, i

\* An edit moved by what came before it.
Shifted(f, by) == [from |-> f.from + by, to |-> f.to + by, with |-> f.with]

\* What lies behind an edit is kept.
LEMMA SliceKept ==
    ASSUME NEW t \in Text, NEW e \in Edit, Fits(t, e),
           NEW i \in Nat, NEW j \in Nat, e.to <= i, i <= j, j <= Len(t)
    PROVE  /\ Delta(e) \in Int /\ i + Delta(e) \in Nat /\ j + Delta(e) <= Len(Splice(t, e))
           /\ e.from <= i + Delta(e)
           /\ Slice(Splice(t, e), i + Delta(e), j + Delta(e)) = Slice(t, i, j)
<1> DEFINE p == e.from
           q == e.to
           m == Len(e.with)
           n == Len(t)
           d == m - (q - p)
           u == Splice(t, e)
           a == i + d
           b == j + d
<1>1. p \in Nat /\ q \in Nat /\ m \in Nat /\ n \in Nat /\ p <= q /\ q <= n
  BY DEF Text, Edit, Fits
<1>2. /\ u \in Text /\ Len(u) = n + m - (q - p)
      /\ \A k \in 1 .. Len(u) : u[k] = IF k <= p THEN t[k]
                                       ELSE IF k <= p + m THEN e.with[k - p]
                                       ELSE t[k - m + (q - p)]
  BY SpliceAt
<1>3. Delta(e) = d /\ d \in Int
  BY <1>1 DEF Delta, Span
<1> HIDE DEF p, q, m, n, u
<1>4. a \in Nat /\ b \in Nat /\ a <= b /\ b <= Len(u) /\ p <= a /\ b - a = j - i
  <2>1. q <= i /\ i <= j /\ j <= n
    BY DEF n, q
  <2> HIDE DEF d
  <2>2. d = m - (q - p)
    BY DEF d
  <2> QED
    BY <1>1, <1>2, <2>1, <2>2
<1> HIDE DEF a, b
<1>5. /\ Slice(u, a, b) \in Text /\ Len(Slice(u, a, b)) = j - i
      /\ \A k \in 1 .. j - i : Slice(u, a, b)[k] = u[a + k]
  <2>1. /\ Slice(u, a, b) \in Text /\ Len(Slice(u, a, b)) = b - a
        /\ \A k \in 1 .. b - a : Slice(u, a, b)[k] = u[a + k]
    <3>1. u \in Text /\ a \in Nat /\ b \in Nat /\ a <= b /\ b <= Len(u)
      BY <1>2, <1>4
    <3> QED
      BY <3>1, SliceAt
  <2> QED
    BY <1>4, <2>1
<1>6. /\ Slice(t, i, j) \in Text /\ Len(Slice(t, i, j)) = j - i
      /\ \A k \in 1 .. j - i : Slice(t, i, j)[k] = t[i + k]
  BY SliceAt
<1>7. ASSUME NEW k \in 1 .. j - i PROVE u[a + k] = t[i + k]
  <2> DEFINE l == a + k
  <2>1. /\ l \in 1 .. Len(u) /\ ~ (l <= p) /\ ~ (l <= p + m)
        /\ l - m + (q - p) = i + k
    <3>1. q <= i /\ a = i + m - (q - p)
      BY <1>1 DEF a, q
    <3>2. k \in Int /\ 1 <= k /\ k <= b - a
      BY <1>4
    <3>3. p + m <= a /\ a + k <= b /\ a + k - m + (q - p) = i + k
      BY <1>1, <1>4, <3>1, <3>2
    <3>4. a + k \in Int /\ Len(u) \in Int /\ a \in Nat /\ b <= Len(u) /\ p \in Int /\ m \in Nat
          /\ b \in Int
      BY <1>1, <1>2, <1>4, <3>2
    <3> HIDE DEF d
    <3> QED
      BY <3>2, <3>3, <3>4
  <2> HIDE DEF l
  <2>2. u[l] = t[i + k]
    BY <1>2, <2>1
  <2> QED
    BY <2>2 DEF l
<1>8. Slice(u, a, b) = Slice(t, i, j)
  <2> DEFINE v == Slice(u, a, b)
             w == Slice(t, i, j)
  <2>1. v \in Text /\ w \in Text /\ Len(v) = Len(w) /\ \A k \in 1 .. Len(v) : v[k] = w[k]
    BY <1>5, <1>6, <1>7
  <2> HIDE DEF v, w
  <2>2. v = w
    BY <2>1, SeqEqual DEF Text
  <2> QED
    BY <2>2 DEF v, w
<1> QED
  BY <1>3, <1>4, <1>8 DEF a, b, u, p

\* Two edits can be made in either order.
LEMMA Commute ==
    ASSUME NEW t \in Text, NEW e \in Edit, NEW f \in Edit, Fits(t, e), Fits(t, f),
           e.to <= f.from
    PROVE  /\ Shifted(f, Delta(e)) \in Edit
           /\ Fits(Splice(t, e), Shifted(f, Delta(e)))
           /\ Fits(Splice(t, f), e)
           /\ Splice(Splice(t, f), e) = Splice(Splice(t, e), Shifted(f, Delta(e)))
<1> DEFINE p == e.from
           q == e.to
           r == f.from
           s == f.to
           n == Len(t)
           m == Len(e.with)
           l == Len(f.with)
           w == e.with
           x == f.with
           d == m - (q - p)
           u == Splice(t, f)
           v == Splice(t, e)
           g == Shifted(f, Delta(e))
           y == Splice(u, e)
           z == Splice(v, g)
<1>1. /\ p \in Nat /\ q \in Nat /\ r \in Nat /\ s \in Nat /\ n \in Nat /\ m \in Nat /\ l \in Nat
      /\ p <= q /\ q <= r /\ r <= s /\ s <= n
  BY DEF Text, Edit, Fits
<1>2. /\ u \in Text /\ Len(u) = n + l - (s - r)
      /\ \A k \in 1 .. Len(u) : u[k] = IF k <= r THEN t[k]
                                       ELSE IF k <= r + l THEN x[k - r]
                                       ELSE t[k - l + (s - r)]
  BY SpliceAt
<1>3. /\ v \in Text /\ Len(v) = n + m - (q - p)
      /\ \A k \in 1 .. Len(v) : v[k] = IF k <= p THEN t[k]
                                       ELSE IF k <= p + m THEN w[k - p]
                                       ELSE t[k - m + (q - p)]
  BY SpliceAt
<1>4. Fits(u, e)
  BY <1>1, <1>2 DEF Fits
<1>5. /\ y \in Text /\ Len(y) = Len(u) + m - (q - p)
      /\ \A k \in 1 .. Len(y) : y[k] = IF k <= p THEN u[k]
                                       ELSE IF k <= p + m THEN w[k - p]
                                       ELSE u[k - m + (q - p)]
  <2> HIDE DEF u
  <2> QED
    BY <1>2, <1>4, SpliceAt
<1>6. Delta(e) = d /\ d \in Int
  BY <1>1 DEF Delta, Span
<1>7. g.from = r + d /\ g.to = s + d /\ g.with = x
      /\ g = [from |-> g.from, to |-> g.to, with |-> g.with] /\ x \in Text
  BY <1>6 DEF Shifted, Edit
<1> HIDE DEF u, v, g, p, q, r, s, n, m, l, w, x
<1>9. g \in Edit /\ Fits(v, g)
  <2>1. r + d \in Nat /\ s + d \in Nat /\ r + d <= s + d /\ s + d <= Len(v)
    BY <1>1, <1>3
  <2>2. g \in Edit
    BY <1>7, <2>1 DEF Edit
  <2>3. Fits(v, g)
    BY <1>7, <2>1 DEF Fits
  <2> QED
    BY <2>2, <2>3
<1>10. /\ z \in Text /\ Len(z) = Len(v) + l - (s - r)
       /\ \A k \in 1 .. Len(z) : z[k] = IF k <= r + d THEN v[k]
                                        ELSE IF k <= r + d + l THEN x[k - (r + d)]
                                        ELSE v[k - l + (s - r)]
  <2>1. /\ z \in Text /\ Len(z) = Len(v) + Len(g.with) - (g.to - g.from)
        /\ \A k \in 1 .. Len(z) : z[k] = IF k <= g.from THEN v[k]
                                         ELSE IF k <= g.from + Len(g.with) THEN g.with[k - g.from]
                                         ELSE v[k - Len(g.with) + (g.to - g.from)]
    BY <1>3, <1>9, SpliceAt
  <2>2. Len(g.with) = l /\ g.to - g.from = s - r
    BY <1>1, <1>6, <1>7 DEF l, x
  <2> HIDE DEF z
  <2> QED
    BY <1>7, <2>1, <2>2
<1> HIDE DEF y, z
<1>11. Len(y) = Len(z) /\ Len(y) = n + l - (s - r) + m - (q - p)
  BY <1>1, <1>2, <1>3, <1>5, <1>10
<1>12. ASSUME NEW k \in 1 .. Len(y) PROVE y[k] = z[k]
  <2>1. k \in Int /\ 1 <= k /\ k <= n + l - (s - r) + m - (q - p) /\ k \in 1 .. Len(z)
    BY <1>1, <1>11
  <2>2. CASE k <= p
    <3>1. k \in 1 .. Len(u) /\ k \in 1 .. Len(v) /\ k <= r + d /\ k <= r
      BY <1>1, <1>2, <1>3, <2>1, <2>2
    <3>2. y[k] = u[k] /\ u[k] = t[k]
      BY <1>2, <1>5, <2>2, <3>1
    <3>3. z[k] = v[k] /\ v[k] = t[k]
      BY <1>3, <1>10, <2>1, <2>2, <3>1
    <3> QED
      BY <3>2, <3>3
  <2>3. CASE p < k /\ k <= p + m
    <3>1. k \in 1 .. Len(v) /\ k <= r + d /\ ~ (k <= p)
      <4>1. p + m <= r + d /\ p + m <= Len(v)
        BY <1>1, <1>3
      <4>2. k \in Int /\ p \in Int /\ p + m \in Int /\ r + d \in Int /\ Len(v) \in Int
        BY <1>1, <1>3, <2>1
      <4> HIDE DEF d
      <4> QED
        BY <2>1, <2>3, <4>1, <4>2
    <3>2. y[k] = w[k - p]
      BY <1>5, <2>3, <3>1
    <3>3. z[k] = v[k] /\ v[k] = w[k - p]
      BY <1>3, <1>10, <2>1, <2>3, <3>1
    <3> QED
      BY <3>2, <3>3
  <2>4. CASE p + m < k /\ k <= r + d
    <3> DEFINE i == k - m + (q - p)
    <3>1. /\ k \in 1 .. Len(v) /\ ~ (k <= p) /\ ~ (k <= p + m)
          /\ i \in 1 .. Len(u) /\ i <= r
      BY <1>1, <1>2, <1>3, <2>1, <2>4
    <3>2. z[k] = v[k] /\ v[k] = t[i]
      BY <1>3, <1>10, <2>1, <2>4, <3>1
    <3>3. y[k] = u[i]
      BY <1>5, <3>1
    <3> HIDE DEF i
    <3>4. u[i] = t[i]
      BY <1>2, <3>1
    <3> QED
      BY <3>2, <3>3, <3>4
  <2>5. CASE r + d < k /\ k <= r + d + l
    <3> DEFINE i == k - m + (q - p)
    <3>1. /\ ~ (k <= p) /\ ~ (k <= p + m) /\ ~ (k <= r + d)
          /\ i \in 1 .. Len(u) /\ ~ (i <= r) /\ i <= r + l /\ i - r = k - (r + d)
      BY <1>1, <1>2, <2>1, <2>5
    <3>2. z[k] = x[k - (r + d)]
      BY <1>10, <2>1, <2>5, <3>1
    <3>3. y[k] = u[i]
      BY <1>5, <3>1
    <3> HIDE DEF i
    <3>4. u[i] = x[i - r]
      BY <1>2, <3>1
    <3> QED
      BY <3>1, <3>2, <3>3, <3>4
  <2>6. CASE r + d + l < k
    <3> DEFINE i == k - m + (q - p)
               j == k - l + (s - r)
    <3>1. /\ ~ (k <= p) /\ ~ (k <= p + m) /\ ~ (k <= r + d) /\ ~ (k <= r + d + l)
          /\ i \in 1 .. Len(u) /\ ~ (i <= r) /\ ~ (i <= r + l)
          /\ j \in 1 .. Len(v) /\ ~ (j <= p) /\ ~ (j <= p + m)
          /\ i - l + (s - r) = j - m + (q - p)
      BY <1>1, <1>2, <1>3, <2>1, <2>6
    <3>2. z[k] = v[j]
      BY <1>10, <2>1, <3>1
    <3>3. y[k] = u[i]
      BY <1>5, <3>1
    <3> HIDE DEF i, j
    <3>4. u[i] = t[i - l + (s - r)]
      BY <1>2, <3>1
    <3>5. v[j] = t[j - m + (q - p)]
      BY <1>3, <3>1
    <3> QED
      BY <3>1, <3>2, <3>3, <3>4, <3>5
  <2>7. \/ k <= p
        \/ p < k /\ k <= p + m
        \/ p + m < k /\ k <= r + d
        \/ r + d < k /\ k <= r + d + l
        \/ r + d + l < k
    BY <1>1, <1>6, <2>1
  <2> QED
    BY <2>2, <2>3, <2>4, <2>5, <2>6, <2>7
<1>13. y = z
  BY <1>5, <1>10, <1>11, <1>12, SeqEqual DEF Text
<1> QED
  BY <1>4, <1>9, <1>13 DEF y, z, u, v, g

-----------------------------------------------------------------------------
(* Lists of edits: ordered and disjoint, all within one text *)

Script == Seq(Edit)

\* Every edit of the list ends before i.
Before(edits, i) == \A k \in 1 .. Len(edits) : edits[k].to <= i

Tidy(t, edits) ==
    /\ \A k \in 1 .. Len(edits) : Fits(t, edits[k])
    /\ \A k \in 1 .. Len(edits) : \A j \in 1 .. k - 1 : edits[j].to <= edits[k].from

LEMMA DeltaInt == \A e \in Edit : Delta(e) \in Int /\ Len(e.with) \in Nat
BY DEF Edit, Text, Delta, Span

LEMMA ScriptSplits ==
    ASSUME NEW edits \in Script, Len(edits) # 0
    PROVE  \E rest \in Script, e \in Edit :
              edits = Append(rest, e) /\ Len(rest) = Len(edits) - 1
<1>1. edits # << >> /\ Len(edits) \in Nat \ {0}
  BY DEF Script
<1>2. PICK rest \in Seq(Edit), e \in Edit : edits = Append(rest, e)
  BY <1>1, SequenceEmptyOrAppend DEF Script
<1>3. Len(edits) = Len(rest) + 1 /\ Len(rest) \in Nat
  BY <1>2
<1> QED
  BY <1>2, <1>3 DEF Script

LEMMA Appending ==
    ASSUME NEW rest \in Script, NEW e \in Edit
    PROVE  LET edits == Append(rest, e) IN
           /\ edits \in Script /\ Len(rest) \in Nat /\ Len(edits) = Len(rest) + 1
           /\ edits[Len(edits)] = e
           /\ \A k \in 1 .. Len(rest) : edits[k] = rest[k] /\ rest[k] \in Edit
BY DEF Script

LEMMA GainAppend ==
    ASSUME NEW rest \in Script, NEW e \in Edit
    PROVE  /\ Sum(Delta, << >>) = 0
           /\ Sum(Delta, rest) \in Int
           /\ Sum(Delta, Append(rest, e)) = Sum(Delta, rest) + Delta(e)
<1> DEFINE edits == Append(rest, e)
           sizes == [k \in DOMAIN rest |-> Delta(rest[k])]
           longer == [k \in DOMAIN edits |-> Delta(edits[k])]
           n == Len(rest)
<1>1. /\ edits \in Seq(Edit) /\ n \in Nat /\ Len(edits) = n + 1 /\ edits[n + 1] = e
      /\ \A k \in 1 .. n : edits[k] = rest[k] /\ rest[k] \in Edit
      /\ DOMAIN rest = 1 .. n /\ DOMAIN edits = 1 .. n + 1
  BY Appending DEF Script
<1>2. Delta(e) \in Int /\ \A k \in 1 .. n : Delta(rest[k]) \in Int
  BY <1>1, DeltaInt
<1> HIDE DEF edits, n
<1>3. sizes \in Seq(Int) /\ Len(sizes) = n /\ \A k \in 1 .. n : sizes[k] = Delta(rest[k])
  BY <1>1, <1>2
<1>4. longer \in Seq(Int) /\ Len(longer) = n + 1 /\ longer[n + 1] = Delta(e)
      /\ \A k \in 1 .. n : longer[k] = Delta(rest[k])
  BY <1>1, <1>2
<1>5. Sum(Delta, rest) = Total(sizes) /\ Sum(Delta, edits) = Total(longer)
  BY DEF Sum
<1>6. Sum(Delta, << >>) = Total(<< >>)
  BY DEF Sum
<1> HIDE DEF sizes, longer
<1>7. longer = Append(sizes, Delta(e))
  <2> DEFINE m == Append(sizes, Delta(e))
  <2>1. m \in Seq(Int) /\ Len(m) = n + 1 /\ m[n + 1] = Delta(e) /\ \A k \in 1 .. n : m[k] = sizes[k]
    BY <1>1, <1>2, <1>3
  <2> HIDE DEF m
  <2>2. \A k \in 1 .. n + 1 : k \in 1 .. n \/ k = n + 1
    BY <1>1
  <2>3. \A k \in 1 .. n + 1 : longer[k] = m[k]
    BY <1>3, <1>4, <2>1, <2>2
  <2>4. longer = m
    BY <1>4, <2>1, <2>3, SeqEqual
  <2> QED
    BY <2>4 DEF m
<1>8. Total(sizes) \in Int /\ Total(<< >>) = 0 /\ Total(longer) = Total(sizes) + Delta(e)
  BY <1>2, <1>3, <1>7, TotalAppend
<1> QED
  BY <1>5, <1>6, <1>8 DEF edits

LEMMA TidyAppend ==
    ASSUME NEW t, NEW rest \in Script, NEW e \in Edit
    PROVE  /\ Tidy(t, << >>) /\ \A i : Before(<< >>, i)
           /\ Tidy(t, Append(rest, e)) <=> /\ Tidy(t, rest) /\ Fits(t, e)
                                           /\ Before(rest, e.from)
           /\ \A i : Before(Append(rest, e), i) <=> Before(rest, i) /\ e.to <= i
<1> DEFINE edits == Append(rest, e)
           n == Len(rest)
<1>1. /\ n \in Nat /\ Len(edits) = n + 1 /\ edits[n + 1] = e
      /\ \A k \in 1 .. n : edits[k] = rest[k]
  BY Appending
<1>2. Tidy(t, << >>) /\ \A i : Before(<< >>, i)
  BY DEF Tidy, Before
<1> HIDE DEF edits, n
<1>3. \A k : k \in 1 .. n + 1 <=> k \in 1 .. n \/ k = n + 1
  BY <1>1
<1>4. ASSUME Tidy(t, edits) PROVE Tidy(t, rest) /\ Fits(t, e) /\ Before(rest, e.from)
  <2>1. \A k \in 1 .. n : Fits(t, rest[k])
    BY <1>1, <1>3, <1>4 DEF Tidy
  <2>2. Fits(t, e)
    BY <1>1, <1>3, <1>4 DEF Tidy
  <2>3. ASSUME NEW k \in 1 .. n, NEW j \in 1 .. k - 1 PROVE rest[j].to <= rest[k].from
    <3>1. k \in 1 .. n + 1 /\ j \in 1 .. n
      BY <1>1
    <3>2. edits[j].to <= edits[k].from
      BY <1>1, <1>4, <3>1 DEF Tidy
    <3> QED
      BY <1>1, <3>1, <3>2
  <2>4. ASSUME NEW j \in 1 .. n PROVE rest[j].to <= e.from
    <3>1. n + 1 \in 1 .. n + 1 /\ j \in 1 .. (n + 1) - 1
      BY <1>1
    <3>2. edits[j].to <= edits[n + 1].from
      BY <1>1, <1>4, <3>1 DEF Tidy
    <3> QED
      BY <1>1, <3>2
  <2> QED
    BY <2>1, <2>2, <2>3, <2>4 DEF Tidy, Before, n
<1>5. ASSUME Tidy(t, rest), Fits(t, e), Before(rest, e.from) PROVE Tidy(t, edits)
  <2>1. \A k \in 1 .. n + 1 : Fits(t, edits[k])
    BY <1>1, <1>3, <1>5 DEF Tidy, n
  <2>2. ASSUME NEW k \in 1 .. n + 1, NEW j \in 1 .. k - 1 PROVE edits[j].to <= edits[k].from
    <3>1. j \in 1 .. n
      BY <1>1
    <3>2. CASE k = n + 1
      BY <1>1, <1>5, <3>1, <3>2 DEF Before, n
    <3>3. CASE k \in 1 .. n
      BY <1>1, <1>5, <3>1, <3>3 DEF Tidy, n
    <3> QED
      BY <1>3, <3>2, <3>3
  <2> QED
    BY <1>1, <2>1, <2>2 DEF Tidy
<1>6. ASSUME NEW i PROVE Before(edits, i) <=> Before(rest, i) /\ e.to <= i
  BY <1>1, <1>3 DEF Before, n
<1> QED
  BY <1>2, <1>4, <1>5, <1>6 DEF edits

\* An edit behind all of them leaves them where they are.
LEMMA TidyStays ==
    ASSUME NEW t \in Text, NEW rest \in Script, NEW e \in Edit,
           Tidy(t, rest), Fits(t, e), Before(rest, e.from)
    PROVE  Splice(t, e) \in Text /\ Tidy(Splice(t, e), rest)
<1> DEFINE u == Splice(t, e)
<1>1. u \in Text /\ Len(u) = Len(t) + Len(e.with) - (e.to - e.from) /\ Len(t) \in Nat /\ Len(u) \in Nat
  BY SpliceAt DEF Text
<1>2. e.from \in Nat /\ e.to \in Nat /\ Len(e.with) \in Nat /\ e.from <= e.to /\ e.to <= Len(t)
  BY DEF Edit, Text, Fits
<1> HIDE DEF u
<1>3. e.from <= Len(u)
  BY <1>1, <1>2
<1>4. ASSUME NEW k \in 1 .. Len(rest) PROVE Fits(u, rest[k])
  <2>1. rest[k] \in Edit
    BY DEF Script
  <2>2. rest[k].to <= e.from /\ rest[k].from <= rest[k].to
    BY DEF Before, Tidy, Fits
  <2>3. rest[k].to \in Nat
    BY <2>1 DEF Edit
  <2> QED
    BY <1>1, <1>2, <1>3, <2>2, <2>3 DEF Fits
<1>5. Tidy(u, rest)
  BY <1>4 DEF Tidy
<1> QED
  BY <1>1, <1>5 DEF u

LEMMA Shifting ==
    ASSUME NEW f \in Edit, NEW a \in Int, NEW b \in Int
    PROVE  /\ Shifted(f, 0) = f
           /\ Shifted(Shifted(f, a), b) = Shifted(f, a + b)
           /\ Delta(Shifted(f, a)) = Delta(f)
<1>1. f.from \in Nat /\ f.to \in Nat /\ f = [from |-> f.from, to |-> f.to, with |-> f.with]
      /\ Len(f.with) \in Nat
  BY DEF Edit, Text
<1>2. f.from + 0 = f.from /\ f.to + 0 = f.to
      /\ f.from + a + b = f.from + (a + b) /\ f.to + a + b = f.to + (a + b)
      /\ (f.to + a) - (f.from + a) = f.to - f.from
  BY <1>1
<1> QED
  BY <1>1, <1>2 DEF Shifted, Delta, Span

\* What follows the edits is moved by what they add, and is otherwise kept.
Carries(t, edits) ==
    LET u == ApplyEdits(t, edits)
        s == Sum(Delta, edits)
    IN  /\ u \in Text /\ Len(u) = Len(t) + s
        /\ \A f \in Edit : Fits(t, f) /\ Before(edits, f.from) =>
              /\ Shifted(f, s) \in Edit /\ Fits(u, Shifted(f, s))
              /\ Slice(u, f.from + s, f.to + s) = Slice(t, f.from, f.to)
              /\ ApplyEdits(Splice(t, f), edits) = Splice(u, Shifted(f, s))

LEMMA CarriesNone == ASSUME NEW t \in Text PROVE Carries(t, << >>)
<1> DEFINE none == << >>
<1>1. Sum(Delta, none) = 0 /\ none \in Script
  <2>1. none \in Script
    BY DEF Script
  <2> DEFINE e == [from |-> 0, to |-> 0, with |-> << >>]
  <2>2. e \in Edit
    BY TextsGiven DEF Edit
  <2> HIDE DEF e, none
  <2>3. Sum(Delta, << >>) = 0
    BY <2>1, <2>2, GainAppend
  <2> QED
    BY <2>1, <2>3 DEF none
<1>2. \A u : ApplyEdits(u, none) = u
  BY ApplyNone
<1> HIDE DEF none
<1>3. ASSUME NEW f \in Edit PROVE Shifted(f, 0) = f /\ f.from + 0 = f.from /\ f.to + 0 = f.to
  <2>1. Shifted(f, 0) = f
    BY Shifting
  <2>2. f.from + 0 = f.from /\ f.to + 0 = f.to
    BY DEF Edit
  <2> QED
    BY <2>1, <2>2
<1>4. Len(t) \in Nat /\ Len(t) + 0 = Len(t)
  BY DEF Text
<1>5. Carries(t, none)
  BY <1>1, <1>2, <1>3, <1>4 DEF Carries
<1> QED
  BY <1>5 DEF none

LEMMA CarriesMore ==
    ASSUME NEW t \in Text, NEW rest \in Script, NEW e \in Edit, Tidy(t, Append(rest, e)),
           Carries(Splice(t, e), rest)
    PROVE  Carries(t, Append(rest, e))
<1> DEFINE edits == Append(rest, e)
           v == Splice(t, e)
           u == ApplyEdits(v, rest)
           s == Sum(Delta, rest)
           d == Delta(e)
<1>1. /\ Tidy(t, rest) /\ Fits(t, e) /\ Before(rest, e.from)
      /\ \A i : Before(edits, i) <=> Before(rest, i) /\ e.to <= i
  BY TidyAppend
<1>2. s \in Int /\ d \in Int /\ Sum(Delta, edits) = s + d
  BY GainAppend, DeltaInt
<1>3. \A w : ApplyEdits(w, edits) = ApplyEdits(Splice(w, e), rest)
  <2> TAKE w
  <2>1. rest \in Seq(Edit)
    BY DEF Script
  <2> QED
    BY <2>1, ApplyAppend
<1>4. v \in Text /\ Len(v) = Len(t) + d /\ Len(t) \in Nat
  <2>1. v \in Text /\ Len(v) = Len(t) + Len(e.with) - (e.to - e.from)
    BY <1>1, SpliceAt
  <2>2. e.from \in Nat /\ e.to \in Nat /\ Len(e.with) \in Nat /\ Len(t) \in Nat
    BY DEF Edit, Text
  <2> QED
    BY <2>1, <2>2 DEF Delta, Span
<1>5. u \in Text /\ Len(u) = Len(v) + s
  BY DEF Carries
<1> HIDE DEF v, u, s, d, edits
<1>6. ASSUME NEW f \in Edit, Fits(t, f), Before(edits, f.from)
      PROVE  /\ Shifted(f, s + d) \in Edit /\ Fits(u, Shifted(f, s + d))
             /\ Slice(u, f.from + (s + d), f.to + (s + d)) = Slice(t, f.from, f.to)
             /\ ApplyEdits(Splice(t, f), edits) = Splice(u, Shifted(f, s + d))
  <2> DEFINE g == Shifted(f, d)
  <2>1. Before(rest, f.from) /\ e.to <= f.from
    BY <1>1, <1>6
  <2>2. /\ g \in Edit /\ Fits(v, g) /\ Fits(Splice(t, f), e)
        /\ Splice(Splice(t, f), e) = Splice(v, g)
    BY <1>1, <1>6, <2>1, Commute DEF v, d
  <2>3. f.from \in Nat /\ f.to \in Nat /\ f.from <= f.to /\ f.to <= Len(t)
    BY <1>6 DEF Edit, Fits
  <2>4. e.from <= f.from + d /\ Slice(v, f.from + d, f.to + d) = Slice(t, f.from, f.to)
    BY <1>1, <2>1, <2>3, SliceKept DEF v, d
  <2>5. g.from = f.from + d /\ g.to = f.to + d
    BY DEF Shifted
  <2> HIDE DEF g
  <2>6. Before(rest, g.from)
    <3>1. \A k \in 1 .. Len(rest) : rest[k].to \in Nat /\ rest[k].to <= e.from
      <4>1. \A k \in 1 .. Len(rest) : rest[k] \in Edit
        BY DEF Script
      <4> QED
        BY <1>1, <4>1 DEF Edit, Before
    <3>2. e.from \in Nat /\ g.from \in Nat
      BY <2>2 DEF Edit
    <3> QED
      BY <2>4, <2>5, <3>1, <3>2 DEF Before
  <2>7. /\ Shifted(g, s) \in Edit /\ Fits(u, Shifted(g, s))
        /\ Slice(u, g.from + s, g.to + s) = Slice(v, g.from, g.to)
        /\ ApplyEdits(Splice(v, g), rest) = Splice(u, Shifted(g, s))
    BY <2>2, <2>6 DEF Carries, v, u, s
  <2>8. Shifted(g, s) = Shifted(f, s + d)
    <3>1. d + s = s + d
      BY <1>2
    <3> QED
      BY <1>2, <3>1, Shifting DEF g
  <2>9. g.from + s = f.from + (s + d) /\ g.to + s = f.to + (s + d)
    BY <1>2, <2>3, <2>5
  <2>10. ApplyEdits(Splice(t, f), edits) = ApplyEdits(Splice(v, g), rest)
    BY <1>3, <2>2
  <2> QED
    BY <2>4, <2>5, <2>7, <2>8, <2>9, <2>10
<1>7. ApplyEdits(t, edits) = u
  BY <1>3 DEF u, v
<1>8. Len(u) = Len(t) + (s + d)
  BY <1>2, <1>4, <1>5
<1>9. Carries(t, edits)
  BY <1>2, <1>5, <1>6, <1>7, <1>8 DEF Carries
<1> QED
  BY <1>9 DEF edits

LEMMA Carried ==
    ASSUME NEW t \in Text, NEW edits \in Script, Tidy(t, edits)
    PROVE  Carries(t, edits)
<1> DEFINE n == Len(edits)
           G == {k \in 0 .. n : \A w \in Text, es \in Script :
                                   Len(es) = k /\ Tidy(w, es) => Carries(w, es)}
<1>1. n \in Nat
  BY DEF Script
<1>2. 0 \in G
  <2>1. ASSUME NEW w \in Text, NEW es \in Script, Len(es) = 0 PROVE Carries(w, es)
    <3>1. es = << >>
      BY <2>1 DEF Script
    <3> QED
      BY <3>1, CarriesNone
  <2> QED
    BY <1>1, <2>1
<1>3. ASSUME NEW k \in 1 .. n, k - 1 \in G PROVE k \in G
  <2>1. ASSUME NEW w \in Text, NEW es \in Script, Len(es) = k, Tidy(w, es)
        PROVE  Carries(w, es)
    <3>1. PICK rest \in Script, e \in Edit : es = Append(rest, e) /\ Len(rest) = k - 1
      BY <1>1, <2>1, ScriptSplits
    <3>2. Tidy(w, rest) /\ Fits(w, e) /\ Before(rest, e.from)
      BY <2>1, <3>1, TidyAppend
    <3>3. Splice(w, e) \in Text /\ Tidy(Splice(w, e), rest)
      BY <3>2, TidyStays
    <3>4. Carries(Splice(w, e), rest)
      BY <1>3, <3>1, <3>3
    <3> QED
      BY <2>1, <3>1, <3>4, CarriesMore
  <2>2. k \in 0 .. n
    BY <1>1
  <2> QED
    BY <2>1, <2>2
<1> HIDE DEF G
<1>4. \A k \in 0 .. n : k \in G
  BY <1>1, <1>2, <1>3, Climb
<1>5. n \in G
  BY <1>1, <1>4
<1> QED
  BY <1>5 DEF G, n

\* Edits of which none begins before the one in front of it ends.
LEMMA Ordered ==
    ASSUME NEW t \in Text, NEW edits \in Script,
           \A k \in 1 .. Len(edits) : Fits(t, edits[k]),
           \A k \in 2 .. Len(edits) : edits[k - 1].to <= edits[k].from
    PROVE  Tidy(t, edits)
<1> DEFINE n == Len(edits)
           G == {k \in 0 .. n : \A j \in 1 .. k - 1 : edits[j].to <= edits[k].from}
<1>1. n \in Nat /\ \A k \in 1 .. n : /\ edits[k].from \in Nat /\ edits[k].to \in Nat
                                     /\ edits[k].from <= edits[k].to
  <2>1. \A k \in 1 .. n : edits[k] \in Edit
    BY DEF Script
  <2> QED
    BY <2>1 DEF Edit, Script, Fits
<1>2. 0 \in G
  BY <1>1
<1>3. ASSUME NEW k \in 1 .. n, k - 1 \in G PROVE k \in G
  <2>1. ASSUME NEW j \in 1 .. k - 1 PROVE edits[j].to <= edits[k].from
    <3>1. j \in 1 .. n /\ k \in 2 .. n /\ k - 1 \in 1 .. n
      BY <1>1
    <3>2. edits[k - 1].to <= edits[k].from
      BY <3>1
    <3>3. CASE j = k - 1
      BY <3>2, <3>3
    <3>4. CASE j # k - 1
      <4>1. j \in 1 .. (k - 1) - 1
        BY <1>1, <3>4
      <4>2. edits[j].to <= edits[k - 1].from
        BY <1>3, <4>1
      <4>3. edits[k - 1].from <= edits[k - 1].to
        BY <1>1, <3>1
      <4> DEFINE a == edits[j].to
                 b == edits[k - 1].from
                 c == edits[k - 1].to
                 d == edits[k].from
      <4>4. a \in Nat /\ b \in Nat /\ c \in Nat /\ d \in Nat
        BY <1>1, <3>1
      <4>5. a <= b /\ b <= c /\ c <= d
        BY <3>2, <4>2, <4>3
      <4> HIDE DEF a, b, c, d
      <4>6. a <= d
        BY <4>4, <4>5
      <4> QED
        BY <4>6 DEF a, d
    <3> QED
      BY <3>3, <3>4
  <2>2. k \in 0 .. n
    BY <1>1
  <2> QED
    BY <2>1, <2>2
<1> HIDE DEF G
<1>4. \A k \in 0 .. n : k \in G
  BY <1>1, <1>2, <1>3, Climb
<1>5. \A k \in 1 .. n : k \in G
  <2>1. \A k \in 1 .. n : k \in 0 .. n
    BY <1>1
  <2> QED
    BY <1>4, <2>1
<1>6. \A k \in 1 .. n : \A j \in 1 .. k - 1 : edits[j].to <= edits[k].from
  BY <1>5 DEF G
<1> QED
  BY <1>6 DEF Tidy, n

LEMMA ValidTidy ==
    ASSUME NEW t \in Text, NEW edits \in Script, ValidEdits(t, edits)
    PROVE  Tidy(t, edits)
<1>1. DOMAIN edits = 1 .. Len(edits) /\ Len(edits) \in Nat /\ Len(t) \in Nat
  BY DEF Script, Text
<1>2. \A k \in 1 .. Len(edits) : Fits(t, edits[k])
  BY <1>1 DEF ValidEdits, Fits, Boundaries
<1>3. \A k \in 2 .. Len(edits) : edits[k - 1].to <= edits[k].from
  <2> TAKE k \in 2 .. Len(edits)
  <2>1. k \in 1 .. Len(edits) /\ k > 1
    BY <1>1
  <2> QED
    BY <1>1, <2>1 DEF ValidEdits
<1> QED
  BY <1>2, <1>3, Ordered

-----------------------------------------------------------------------------
(* Taking edits back *)

LEMMA InverseAppend ==
    ASSUME NEW t, NEW rest \in Script, NEW e \in Edit
    PROVE  /\ InverseOf(t, << >>) = << >>
           /\ InverseOf(t, Append(rest, e))
                = Append(InverseOf(t, rest), Undoing(t, e, Sum(Delta, rest)))
<1> DEFINE edits == Append(rest, e)
           n == Len(rest)
           one == InverseOf(t, rest)
           all == InverseOf(t, edits)
           g == Undoing(t, e, Sum(Delta, rest))
           long == Append(one, g)
           D == {one[k] : k \in 1 .. n} \cup {g}
<1>1. /\ edits \in Seq(Edit) /\ n \in Nat /\ Len(edits) = n + 1 /\ edits[n + 1] = e
      /\ \A k \in 1 .. n : edits[k] = rest[k] /\ rest[k] \in Edit
      /\ DOMAIN rest = 1 .. n /\ DOMAIN edits = 1 .. n + 1 /\ rest \in Seq(Edit)
  BY Appending DEF Script
<1> HIDE DEF edits, n
<1>2. one = [k \in 1 .. n |-> Undoing(t, rest[k], Displacement(rest, k))]
  BY <1>1 DEF InverseOf, Undoing
<1>3. all = [k \in 1 .. n + 1 |-> Undoing(t, edits[k], Displacement(edits, k))]
  BY <1>1 DEF InverseOf, Undoing
<1>4. ASSUME NEW k \in 1 .. n + 1
      PROVE  /\ k \in 1 .. n => SubSeq(edits, 1, k - 1) = SubSeq(rest, 1, k - 1)
             /\ k = n + 1 => SubSeq(edits, 1, k - 1) = rest
  <2> DEFINE j == k - 1
             a == SubSeq(edits, 1, j)
             b == SubSeq(rest, 1, j)
  <2>1. j \in Nat /\ j <= n /\ 1 \in Int /\ j \in Int /\ j - 1 + 1 = j /\ (1 <= j \/ j = 0)
        /\ \A i \in 1 .. j : i \in 1 .. n /\ 1 + i - 1 = i
    BY <1>1
  <2> HIDE DEF j
  <2>2. \A i \in 1 .. j : edits[i] \in Edit /\ rest[i] \in Edit
    BY <1>1, <2>1
  <2>3. /\ a \in Seq(Edit) /\ Len(a) = IF 1 <= j THEN j - 1 + 1 ELSE 0
        /\ \A i \in 1 .. j - 1 + 1 : a[i] = edits[1 + i - 1]
    BY <2>1, <2>2, SubSeqProperties
  <2>4. /\ b \in Seq(Edit) /\ Len(b) = IF 1 <= j THEN j - 1 + 1 ELSE 0
        /\ \A i \in 1 .. j - 1 + 1 : b[i] = rest[1 + i - 1]
    BY <2>1, <2>2, SubSeqProperties
  <2> HIDE DEF a, b
  <2>5. Len(a) = j /\ Len(b) = j /\ \A i \in 1 .. j : a[i] = edits[i] /\ b[i] = rest[i]
    BY <2>1, <2>3, <2>4
  <2>6. \A i \in 1 .. j : edits[i] = rest[i]
    BY <1>1, <2>1
  <2>7. a = b
    BY <2>3, <2>4, <2>5, <2>6, SeqEqual
  <2>8. ASSUME j = n PROVE a = rest
    <3>1. Len(rest) = Len(a) /\ \A i \in 1 .. Len(a) : a[i] = rest[i]
      BY <2>5, <2>6, <2>8 DEF n
    <3> QED
      BY <1>1, <2>3, <3>1, SeqEqual
  <2>9. k = n + 1 => j = n
    BY <1>1 DEF j
  <2> QED
    BY <2>7, <2>8, <2>9 DEF a, b, j
<1>5. \A k \in 1 .. n : all[k] = one[k]
  <2> TAKE k \in 1 .. n
  <2>1. k \in 1 .. n + 1
    BY <1>1
  <2>2. Displacement(edits, k) = Displacement(rest, k)
    BY <1>4, <2>1 DEF Displacement
  <2> HIDE DEF one, all
  <2> QED
    BY <1>1, <1>2, <1>3, <2>1, <2>2
<1>6. all[n + 1] = g
  <2>1. n + 1 \in 1 .. n + 1
    BY <1>1
  <2>2. Displacement(edits, n + 1) = Sum(Delta, rest)
    BY <1>4, <2>1 DEF Displacement
  <2> HIDE DEF all
  <2> QED
    BY <1>1, <1>3, <2>1, <2>2
<1>7. one \in Seq(D) /\ Len(one) = n /\ all \in Seq(D) /\ Len(all) = n + 1 /\ g \in D
  <2>1. \A k \in 1 .. n + 1 : k \in 1 .. n \/ k = n + 1
    BY <1>1
  <2>2. \A k \in 1 .. n + 1 : all[k] \in D
    BY <1>5, <1>6, <2>1
  <2>3. \A k \in 1 .. n : one[k] \in D
    OBVIOUS
  <2> HIDE DEF one, all, D
  <2>4. one \in [1 .. n -> D] /\ all \in [1 .. n + 1 -> D]
    BY <1>2, <1>3, <2>2, <2>3
  <2>5. n + 1 \in Nat
    BY <1>1
  <2>6. one \in Seq(D) /\ DOMAIN one = 1 .. n /\ all \in Seq(D) /\ DOMAIN all = 1 .. n + 1
    <3>1. one \in Seq(D) /\ DOMAIN one = 1 .. n
      BY <1>1, <2>4
    <3>2. all \in Seq(D) /\ DOMAIN all = 1 .. n + 1
      BY <2>4, <2>5
    <3> QED
      BY <3>1, <3>2
  <2>7. Len(one) = n /\ Len(all) = n + 1
    BY <1>1, <2>5, <2>6
  <2>8. g \in D
    BY DEF D
  <2> QED
    BY <2>6, <2>7, <2>8
<1> HIDE DEF one, all, g, D
<1>8. /\ long \in Seq(D) /\ Len(long) = n + 1 /\ long[n + 1] = g
      /\ \A k \in 1 .. n : long[k] = one[k]
  BY <1>1, <1>7
<1> HIDE DEF long
<1>9. \A k \in 1 .. n + 1 : all[k] = long[k]
  <2>1. \A k \in 1 .. n + 1 : k \in 1 .. n \/ k = n + 1
    BY <1>1
  <2> QED
    BY <1>5, <1>6, <1>8, <2>1
<1>10. all = long
  BY <1>7, <1>8, <1>9, SeqEqual
<1>11. InverseOf(t, << >>) = << >>
  BY DEF InverseOf
<1> QED
  BY <1>10, <1>11 DEF all, long, one, g, edits

\* The inverse of a list of edits is one for the text they make, and takes
\* them back.
Returns(t, edits) ==
    LET u == ApplyEdits(t, edits)
        back == InverseOf(t, edits)
    IN  /\ back \in Script /\ Tidy(u, back) /\ ApplyEdits(u, back) = t
        /\ \A i \in Nat : Before(edits, i) => Before(back, i + Sum(Delta, edits))

LEMMA ReturnsNone == ASSUME NEW t \in Text PROVE Returns(t, << >>)
<1> DEFINE none == << >>
           e == [from |-> 0, to |-> 0, with |-> << >>]
<1>1. none \in Script /\ e \in Edit
  BY TextsGiven DEF Script, Edit
<1>2. InverseOf(t, << >>) = << >> /\ Tidy(t, << >>) /\ \A i : Before(<< >>, i)
  BY <1>1, InverseAppend, TidyAppend
<1>3. ApplyEdits(t, << >>) = t
  BY ApplyNone
<1>4. << >> \in Script
  BY <1>1
<1> HIDE DEF none, e
<1> QED
  BY <1>2, <1>3, <1>4 DEF Returns

LEMMA ReturnsMore ==
    ASSUME NEW t \in Text, NEW rest \in Script, NEW e \in Edit, Tidy(t, Append(rest, e)),
           Returns(t, rest)
    PROVE  Returns(t, Append(rest, e))
<1> DEFINE edits == Append(rest, e)
           s == Sum(Delta, rest)
           d == Delta(e)
           w == ApplyEdits(t, rest)
           h == Shifted(e, s)
           u == Splice(w, h)
           g == Undoing(t, e, s)
           back == InverseOf(t, rest)
           m == Len(e.with)
<1>1. /\ Tidy(t, rest) /\ Fits(t, e) /\ Before(rest, e.from)
      /\ \A i : Before(edits, i) <=> Before(rest, i) /\ e.to <= i
  BY TidyAppend
<1>2. s \in Int /\ d \in Int /\ Sum(Delta, edits) = s + d
  BY GainAppend, DeltaInt
<1>3. e.from \in Nat /\ e.to \in Nat /\ e.from <= e.to /\ m \in Nat /\ d = m - (e.to - e.from)
  BY <1>1 DEF Edit, Text, Fits, Delta, Span
<1>4. Carries(t, rest)
  BY <1>1, Carried
<1>5. /\ w \in Text /\ h \in Edit /\ Fits(w, h)
      /\ Slice(w, e.from + s, e.to + s) = Slice(t, e.from, e.to)
      /\ ApplyEdits(Splice(t, e), rest) = u
  BY <1>1, <1>4 DEF Carries
<1>6. ApplyEdits(t, edits) = u
  <2>1. rest \in Seq(Edit)
    BY DEF Script
  <2>2. ApplyEdits(t, edits) = ApplyEdits(Splice(t, e), rest)
    BY <2>1, ApplyAppend
  <2> QED
    BY <1>5, <2>2
<1>7. h.from = e.from + s /\ h.to = e.to + s /\ h.with = e.with
  BY DEF Shifted
<1>8. Undoing(w, h, 0) = g
  <2>1. h.from + 0 = e.from + s
    BY <1>2, <1>3, <1>7
  <2> HIDE DEF w, h, s
  <2> QED
    BY <1>5, <1>7, <2>1 DEF Undoing
<1>9. g.from = h.from /\ g.to = e.from + s + m
  BY <1>7 DEF Undoing
<1>10. InverseOf(t, edits) = Append(back, g)
  BY InverseAppend
<1>11. /\ back \in Script /\ Tidy(w, back) /\ ApplyEdits(w, back) = t
       /\ Before(back, e.from + s)
  BY <1>1, <1>3 DEF Returns
<1> HIDE DEF edits, s, d, w, h, g, back, u, m
<1>12. g \in Edit /\ Fits(u, g) /\ Splice(u, g) = w
  BY <1>5, <1>8, UndoingFits, SpliceBack DEF u
<1>13. Before(back, h.from)
  BY <1>7, <1>11
<1>14. Tidy(u, back)
  BY <1>5, <1>11, <1>13, TidyStays DEF u
<1>15. Tidy(u, Append(back, g)) /\ Append(back, g) \in Script
  <2>1. Append(back, g) \in Script
    BY <1>11, <1>12, Appending
  <2> QED
    BY <1>9, <1>11, <1>12, <1>13, <1>14, <2>1, TidyAppend
<1>16. ApplyEdits(u, Append(back, g)) = t
  <2>1. back \in Seq(Edit)
    BY <1>11 DEF Script
  <2>2. ApplyEdits(u, Append(back, g)) = ApplyEdits(Splice(u, g), back)
    BY <1>12, <2>1, ApplyAppend
  <2> QED
    BY <1>11, <1>12, <2>2
<1>17. ASSUME NEW i \in Nat, Before(edits, i) PROVE Before(Append(back, g), i + (s + d))
  <2>1. e.to <= i
    BY <1>1, <1>17
  <2>2. e.from + s <= i + (s + d) /\ g.to <= i + (s + d)
    BY <1>2, <1>3, <1>9, <2>1
  <2>3. Before(back, i + (s + d))
    <3>1. \A k \in 1 .. Len(back) : back[k].to \in Nat
      <4>1. \A k \in 1 .. Len(back) : back[k] \in Edit
        BY <1>11 DEF Script
      <4> QED
        BY <4>1 DEF Edit
    <3>2. e.from + s \in Int /\ i + (s + d) \in Int
      BY <1>2, <1>3
    <3> QED
      BY <1>11, <2>2, <3>1, <3>2 DEF Before
  <2> QED
    BY <1>11, <1>12, <2>2, <2>3, TidyAppend
<1>18. Returns(t, edits)
  BY <1>2, <1>6, <1>10, <1>15, <1>16, <1>17 DEF Returns
<1> QED
  BY <1>18 DEF edits

\* The inverse of a transaction takes it back.
LEMMA TakenBack ==
    ASSUME NEW t \in Text, NEW edits \in Script, Tidy(t, edits)
    PROVE  Returns(t, edits)
<1> DEFINE n == Len(edits)
           G == {k \in 0 .. n : \A w \in Text, es \in Script :
                                   Len(es) = k /\ Tidy(w, es) => Returns(w, es)}
<1>1. n \in Nat
  BY DEF Script
<1>2. 0 \in G
  <2>1. ASSUME NEW w \in Text, NEW es \in Script, Len(es) = 0 PROVE Returns(w, es)
    <3>1. es = << >>
      BY <2>1 DEF Script
    <3> QED
      BY <3>1, ReturnsNone
  <2> QED
    BY <1>1, <2>1
<1>3. ASSUME NEW k \in 1 .. n, k - 1 \in G PROVE k \in G
  <2>1. ASSUME NEW w \in Text, NEW es \in Script, Len(es) = k, Tidy(w, es)
        PROVE  Returns(w, es)
    <3>1. PICK rest \in Script, e \in Edit : es = Append(rest, e) /\ Len(rest) = k - 1
      BY <1>1, <2>1, ScriptSplits
    <3>2. Tidy(w, rest)
      BY <2>1, <3>1, TidyAppend
    <3>3. Returns(w, rest)
      BY <1>3, <3>1, <3>2
    <3> QED
      BY <2>1, <3>1, <3>3, ReturnsMore
  <2>2. k \in 0 .. n
    BY <1>1
  <2> QED
    BY <2>1, <2>2
<1> HIDE DEF G
<1>4. \A k \in 0 .. n : k \in G
  BY <1>1, <1>2, <1>3, Climb
<1>5. n \in G
  BY <1>1, <1>4
<1> QED
  BY <1>5 DEF G, n

LEMMA ValidReturns ==
    ASSUME NEW t \in Text, NEW edits \in Script, ValidEdits(t, edits)
    PROVE  /\ ApplyEdits(t, edits) \in Text
           /\ InverseOf(t, edits) \in Script
           /\ ApplyEdits(ApplyEdits(t, edits), InverseOf(t, edits)) = t
<1>1. Tidy(t, edits)
  BY ValidTidy
<1>2. Carries(t, edits) /\ Returns(t, edits)
  BY <1>1, Carried, TakenBack
<1> QED
  BY <1>2 DEF Carries, Returns

LEMMA ApplyOne == ASSUME NEW t, NEW e PROVE ApplyEdits(t, <<e>>) = Splice(t, e)
<1> DEFINE none == << >>
           S == {e}
<1>1. none \in Seq(S) /\ e \in S /\ Append(none, e) = <<e>>
  OBVIOUS
<1> HIDE DEF none, S
<1>2. ApplyEdits(t, Append(none, e)) = ApplyEdits(Splice(t, e), none)
  BY <1>1, ApplyAppend
<1> QED
  BY <1>1, <1>2, ApplyNone DEF none

LEMMA InverseOfOne ==
    ASSUME NEW t, NEW e \in Edit
    PROVE  InverseOf(t, <<e>>) = <<Undoing(t, e, 0)>>
<1> DEFINE none == << >>
<1>1. none \in Script /\ Append(none, e) = <<e>>
  BY DEF Script
<1>2. Sum(Delta, << >>) = 0 /\ InverseOf(t, << >>) = << >>
  BY <1>1, GainAppend, InverseAppend
<1> HIDE DEF none
<1>3. InverseOf(t, Append(none, e)) = Append(InverseOf(t, none), Undoing(t, e, Sum(Delta, none)))
  BY <1>1, InverseAppend
<1>4. \A x : Append(<< >>, x) = <<x>>
  OBVIOUS
<1> QED
  BY <1>1, <1>2, <1>3, <1>4 DEF none

-----------------------------------------------------------------------------
(* Replay *)

\* What applying lists of edits one after another goes through.
Plays(T, n, D, text, lists) ==
    /\ n \in Nat /\ Len(lists) = n /\ T \in [0 .. n -> D] /\ T[0] = text
    /\ \A k \in 1 .. n : T[k] = ApplyEdits(T[k - 1], lists[k])

LEMMA ReplayIs ==
    ASSUME NEW T, NEW n, NEW D, NEW text, NEW lists, Plays(T, n, D, text, lists)
    PROVE  Replay(text, lists) = T[n]
<1>0. /\ n \in Nat /\ Len(lists) = n /\ T \in [0 .. n -> D] /\ T[0] = text
      /\ \A k \in 1 .. n : T[k] = ApplyEdits(T[k - 1], lists[k])
  BY DEF Plays
<1> DEFINE R(it) == it = [k \in 0 .. n |->
                            IF k = 0 THEN text ELSE ApplyEdits(it[k - 1], lists[k])]
<1>1. R(T)
  <2>1. ASSUME NEW k \in 0 .. n
        PROVE  T[k] = IF k = 0 THEN text ELSE ApplyEdits(T[k - 1], lists[k])
    <3>1. k = 0 \/ (k \in 1 .. n /\ k # 0)
      BY <1>0
    <3> QED
      BY <1>0, <3>1
  <2>2. T = [k \in 0 .. n |-> T[k]]
    BY <1>0
  <2> QED
    BY <2>1, <2>2
<1>2. R(CHOOSE it : R(it))
  BY <1>1, Zenon
<1>3. Replay(text, lists) = (CHOOSE it : R(it))[n]
  BY <1>0 DEF Replay
<1> DEFINE it == CHOOSE it : R(it)
           G == {k \in 0 .. n : it[k] = T[k]}
<1>4. \A k \in 0 .. n : it[k] = IF k = 0 THEN text ELSE ApplyEdits(it[k - 1], lists[k])
  <2> HIDE DEF it
  <2>1. R(it)
    BY <1>2 DEF it
  <2> QED
    BY <2>1
<1> HIDE DEF it
<1>5. 0 \in G
  BY <1>0, <1>4
<1>6. ASSUME NEW k \in 1 .. n, k - 1 \in G PROVE k \in G
  <2>1. k \in 0 .. n /\ k - 1 \in 0 .. n /\ k # 0
    BY <1>0
  <2> QED
    BY <1>0, <1>4, <1>6, <2>1
<1> HIDE DEF G
<1>7. n \in G
  <2>1. \A k \in 0 .. n : k \in G
    BY <1>0, <1>5, <1>6, Climb
  <2> QED
    BY <1>0, <2>1
<1> QED
  BY <1>3, <1>7 DEF it, G

-----------------------------------------------------------------------------
(* Typing that is joined *)

\* u is t with w put in after p.
Inserted(u, t, p, w) ==
    /\ u \in Text
    /\ Len(u) = Len(t) + Len(w)
    /\ \A k \in 1 .. Len(u) : u[k] = IF k <= p THEN t[k]
                                     ELSE IF k <= p + Len(w) THEN w[k - p]
                                     ELSE t[k - Len(w)]

LEMMA InsertionAt ==
    ASSUME NEW t \in Text, NEW e \in Edit, e.from = e.to, e.from <= Len(t)
    PROVE  Inserted(Splice(t, e), t, e.from, e.with)
<1> DEFINE u == Splice(t, e)
           p == e.from
           w == e.with
           m == Len(w)
<1>1. p \in Nat /\ Len(t) \in Nat /\ m \in Nat
  BY DEF Text, Edit
<1>2. /\ u \in Text /\ Len(u) = Len(t) + m - (p - p)
      /\ \A k \in 1 .. Len(u) : u[k] = IF k <= p THEN t[k]
                                       ELSE IF k <= p + m THEN w[k - p]
                                       ELSE t[k - m + (p - p)]
  <2>1. Fits(t, e)
    BY <1>1 DEF Fits
  <2> HIDE DEF u, w
  <2>2. /\ u \in Text /\ Len(u) = Len(t) + Len(e.with) - (e.to - e.from)
        /\ \A k \in 1 .. Len(u) :
              u[k] = IF k <= e.from THEN t[k]
                     ELSE IF k <= e.from + Len(e.with) THEN e.with[k - e.from]
                     ELSE t[k - Len(e.with) + (e.to - e.from)]
    BY <2>1, SpliceAt DEF u
  <2> QED
    BY <2>2 DEF w
<1> HIDE DEF u, p, w, m
<1>3. p - p = 0
  BY <1>1
<1>4. Len(u) = Len(t) + m
  BY <1>1, <1>2, <1>3
<1>5. ASSUME NEW k \in 1 .. Len(u) PROVE k - m + (p - p) = k - m
  BY <1>1, <1>3, <1>4
<1>6. Inserted(u, t, p, w)
  BY <1>2, <1>4, <1>5 DEF Inserted, m
<1> QED
  BY <1>6 DEF u, p, w

\* Putting in one word and then another, after it or before it, is putting
\* in both.
LEMMA SpliceJoined ==
    ASSUME NEW t \in Text, NEW old \in Edit, NEW new \in Edit, NEW both \in Edit,
           NEW forward \in BOOLEAN, Fits(t, old),
           old.to = old.from, new.to = new.from, both.to = both.from, both.from = old.from,
           new.from = old.from + (IF forward THEN Len(old.with) ELSE 0),
           both.with = IF forward THEN old.with \o new.with ELSE new.with \o old.with
    PROVE  Splice(Splice(t, old), new) = Splice(t, both)
<1> DEFINE p == old.from
           n == Len(t)
           w == old.with
           x == new.with
           y == both.with
           m == Len(w)
           l == Len(x)
           u == Splice(t, old)
           v == Splice(u, new)
           z == Splice(t, both)
<1>1. /\ p \in Nat /\ n \in Nat /\ m \in Nat /\ l \in Nat /\ p <= n
      /\ w \in Text /\ x \in Text
  BY DEF Text, Edit, Fits
<1>2. /\ u \in Text /\ Len(u) = n + m
      /\ \A k \in 1 .. Len(u) : u[k] = IF k <= p THEN t[k]
                                       ELSE IF k <= p + m THEN w[k - p]
                                       ELSE t[k - m]
  <2>1. old.from = old.to /\ old.from <= Len(t)
    BY <1>1
  <2>2. Inserted(Splice(t, old), t, old.from, old.with)
    BY <2>1, InsertionAt
  <2>3. Inserted(u, t, p, w)
    BY <2>2
  <2> HIDE DEF u, p, w
  <2> QED
    BY <2>3 DEF Inserted, m, n
<1>3. /\ y \in Text /\ Len(y) = m + l
      /\ \A k \in 1 .. m + l : y[k] = IF forward
                                        THEN IF k <= m THEN w[k] ELSE x[k - m]
                                        ELSE IF k <= l THEN x[k] ELSE w[k - l]
  <2>1. /\ w \o x \in Text /\ Len(w \o x) = m + l
        /\ \A k \in 1 .. m + l : (w \o x)[k] = IF k <= m THEN w[k] ELSE x[k - m]
    <3>1. w \in Seq(Byte) /\ x \in Seq(Byte)
      BY <1>1 DEF Text
    <3> HIDE DEF w, x
    <3> QED
      BY <3>1, ConcatProperties DEF Text, m, l
  <2>2. /\ x \o w \in Text /\ Len(x \o w) = l + m
        /\ \A k \in 1 .. l + m : (x \o w)[k] = IF k <= l THEN x[k] ELSE w[k - l]
    <3>1. w \in Seq(Byte) /\ x \in Seq(Byte)
      BY <1>1 DEF Text
    <3> HIDE DEF w, x
    <3> QED
      BY <3>1, ConcatProperties DEF Text, m, l
  <2>3. l + m = m + l
    <3> HIDE DEF l, m
    <3> QED
      BY <1>1
  <2> HIDE DEF w, x, m, l, y
  <2>4. CASE forward
    <3>1. y = w \o x
      BY <2>4 DEF y, w, x
    <3> QED
      BY <2>1, <2>4, <3>1
  <2>5. CASE ~ forward
    <3>1. y = x \o w
      BY <2>5 DEF y, w, x
    <3> QED
      BY <2>2, <2>3, <2>5, <3>1
  <2> QED
    BY <2>4, <2>5
<1>4. both.from = both.to /\ both.from <= Len(t)
  BY <1>1
<1>5. /\ z \in Text /\ Len(z) = n + Len(y)
      /\ \A k \in 1 .. Len(z) : z[k] = IF k <= p THEN t[k]
                                       ELSE IF k <= p + Len(y) THEN y[k - p]
                                       ELSE t[k - Len(y)]
  <2>1. Inserted(Splice(t, both), t, both.from, both.with)
    BY <1>4, InsertionAt
  <2>2. Inserted(z, t, p, y)
    BY <2>1
  <2> HIDE DEF z, p, y
  <2> QED
    BY <2>2 DEF Inserted, n
<1> DEFINE r == p + (IF forward THEN m ELSE 0)
<1>6. new.from = r /\ new.to = r /\ r \in Nat
  BY <1>1
<1>7. r <= Len(u)
  <2>1. r <= n + m
    BY <1>1
  <2> QED
    BY <1>2, <2>1
<1>8. /\ v \in Text /\ Len(v) = Len(u) + l
      /\ \A k \in 1 .. Len(v) : v[k] = IF k <= r THEN u[k]
                                       ELSE IF k <= r + l THEN x[k - r]
                                       ELSE u[k - l]
  <2> HIDE DEF u, r
  <2>1. u \in Text /\ new.from = new.to /\ new.from <= Len(u)
    BY <1>2, <1>6, <1>7
  <2>2. Inserted(Splice(u, new), u, new.from, new.with)
    BY <2>1, InsertionAt
  <2>3. Inserted(v, u, r, x)
    BY <1>6, <2>2
  <2> HIDE DEF v, x
  <2> QED
    BY <2>3 DEF Inserted, l
<1> HIDE DEF u, v, z, y, w, x, p, n, m, l
<1>9. Len(v) = n + m + l /\ Len(z) = n + m + l
  BY <1>1, <1>2, <1>3, <1>5, <1>6, <1>8
<1>10. ASSUME NEW k \in 1 .. n + m + l PROVE v[k] = z[k]
  <2>1. k \in Int /\ 1 <= k /\ k <= n + m + l
    BY <1>1
  <2>2. z[k] = IF k <= p THEN t[k] ELSE IF k <= p + (m + l) THEN y[k - p] ELSE t[k - (m + l)]
    <3>1. Len(y) = m + l
      BY <1>3
    <3> QED
      BY <1>5, <1>9, <3>1
  <2>3. v[k] = IF k <= r THEN u[k] ELSE IF k <= r + l THEN x[k - r] ELSE u[k - l]
    BY <1>8, <1>9
  <2>4. CASE k <= p
    <3>1. k <= r /\ k \in 1 .. Len(u)
      BY <1>1, <1>2, <2>1, <2>4
    <3> QED
      BY <1>2, <2>2, <2>3, <2>4, <3>1
  <2>5. CASE p + (m + l) < k
    <3>1. ~ (k <= r) /\ ~ (k <= r + l) /\ ~ (k <= p) /\ ~ (k <= p + (m + l))
      BY <1>1, <2>1, <2>5
    <3>2. k - l \in 1 .. Len(u) /\ ~ (k - l <= p) /\ ~ (k - l <= p + m) /\ k - l - m = k - (m + l)
      BY <1>1, <1>2, <2>1, <2>5
    <3>3. u[k - l] = t[k - l - m]
      BY <1>2, <3>2
    <3> QED
      BY <2>2, <2>3, <3>1, <3>2, <3>3
  <2>6. CASE p < k /\ k <= p + (m + l) /\ forward
    <3>1. r = p + m /\ k - p \in 1 .. m + l
      BY <1>1, <2>1, <2>6
    <3>2. z[k] = IF k - p <= m THEN w[k - p] ELSE x[k - p - m]
      <4>1. z[k] = y[k - p]
        BY <1>1, <2>1, <2>2, <2>6
      <4> HIDE DEF r
      <4> QED
        BY <1>3, <2>6, <3>1, <4>1
    <3>3. CASE k <= p + m
      <4>1. k \in 1 .. Len(u) /\ ~ (k <= p) /\ k - p <= m
        BY <1>1, <1>2, <2>1, <2>6, <3>3
      <4>2. u[k] = w[k - p]
        BY <1>2, <3>3, <4>1
      <4> HIDE DEF r
      <4> QED
        BY <2>3, <3>1, <3>2, <3>3, <4>1, <4>2
    <3>4. CASE p + m < k
      <4>1. ~ (k <= r) /\ k <= r + l /\ k - r = k - p - m /\ ~ (k - p <= m)
        BY <1>1, <2>1, <2>6, <3>1, <3>4
      <4> HIDE DEF r
      <4> QED
        BY <2>3, <3>2, <4>1
    <3> QED
      BY <1>1, <2>1, <3>3, <3>4
  <2>7. CASE p < k /\ k <= p + (m + l) /\ ~ forward
    <3>1. r = p /\ k - p \in 1 .. m + l
      BY <1>1, <2>1, <2>7
    <3>2. z[k] = IF k - p <= l THEN x[k - p] ELSE w[k - p - l]
      <4>1. z[k] = y[k - p]
        BY <1>1, <2>1, <2>2, <2>7
      <4> HIDE DEF r
      <4> QED
        BY <1>3, <2>7, <3>1, <4>1
    <3>3. CASE k <= p + l
      <4>1. ~ (k <= r) /\ k <= r + l /\ k - r = k - p /\ k - p <= l
        BY <1>1, <2>1, <2>7, <3>1, <3>3
      <4> HIDE DEF r
      <4> QED
        BY <2>3, <3>2, <4>1
    <3>4. CASE p + l < k
      <4>1. ~ (k <= r) /\ ~ (k <= r + l) /\ ~ (k - p <= l)
        BY <1>1, <2>1, <2>7, <3>1, <3>4
      <4>2. k - l \in 1 .. Len(u) /\ ~ (k - l <= p) /\ k - l <= p + m /\ k - l - p = k - p - l
        BY <1>1, <1>2, <2>1, <2>7, <3>4
      <4>3. u[k - l] = w[k - l - p]
        BY <1>2, <4>2
      <4> HIDE DEF r
      <4> QED
        BY <2>3, <3>2, <4>1, <4>2, <4>3
    <3> QED
      BY <1>1, <2>1, <3>3, <3>4
  <2> QED
    BY <1>1, <2>1, <2>4, <2>5, <2>6, <2>7
<1>11. v = z
  BY <1>5, <1>8, <1>9, <1>10, SeqEqual DEF Text
<1> QED
  BY <1>11 DEF v, u, z

Context == {NoContext} \cup UNION {TypingContexts(i, word) : i \in Nat, word \in Words}

Kind == {"typing", "programmatic", "ime"}

\* An entry of the undo or redo stack: what was done, and how to undo it.
Entry == [kind : Kind, edits : Script, inverse : Script,
          charge : Nat, context : Context]

\* What an entry does to the text t makes it u, and its inverse is the one
\* that takes it back.
Leads(x, t, u) ==
    /\ ValidEdits(t, x.edits)
    /\ u = ApplyEdits(t, x.edits)
    /\ x.inverse = InverseOf(t, x.edits)

\* A transaction of the model.
Transaction == [base : Nat, kind : Kind, edits : Script]

LEMMA OneEdit ==
    ASSUME NEW edits \in Script, Len(edits) = 1
    PROVE  \E e \in Edit : edits = <<e>> /\ edits[1] = e
<1>1. edits[1] \in Edit /\ edits = <<edits[1]>>
  BY DEF Script
<1> QED
  BY <1>1

LEMMA OneIsScript == ASSUME NEW e \in Edit PROVE <<e>> \in Script /\ Len(<<e>>) = 1 /\ <<e>>[1] = e
BY DEF Script

LEMMA ReplacedOnly == ASSUME NEW a, NEW b PROVE [<<a>> EXCEPT ![1] = b] = <<b>>
<1>1. DOMAIN [<<a>> EXCEPT ![1] = b] = 1 .. 1 /\ [<<a>> EXCEPT ![1] = b][1] = b
  OBVIOUS
<1>2. [<<a>> EXCEPT ![1] = b] = [k \in 1 .. 1 |-> b]
  BY <1>1
<1>3. <<b>> = [k \in 1 .. 1 |-> b]
  OBVIOUS
<1> QED
  BY <1>2, <1>3

\* Typing joined to the newest entry makes an entry that leads from the text
\* before both to the text after both.
LEMMA JoinedLeads ==
    ASSUME NEW x \in Entry, NEW t \in Text, NEW u \in Text, Leads(x, t, u),
           NEW tx \in Transaction, NEW charge \in Nat, NEW context \in Context,
           Coalesces(x, tx, context), ValidEdits(u, tx.edits)
    PROVE  LET y == Coalesced(x, tx, charge, context) IN
           /\ y \in Entry
           /\ y.charge = x.charge + charge
           /\ Leads(y, t, ApplyEdits(u, tx.edits))
<1> DEFINE y == Coalesced(x, tx, charge, context)
           forward == context.direction = "forward"
<1>1. PICK old \in Edit : x.edits = <<old>> /\ x.edits[1] = old
  <2>1. Len(x.edits) = 1 /\ x.edits \in Script
    BY DEF Coalesces, CoalescibleTyping, Entry
  <2> QED
    BY <2>1, OneEdit
<1>2. PICK new \in Edit : tx.edits = <<new>> /\ tx.edits[1] = new
  <2>1. Len(tx.edits) = 1 /\ tx.edits \in Script
    BY DEF Coalesces, CoalescibleTyping, Transaction
  <2> QED
    BY <2>1, OneEdit
<1>3. /\ old.to = old.from /\ new.to = new.from
      /\ new.from = old.from + (IF forward THEN Len(old.with) ELSE 0)
  <2>1. Span(old) = 0 /\ Span(new) = 0
    BY <1>1, <1>2 DEF Coalesces, CoalescibleTyping
  <2>2. old.to \in Nat /\ old.from \in Nat /\ new.to \in Nat /\ new.from \in Nat
    BY DEF Edit
  <2>3. new.from = old.from + IF forward THEN Len(old.with) ELSE 0
    BY <1>1, <1>2 DEF Coalesces
  <2> QED
    BY <2>1, <2>2, <2>3 DEF Span
<1> DEFINE word == IF forward THEN old.with \o new.with ELSE new.with \o old.with
           both == IF forward THEN [old EXCEPT !.with = @ \o new.with]
                              ELSE [new EXCEPT !.with = @ \o old.with]
           shift == Len(new.with)
           i == Undoing(t, old, 0)
           j == [i EXCEPT !.to = @ + shift]
<1>4. /\ old.with \in Text /\ new.with \in Text /\ Len(old.with) \in Nat /\ shift \in Nat
      /\ old.from \in Nat
  BY DEF Edit, Text
<1>5. word \in Text /\ Len(word) = Len(old.with) + shift
  <2>1. /\ old.with \o new.with \in Text /\ new.with \o old.with \in Text
        /\ Len(old.with \o new.with) = Len(old.with) + shift
        /\ Len(new.with \o old.with) = shift + Len(old.with)
    BY <1>4, ConcatProperties DEF Text
  <2>2. shift + Len(old.with) = Len(old.with) + shift
    <3> HIDE DEF shift
    <3> QED
      BY <1>4
  <2> HIDE DEF shift, forward
  <2> QED
    BY <2>1, <2>2
<1>6. both \in Edit /\ both.from = old.from /\ both.to = old.from /\ both.with = word
  <2> HIDE DEF forward
  <2>1. CASE forward
    BY <1>3, <1>5, <2>1 DEF Edit
  <2>2. CASE ~ forward
    <3>1. new.from = old.from
      BY <1>3, <1>4, <2>2
    <3> QED
      BY <1>3, <1>5, <2>2, <3>1 DEF Edit
  <2> QED
    BY <2>1, <2>2
<1>7. Fits(t, old)
  <2>1. 1 \in DOMAIN x.edits /\ x.edits[1] = old
    BY <1>1
  <2> QED
    BY <2>1 DEF Leads, ValidEdits, Fits, Boundaries, Text
<1>8. x.inverse = <<i>> /\ i \in Edit
  <2>1. InverseOf(t, <<old>>) = <<i>>
    BY InverseOfOne
  <2> QED
    BY <1>1, <1>7, <2>1, UndoingFits DEF Leads
<1>9. y = [x EXCEPT !.edits = <<both>>, !.inverse = <<j>>, !.charge = x.charge + charge,
                    !.context = context]
  <2>1. [<<old>> EXCEPT ![1] = both] = <<both>>
    <3> HIDE DEF both
    <3> QED
      BY ReplacedOnly
  <2>2. [<<i>> EXCEPT ![1] = j] = <<j>>
    <3> HIDE DEF i, j
    <3> QED
      BY ReplacedOnly
  <2>3. y = [x EXCEPT !.edits[1] = both, !.inverse[1].to = @ + shift,
                      !.charge = @ + charge, !.context = context]
    BY <1>1, <1>2 DEF Coalesced
  <2>4. <<i>>[1] = i
    OBVIOUS
  <2> HIDE DEF both, y, i, shift
  <2>5. y = [x EXCEPT !.edits = [x.edits EXCEPT ![1] = both],
                      !.inverse = [x.inverse EXCEPT ![1] = [x.inverse[1] EXCEPT !.to = @ + shift]],
                      !.charge = x.charge + charge, !.context = context]
    BY <2>3 DEF Entry
  <2>6. [x.inverse EXCEPT ![1] = [x.inverse[1] EXCEPT !.to = @ + shift]] = <<j>>
    BY <1>8, <2>2, <2>4
  <2> HIDE DEF j
  <2> QED
    BY <1>1, <2>1, <2>5, <2>6
<1> HIDE DEF both, word, y, forward
<1>10. j = Undoing(t, both, 0) /\ j \in Edit
  <2>1. /\ i = [from |-> old.from + 0, to |-> old.from + 0 + Len(old.with),
                with |-> Slice(t, old.from, old.to)]
        /\ Undoing(t, both, 0) = [from |-> both.from + 0, to |-> both.from + 0 + Len(both.with),
                                  with |-> Slice(t, both.from, both.to)]
    BY DEF Undoing
  <2>2. old.from + 0 + Len(old.with) + shift = both.from + 0 + Len(both.with)
    <3> HIDE DEF shift
    <3> QED
      BY <1>4, <1>5, <1>6
  <2>3. j = [from |-> old.from + 0, to |-> old.from + 0 + Len(old.with) + shift,
             with |-> Slice(t, old.from, old.to)]
    <3> HIDE DEF shift
    <3> QED
      BY <2>1
  <2>4. j = Undoing(t, both, 0)
    BY <1>3, <1>6, <2>1, <2>2, <2>3
  <2>5. Fits(t, both)
    BY <1>3, <1>6, <1>7 DEF Fits
  <2> QED
    BY <1>6, <2>4, <2>5, UndoingFits
<1>11. y \in Entry /\ y.charge = x.charge + charge /\ y.edits = <<both>> /\ y.inverse = <<j>>
  <2>1. <<both>> \in Script /\ <<j>> \in Script
    BY <1>6, <1>10, OneIsScript
  <2>2. x.charge + charge \in Nat
    BY DEF Entry
  <2> HIDE DEF j
  <2> QED
    BY <1>9, <2>1, <2>2 DEF Entry
<1>12. ValidEdits(t, <<both>>)
  <2>1. ValidEdits(t, <<old>>)
    BY <1>1 DEF Leads
  <2>2. /\ DOMAIN <<old>> = {1} /\ <<old>>[1] = old
        /\ DOMAIN <<both>> = {1} /\ <<both>>[1] = both /\ <<both>> # << >>
    OBVIOUS
  <2>3. {old.from, old.to} \subseteq Boundaries(t)
    BY <2>1, <2>2 DEF ValidEdits
  <2>4. both.from <= both.to /\ {both.from, both.to} \subseteq Boundaries(t)
    BY <1>4, <1>6, <2>3
  <2> QED
    BY <2>2, <2>4 DEF ValidEdits
<1>13. InverseOf(t, <<both>>) = <<j>>
  BY <1>6, <1>10, InverseOfOne
<1>14. ApplyEdits(u, tx.edits) = ApplyEdits(t, <<both>>)
  <2>1. u = Splice(t, old)
    BY <1>1, ApplyOne DEF Leads
  <2>2. ApplyEdits(u, tx.edits) = Splice(Splice(t, old), new)
    BY <1>2, <2>1, ApplyOne
  <2>3. Splice(Splice(t, old), new) = Splice(t, both)
    <3>1. both.with = IF forward THEN old.with \o new.with ELSE new.with \o old.with
      BY <1>6 DEF word
    <3>2. both.to = both.from /\ both.from = old.from
      BY <1>6
    <3>3. forward \in BOOLEAN
      BY DEF forward
    <3> QED
      BY <1>3, <1>6, <1>7, <3>1, <3>2, <3>3, SpliceJoined
  <2>4. ApplyEdits(t, <<both>>) = Splice(t, both)
    BY ApplyOne
  <2> QED
    BY <2>2, <2>3, <2>4
<1>15. Leads(y, t, ApplyEdits(u, tx.edits))
  BY <1>11, <1>12, <1>13, <1>14 DEF Leads
<1> QED
  BY <1>11, <1>15 DEF y

-----------------------------------------------------------------------------
(* Stacks *)

\* The entries of an undo stack lead, one after the other, from bottom to top.
Held(stack, bottom, top) ==
    \E T \in [0 .. Len(stack) -> Text] :
       /\ T[0] = bottom /\ T[Len(stack)] = top
       /\ \A k \in 1 .. Len(stack) : Leads(stack[k], T[k - 1], T[k])

\* The newest entry of a redo stack leads on from top, the next from there.
Waiting(stack, top) ==
    \E T \in [0 .. Len(stack) -> Text] :
       /\ T[Len(stack)] = top
       /\ \A k \in 1 .. Len(stack) : Leads(stack[k], T[k], T[k - 1])

\* The charges of a stack add up to bytes.
Charged(stack, bytes) ==
    \E S \in [0 .. Len(stack) -> Nat] :
       /\ S[0] = 0 /\ S[Len(stack)] = bytes
       /\ \A k \in 1 .. Len(stack) : S[k] = S[k - 1] + stack[k].charge

LEMMA NoneHeld ==
    ASSUME NEW t \in Text
    PROVE  Held(<< >>, t, t) /\ Waiting(<< >>, t) /\ Charged(<< >>, 0)
<1> DEFINE T == [k \in 0 .. 0 |-> t]
           S == [k \in 0 .. 0 |-> 0]
           none == << >>
<1>1. Len(none) = 0 /\ \A k \in 1 .. 0 : FALSE
  OBVIOUS
<1>2. T \in [0 .. 0 -> Text] /\ T[0] = t /\ S \in [0 .. 0 -> Nat] /\ S[0] = 0
  OBVIOUS
<1> HIDE DEF T, S, none
<1>3. Held(none, t, t)
  BY <1>1, <1>2 DEF Held
<1>4. Waiting(none, t)
  BY <1>1, <1>2 DEF Waiting
<1>5. Charged(none, 0)
  BY <1>1, <1>2 DEF Charged
<1> QED
  BY <1>3, <1>4, <1>5 DEF none

LEMMA HeldGrows ==
    ASSUME NEW stack \in Seq(Entry), NEW b, NEW t, NEW u \in Text, NEW x \in Entry,
           Held(stack, b, t), Leads(x, t, u)
    PROVE  Held(Append(stack, x), b, u)
<1> DEFINE N == Len(stack)
           longer == Append(stack, x)
<1>1. PICK T \in [0 .. N -> Text] : /\ T[0] = b /\ T[N] = t
                                    /\ \A k \in 1 .. N : Leads(stack[k], T[k - 1], T[k])
  BY DEF Held
<1>2. N \in Nat
  OBVIOUS
<1>3. Len(longer) = N + 1 /\ longer[N + 1] = x /\ \A k \in 1 .. N : longer[k] = stack[k]
  OBVIOUS
<1> DEFINE M == [k \in 0 .. N + 1 |-> IF k = N + 1 THEN u ELSE T[k]]
<1>4. M \in [0 .. N + 1 -> Text] /\ M[N + 1] = u /\ \A k \in 0 .. N : M[k] = T[k]
  BY <1>2
<1> HIDE DEF M, N, longer
<1>5. ASSUME NEW k \in 1 .. N + 1 PROVE Leads(longer[k], M[k - 1], M[k])
  <2>1. CASE k = N + 1
    <3>1. k - 1 = N /\ N \in 0 .. N
      BY <1>2, <2>1
    <3> QED
      BY <1>1, <1>3, <1>4, <2>1, <3>1
  <2>2. CASE k # N + 1
    <3>1. k \in 1 .. N /\ k - 1 \in 0 .. N /\ k \in 0 .. N
      BY <1>2, <2>2
    <3> QED
      BY <1>1, <1>3, <1>4, <3>1
  <2> QED
    BY <2>1, <2>2
<1>6. Held(longer, b, u)
  <2>1. 0 \in 0 .. N
    BY <1>2
  <2>2. M[0] = b
    BY <1>1, <1>4, <2>1
  <2> QED
    BY <1>3, <1>4, <1>5, <2>2 DEF Held
<1> QED
  BY <1>6 DEF longer

LEMMA HeldPops ==
    ASSUME NEW stack \in Seq(Entry), stack # << >>, NEW b, NEW u, Held(stack, b, u)
    PROVE  \E t \in Text : Held(Front(stack), b, t) /\ Leads(Last(stack), t, u)
<1> DEFINE N == Len(stack)
           shorter == Front(stack)
<1>1. PICK T \in [0 .. N -> Text] : /\ T[0] = b /\ T[N] = u
                                    /\ \A k \in 1 .. N : Leads(stack[k], T[k - 1], T[k])
  BY DEF Held
<1>2. N \in Nat \ {0}
  OBVIOUS
<1>3. Len(shorter) = N - 1 /\ \A k \in 1 .. N - 1 : shorter[k] = stack[k]
  BY DEF Front
<1> DEFINE M == [k \in 0 .. N - 1 |-> T[k]]
<1>4. /\ M \in [0 .. N - 1 -> Text] /\ \A k \in 0 .. N - 1 : M[k] = T[k]
      /\ N - 1 \in 0 .. N - 1 /\ 0 \in 0 .. N - 1
  BY <1>2
<1>5. Last(stack) = stack[N]
  BY DEF Last
<1> HIDE DEF M, N, shorter
<1>6. \A k \in 1 .. N - 1 : Leads(shorter[k], M[k - 1], M[k])
  <2> TAKE k \in 1 .. N - 1
  <2>1. k \in 1 .. N /\ k - 1 \in 0 .. N - 1 /\ k \in 0 .. N - 1
    BY <1>2
  <2> QED
    BY <1>1, <1>3, <1>4, <2>1
<1>7. Held(shorter, b, M[N - 1])
  BY <1>1, <1>3, <1>4, <1>6 DEF Held
<1>8. Leads(stack[N], M[N - 1], u)
  <2>1. N \in 1 .. N
    BY <1>2
  <2> QED
    BY <1>1, <1>4, <2>1
<1> QED
  BY <1>4, <1>5, <1>7, <1>8 DEF shorter

LEMMA WaitingGrows ==
    ASSUME NEW stack \in Seq(Entry), NEW t, NEW u \in Text, NEW x \in Entry,
           Waiting(stack, t), Leads(x, u, t)
    PROVE  Waiting(Append(stack, x), u)
<1> DEFINE N == Len(stack)
           longer == Append(stack, x)
<1>1. PICK T \in [0 .. N -> Text] : /\ T[N] = t
                                    /\ \A k \in 1 .. N : Leads(stack[k], T[k], T[k - 1])
  BY DEF Waiting
<1>2. N \in Nat
  OBVIOUS
<1>3. Len(longer) = N + 1 /\ longer[N + 1] = x /\ \A k \in 1 .. N : longer[k] = stack[k]
  OBVIOUS
<1> DEFINE M == [k \in 0 .. N + 1 |-> IF k = N + 1 THEN u ELSE T[k]]
<1>4. M \in [0 .. N + 1 -> Text] /\ M[N + 1] = u /\ \A k \in 0 .. N : M[k] = T[k]
  BY <1>2
<1> HIDE DEF M, N, longer
<1>5. ASSUME NEW k \in 1 .. N + 1 PROVE Leads(longer[k], M[k], M[k - 1])
  <2>1. CASE k = N + 1
    <3>1. k - 1 = N /\ N \in 0 .. N
      BY <1>2, <2>1
    <3> QED
      BY <1>1, <1>3, <1>4, <2>1, <3>1
  <2>2. CASE k # N + 1
    <3>1. k \in 1 .. N /\ k - 1 \in 0 .. N /\ k \in 0 .. N
      BY <1>2, <2>2
    <3> QED
      BY <1>1, <1>3, <1>4, <3>1
  <2> QED
    BY <2>1, <2>2
<1>6. Waiting(longer, u)
  BY <1>3, <1>4, <1>5 DEF Waiting
<1> QED
  BY <1>6 DEF longer

LEMMA WaitingPops ==
    ASSUME NEW stack \in Seq(Entry), stack # << >>, NEW t, Waiting(stack, t)
    PROVE  \E u \in Text : Waiting(Front(stack), u) /\ Leads(Last(stack), t, u)
<1> DEFINE N == Len(stack)
           shorter == Front(stack)
<1>1. PICK T \in [0 .. N -> Text] : /\ T[N] = t
                                    /\ \A k \in 1 .. N : Leads(stack[k], T[k], T[k - 1])
  BY DEF Waiting
<1>2. N \in Nat \ {0}
  OBVIOUS
<1>3. Len(shorter) = N - 1 /\ \A k \in 1 .. N - 1 : shorter[k] = stack[k]
  BY DEF Front
<1> DEFINE M == [k \in 0 .. N - 1 |-> T[k]]
<1>4. /\ M \in [0 .. N - 1 -> Text] /\ \A k \in 0 .. N - 1 : M[k] = T[k]
      /\ N - 1 \in 0 .. N - 1
  BY <1>2
<1>5. Last(stack) = stack[N]
  BY DEF Last
<1> HIDE DEF M, N, shorter
<1>6. \A k \in 1 .. N - 1 : Leads(shorter[k], M[k], M[k - 1])
  <2> TAKE k \in 1 .. N - 1
  <2>1. k \in 1 .. N /\ k - 1 \in 0 .. N - 1 /\ k \in 0 .. N - 1
    BY <1>2
  <2> QED
    BY <1>1, <1>3, <1>4, <2>1
<1>7. Waiting(shorter, M[N - 1])
  BY <1>3, <1>4, <1>6 DEF Waiting
<1>8. Leads(stack[N], t, M[N - 1])
  <2>1. N \in 1 .. N
    BY <1>2
  <2> QED
    BY <1>1, <1>4, <2>1
<1> QED
  BY <1>4, <1>5, <1>7, <1>8 DEF shorter

LEMMA ChargedGrows ==
    ASSUME NEW stack \in Seq(Entry), NEW bytes, NEW x \in Entry, Charged(stack, bytes)
    PROVE  Charged(Append(stack, x), bytes + x.charge)
<1> DEFINE N == Len(stack)
           longer == Append(stack, x)
<1>1. PICK S \in [0 .. N -> Nat] : /\ S[0] = 0 /\ S[N] = bytes
                                   /\ \A k \in 1 .. N : S[k] = S[k - 1] + stack[k].charge
  BY DEF Charged
<1>2. N \in Nat
  OBVIOUS
<1>3. Len(longer) = N + 1 /\ longer[N + 1] = x /\ \A k \in 1 .. N : longer[k] = stack[k]
  OBVIOUS
<1>4. bytes + x.charge \in Nat
  BY <1>1, <1>2 DEF Entry
<1> DEFINE M == [k \in 0 .. N + 1 |-> IF k = N + 1 THEN bytes + x.charge ELSE S[k]]
<1>5. /\ M \in [0 .. N + 1 -> Nat] /\ M[N + 1] = bytes + x.charge
      /\ \A k \in 0 .. N : M[k] = S[k]
  BY <1>2, <1>4
<1> HIDE DEF M, N, longer
<1>6. ASSUME NEW k \in 1 .. N + 1 PROVE M[k] = M[k - 1] + longer[k].charge
  <2>1. CASE k = N + 1
    <3>1. k - 1 = N /\ N \in 0 .. N
      BY <1>2, <2>1
    <3> QED
      BY <1>1, <1>3, <1>5, <2>1, <3>1
  <2>2. CASE k # N + 1
    <3>1. k \in 1 .. N /\ k - 1 \in 0 .. N /\ k \in 0 .. N
      BY <1>2, <2>2
    <3> QED
      BY <1>1, <1>3, <1>5, <3>1
  <2> QED
    BY <2>1, <2>2
<1>7. Charged(longer, bytes + x.charge)
  <2>1. 0 \in 0 .. N
    BY <1>2
  <2>2. M[0] = 0
    BY <1>1, <1>5, <2>1
  <2> QED
    BY <1>3, <1>5, <1>6, <2>2 DEF Charged
<1> QED
  BY <1>7 DEF longer

LEMMA ChargedPops ==
    ASSUME NEW stack \in Seq(Entry), stack # << >>, NEW bytes, Charged(stack, bytes)
    PROVE  /\ Charged(Front(stack), bytes - Last(stack).charge)
           /\ bytes - Last(stack).charge \in Nat
<1> DEFINE N == Len(stack)
           shorter == Front(stack)
<1>1. PICK S \in [0 .. N -> Nat] : /\ S[0] = 0 /\ S[N] = bytes
                                   /\ \A k \in 1 .. N : S[k] = S[k - 1] + stack[k].charge
  BY DEF Charged
<1>2. N \in Nat \ {0}
  OBVIOUS
<1>3. Len(shorter) = N - 1 /\ \A k \in 1 .. N - 1 : shorter[k] = stack[k]
  BY DEF Front
<1>4. stack[N] \in Entry /\ stack[N].charge \in Nat
  <2>1. stack[N] \in Entry
    BY <1>2
  <2> HIDE DEF N
  <2> QED
    BY <2>1 DEF Entry
<1> DEFINE M == [k \in 0 .. N - 1 |-> S[k]]
<1>5. /\ M \in [0 .. N - 1 -> Nat] /\ \A k \in 0 .. N - 1 : M[k] = S[k]
      /\ N - 1 \in 0 .. N - 1 /\ 0 \in 0 .. N - 1
  BY <1>2
<1>6. Last(stack) = stack[N]
  BY DEF Last
<1> HIDE DEF M, N, shorter
<1>7. \A k \in 1 .. N - 1 : M[k] = M[k - 1] + shorter[k].charge
  <2> TAKE k \in 1 .. N - 1
  <2>1. k \in 1 .. N /\ k - 1 \in 0 .. N - 1 /\ k \in 0 .. N - 1
    BY <1>2
  <2> QED
    BY <1>1, <1>3, <1>5, <2>1
<1>8. M[N - 1] = bytes - stack[N].charge /\ M[N - 1] \in Nat
  <2>1. N \in 1 .. N /\ N \in 0 .. N /\ N - 1 \in 0 .. N
    BY <1>2
  <2>2. S[N] = S[N - 1] + stack[N].charge /\ S[N - 1] \in Nat
    BY <1>1, <2>1
  <2> QED
    BY <1>1, <1>4, <1>5, <2>2
<1>9. Charged(shorter, M[N - 1])
  BY <1>1, <1>3, <1>5, <1>7 DEF Charged
<1> QED
  BY <1>6, <1>8, <1>9 DEF shorter

-----------------------------------------------------------------------------
(* Eviction *)

LEMMA KeptEntries ==
    ASSUME NEW stack \in Seq(Entry), NEW i \in 0 .. Len(stack)
    PROVE  LET kept == SubSeq(stack, i + 1, Len(stack)) IN
           /\ kept \in Seq(Entry) /\ Len(kept) = Len(stack) - i
           /\ \A k \in 1 .. Len(stack) - i : kept[k] = stack[k + i]
<1> DEFINE N == Len(stack)
           j == i + 1
<1>1. N \in Nat /\ i \in Nat /\ i <= N
  OBVIOUS
<1>2. j \in Int /\ N \in Int /\ \A k \in j .. N : stack[k] \in Entry
  BY <1>1
<1>3. /\ N - j + 1 = N - i /\ (j <= N \/ N - i = 0)
      /\ \A k \in 1 .. N - i : j + k - 1 = k + i
  BY <1>1
<1> DEFINE kept == SubSeq(stack, j, N)
<1> HIDE DEF j, N
<1>4. /\ kept \in Seq(Entry) /\ Len(kept) = IF j <= N THEN N - j + 1 ELSE 0
      /\ \A k \in 1 .. N - j + 1 : kept[k] = stack[j + k - 1]
  BY <1>2, SubSeqProperties
<1> HIDE DEF kept
<1>5. kept \in Seq(Entry) /\ Len(kept) = N - i /\ \A k \in 1 .. N - i : kept[k] = stack[k + i]
  BY <1>3, <1>4
<1> QED
  BY <1>5 DEF kept, j, N

\* Without its oldest entries a stack leads from the text they led to.
LEMMA HeldLosesOldest ==
    ASSUME NEW stack \in Seq(Entry), NEW b, NEW u, NEW i \in 0 .. Len(stack), Held(stack, b, u)
    PROVE  LET c == Replay(b, [k \in 1 .. i |-> stack[k].edits]) IN
           c \in Text /\ Held(SubSeq(stack, i + 1, Len(stack)), c, u)
<1> DEFINE N == Len(stack)
           kept == SubSeq(stack, i + 1, N)
           lists == [k \in 1 .. i |-> stack[k].edits]
<1>1. PICK T \in [0 .. N -> Text] : /\ T[0] = b /\ T[N] = u
                                    /\ \A k \in 1 .. N : Leads(stack[k], T[k - 1], T[k])
  BY DEF Held
<1>2. N \in Nat /\ i \in Nat /\ i <= N
  OBVIOUS
<1>3. Len(kept) = N - i /\ \A k \in 1 .. N - i : kept[k] = stack[k + i]
  BY KeptEntries
<1>4. Len(lists) = i /\ \A k \in 1 .. i : lists[k] = stack[k].edits
  BY <1>2
<1> DEFINE D == [k \in 0 .. i |-> T[k]]
           M == [k \in 0 .. N - i |-> T[k + i]]
<1>5. D \in [0 .. i -> Text] /\ \A k \in 0 .. i : D[k] = T[k]
  BY <1>2
<1>6. M \in [0 .. N - i -> Text] /\ \A k \in 0 .. N - i : M[k] = T[k + i]
  BY <1>2
<1> HIDE DEF D, M, N, kept, lists
<1>7. Replay(b, lists) = T[i] /\ T[i] \in Text
  <2>1. ASSUME NEW k \in 1 .. i PROVE D[k] = ApplyEdits(D[k - 1], lists[k])
    <3>1. k \in 1 .. N /\ k \in 0 .. i /\ k - 1 \in 0 .. i
      BY <1>2
    <3>2. T[k] = ApplyEdits(T[k - 1], stack[k].edits)
      BY <1>1, <3>1 DEF Leads
    <3> QED
      BY <1>4, <1>5, <3>1, <3>2
  <2>2. 0 \in 0 .. i /\ i \in 0 .. i /\ i \in 0 .. N
    BY <1>2
  <2>3. Plays(D, i, Text, b, lists)
    BY <1>1, <1>2, <1>4, <1>5, <2>1, <2>2 DEF Plays
  <2>4. Replay(b, lists) = D[i]
    BY <2>3, ReplayIs
  <2> QED
    BY <1>1, <1>5, <2>2, <2>4
<1>8. M[0] = T[i] /\ M[N - i] = u
  <2>1. 0 \in 0 .. N - i /\ 0 + i = i /\ N - i \in 0 .. N - i /\ N - i + i = N
    BY <1>2
  <2> QED
    BY <1>1, <1>6, <2>1
<1>9. \A k \in 1 .. N - i : Leads(kept[k], M[k - 1], M[k])
  <2> TAKE k \in 1 .. N - i
  <2>1. k + i \in 1 .. N /\ k - 1 \in 0 .. N - i /\ k \in 0 .. N - i /\ k - 1 + i = k + i - 1
    BY <1>2
  <2>2. M[k - 1] = T[k + i - 1] /\ M[k] = T[k + i] /\ kept[k] = stack[k + i]
    BY <1>3, <1>6, <2>1
  <2> QED
    BY <1>1, <2>1, <2>2
<1>10. Held(kept, T[i], u)
  BY <1>3, <1>6, <1>8, <1>9 DEF Held
<1> QED
  BY <1>7, <1>10 DEF kept, lists, N

\* Its bytes are what is left when theirs are taken off.
LEMMA ChargedLosesOldest ==
    ASSUME NEW stack \in Seq(Entry), NEW bytes, NEW i \in 0 .. Len(stack), Charged(stack, bytes)
    PROVE  LET left == bytes - Sum(LAMBDA entry : entry.charge, SubSeq(stack, 1, i)) IN
           /\ left \in Nat
           /\ i = Len(stack) => left = 0
           /\ Charged(SubSeq(stack, i + 1, Len(stack)), left)
<1> DEFINE N == Len(stack)
           kept == SubSeq(stack, i + 1, N)
           gone == SubSeq(stack, 1, i)
           sizes == [k \in DOMAIN gone |-> gone[k].charge]
<1>1. PICK S \in [0 .. N -> Nat] : /\ S[0] = 0 /\ S[N] = bytes
                                   /\ \A k \in 1 .. N : S[k] = S[k - 1] + stack[k].charge
  BY DEF Charged
<1>2. N \in Nat /\ i \in Nat /\ i <= N
  OBVIOUS
<1>14. \A k \in 1 .. N : stack[k].charge \in Nat
  <2>1. \A x \in Entry : x.charge \in Nat
    BY DEF Entry
  <2>2. \A k \in 1 .. N : stack[k] \in Entry
    OBVIOUS
  <2> QED
    BY <2>1, <2>2
<1>3. Len(kept) = N - i /\ \A k \in 1 .. N - i : kept[k] = stack[k + i]
  BY KeptEntries
<1>4. Len(sizes) = i /\ \A k \in 1 .. i : sizes[k] = stack[k].charge
  <2>1. /\ 1 \in Int /\ i \in Int /\ \A k \in 1 .. i : stack[k] \in Entry
        /\ i - 1 + 1 = i /\ (1 <= i \/ i = 0) /\ \A k \in 1 .. i : 1 + k - 1 = k
    BY <1>2
  <2>2. /\ gone \in Seq(Entry) /\ Len(gone) = IF 1 <= i THEN i - 1 + 1 ELSE 0
        /\ \A k \in 1 .. i - 1 + 1 : gone[k] = stack[1 + k - 1]
    BY <2>1, SubSeqProperties
  <2> HIDE DEF gone
  <2>3. Len(gone) = i /\ DOMAIN gone = 1 .. i /\ \A k \in 1 .. i : gone[k] = stack[k]
    BY <2>1, <2>2, LenProperties
  <2> QED
    BY <1>2, <2>3
<1>5. Sum(LAMBDA entry : entry.charge, gone) = Total(sizes)
  BY DEF Sum
<1> DEFINE D == [k \in 0 .. i |-> S[k]]
           M == [k \in 0 .. N - i |-> S[k + i] - S[i]]
<1>6. D \in [0 .. i -> Nat] /\ \A k \in 0 .. i : D[k] = S[k]
  BY <1>2
<1> HIDE DEF D, N, kept, gone, sizes
<1>7. Total(sizes) = S[i] /\ S[i] \in Nat
  <2>1. ASSUME NEW k \in 1 .. i PROVE D[k] = D[k - 1] + sizes[k]
    <3>1. k \in 1 .. N /\ k \in 0 .. i /\ k - 1 \in 0 .. i
      BY <1>2
    <3> QED
      BY <1>1, <1>4, <1>6, <3>1
  <2>2. 0 \in 0 .. i /\ i \in 0 .. i /\ i \in 0 .. N
    BY <1>2
  <2>3. Adds(D, i, Nat, sizes)
    BY <1>1, <1>2, <1>4, <1>6, <2>1, <2>2 DEF Adds
  <2>4. Total(sizes) = D[i]
    BY <2>3, TotalIs
  <2> QED
    BY <1>1, <1>6, <2>2, <2>4
\* The sums never fall.
<1>8. \A k \in 0 .. N - i : S[k + i] - S[i] \in Nat
  <2> DEFINE G == {k \in 0 .. N - i : S[k + i] - S[i] \in Nat}
  <2>1. 0 \in G
    BY <1>1, <1>2, <1>7
  <2>2. ASSUME NEW k \in 1 .. N - i, k - 1 \in G PROVE k \in G
    <3>1. k + i \in 1 .. N /\ k + i \in 0 .. N /\ k - 1 + i = k + i - 1 /\ k \in 0 .. N - i
          /\ k + i - 1 \in 0 .. N
      BY <1>2
    <3>2. S[k + i] = S[k + i - 1] + stack[k + i].charge
      BY <1>1, <3>1
    <3>3. stack[k + i].charge \in Nat
      BY <1>14, <3>1
    <3>4. S[k + i - 1] - S[i] \in Nat /\ S[k + i - 1] \in Nat /\ S[i] \in Nat
      BY <1>1, <1>7, <2>2, <3>1
    <3>5. S[k + i] - S[i] \in Nat
      BY <3>2, <3>3, <3>4
    <3> QED
      BY <3>1, <3>5
  <2>3. N - i \in Nat
    BY <1>2
  <2> HIDE DEF G
  <2>4. \A k \in 0 .. N - i : k \in G
    BY <2>1, <2>2, <2>3, Climb
  <2> QED
    BY <2>4 DEF G
<1>9. /\ M \in [0 .. N - i -> Nat] /\ \A k \in 0 .. N - i : M[k] = S[k + i] - S[i]
  BY <1>8
<1> HIDE DEF M
<1>10. M[0] = 0 /\ M[N - i] = bytes - S[i] /\ bytes - S[i] \in Nat
  <2>1. 0 \in 0 .. N - i /\ 0 + i = i /\ N - i \in 0 .. N - i /\ N - i + i = N
    BY <1>2
  <2> QED
    BY <1>1, <1>7, <1>9, <2>1
<1>11. \A k \in 1 .. N - i : M[k] = M[k - 1] + kept[k].charge
  <2> TAKE k \in 1 .. N - i
  <2>1. /\ k + i \in 1 .. N /\ k - 1 \in 0 .. N - i /\ k \in 0 .. N - i /\ k - 1 + i = k + i - 1
        /\ k + i - 1 \in 0 .. N
    BY <1>2
  <2>2. M[k - 1] = S[k + i - 1] - S[i] /\ M[k] = S[k + i] - S[i] /\ kept[k] = stack[k + i]
    BY <1>3, <1>9, <2>1
  <2>3. S[k + i] = S[k + i - 1] + stack[k + i].charge /\ S[k + i - 1] \in Nat
    BY <1>1, <2>1
  <2>4. stack[k + i].charge \in Nat
    BY <1>14, <2>1
  <2> QED
    BY <1>7, <2>2, <2>3, <2>4
<1>12. Charged(kept, bytes - S[i])
  BY <1>3, <1>9, <1>10, <1>11 DEF Charged
<1>13. i = N => bytes - S[i] = 0
  BY <1>1, <1>7
<1> QED
  BY <1>5, <1>7, <1>10, <1>12, <1>13 DEF kept, gone, N

-----------------------------------------------------------------------------
(* What an edit, undo and redo do to a document *)

IsDoc(d) ==
    d \in [text : Text, revision : Nat, undo : Seq(Entry), redo : Seq(Entry),
           undoBytes : Nat, groupOpen : {d.groupOpen}]

\* The stacks of d lead from bottom to its text and on, and are paid for.
Stacked(d, bottom) ==
    /\ IsDoc(d)
    /\ Held(d.undo, bottom, d.text)
    /\ Waiting(d.redo, d.text)
    /\ Charged(d.undo, d.undoBytes)

LEMMA FrontAndLast ==
    ASSUME NEW stack \in Seq(Entry), stack # << >>
    PROVE  Front(stack) \in Seq(Entry) /\ Last(stack) \in Entry
<1>1. Len(stack) \in Nat \ {0}
  OBVIOUS
<1>2. Front(stack) \in Seq(Entry)
  BY <1>1 DEF Front
<1>3. Last(stack) \in Entry
  BY <1>1 DEF Last
<1> QED
  BY <1>2, <1>3

LEMMA ChargeNat ==
    ASSUME NEW t \in Text, NEW edits \in Script, ValidEdits(t, edits)
    PROVE  Charge(edits) \in Nat
<1> DEFINE Cost(e) == Span(e) + Len(e.with) + EditOverhead
           sizes == [k \in DOMAIN edits |-> Cost(edits[k])]
           n == Len(edits)
<1>1. Charge(edits) = Total(sizes)
  BY DEF Charge, Sum
<1>2. ASSUME NEW e \in Edit, Fits(t, e) PROVE Cost(e) \in Nat
  <2>1. e.from \in Nat /\ e.to \in Nat /\ Len(e.with) \in Nat /\ EditOverhead \in Nat
    BY DocumentAssumption DEF Edit, Text
  <2> QED
    BY <1>2, <2>1 DEF Span, Fits
<1>3. n \in Nat /\ \A k \in 1 .. n : edits[k] \in Edit /\ Fits(t, edits[k])
  <2>1. Tidy(t, edits)
    BY ValidTidy
  <2> QED
    BY <2>1 DEF Tidy, Script
<1>4. Len(sizes) = n /\ \A k \in 1 .. n : sizes[k] \in Nat
  <2>1. DOMAIN edits = 1 .. n
    BY DEF Script
  <2>2. \A k \in 1 .. n : Cost(edits[k]) \in Nat
    BY <1>2, <1>3
  <2> HIDE DEF Cost, n
  <2> QED
    BY <1>3, <2>1, <2>2
<1> HIDE DEF sizes, n
<1>5. PICK S : /\ S[0] = 0 /\ Total(sizes) = S[n]
               /\ \A k \in 1 .. n : S[k] = S[k - 1] + sizes[k]
  BY <1>3, <1>4, TotalUnfolds
<1> DEFINE G == {k \in 0 .. n : S[k] \in Nat}
<1>6. 0 \in G
  BY <1>3, <1>5
<1>7. ASSUME NEW k \in 1 .. n, k - 1 \in G PROVE k \in G
  <2>1. S[k - 1] \in Nat /\ sizes[k] \in Nat /\ S[k] = S[k - 1] + sizes[k] /\ k \in 0 .. n
    BY <1>3, <1>4, <1>5, <1>7
  <2> QED
    BY <2>1
<1> HIDE DEF G
<1>8. n \in G
  <2>1. \A k \in 0 .. n : k \in G
    BY <1>3, <1>6, <1>7, Climb
  <2> QED
    BY <1>3, <2>1
<1> QED
  BY <1>1, <1>5, <1>8 DEF G

\* An edit, joined to the newest entry or not, before old entries go.
LEMMA EnteredStacked ==
    ASSUME NEW d, NEW bottom, Stacked(d, bottom),
           NEW tx \in Transaction, NEW context \in Context, Accepts(d, tx)
    PROVE  Stacked(Entered(d, tx, context), bottom)
<1> DEFINE charge == Charge(tx.edits)
           entry  == [kind |-> tx.kind, edits |-> tx.edits,
                      inverse |-> InverseOf(d.text, tx.edits),
                      charge |-> charge, context |-> context]
           joins  == /\ d.groupOpen /\ d.undo # << >>
                     /\ Coalesces(Last(d.undo), tx, context)
           undo == IF joins
                     THEN Append(Front(d.undo), Coalesced(Last(d.undo), tx, charge, context))
                     ELSE Append(d.undo, entry)
           u == ApplyEdits(d.text, tx.edits)
           e == Entered(d, tx, context)
           open == CoalescibleTyping(tx, context)
<1>1. /\ d.text \in Text /\ d.revision \in Nat /\ d.undo \in Seq(Entry) /\ d.undoBytes \in Nat
      /\ tx.edits \in Script /\ tx.kind \in Kind /\ ValidEdits(d.text, tx.edits)
  BY DEF Stacked, IsDoc, Transaction, Accepts
<1>2. e = [d EXCEPT !.text = u, !.revision = @ + 1, !.redo = << >>,
                    !.undoBytes = @ + charge, !.undo = undo, !.groupOpen = open]
  <2> HIDE DEF open
  <2> QED
    BY DEF Entered, open
<1>3. u \in Text /\ InverseOf(d.text, tx.edits) \in Script
  BY <1>1, ValidReturns
<1>4. charge \in Nat
  BY <1>1, ChargeNat
<1>5. entry \in Entry /\ Leads(entry, d.text, u)
  <2> HIDE DEF charge
  <2>1. entry \in Entry
    BY <1>1, <1>3, <1>4 DEF Entry
  <2>2. Leads(entry, d.text, u)
    BY <1>1 DEF Leads
  <2> QED
    BY <2>1, <2>2
<1> HIDE DEF charge, entry, u, open
<1>6. undo \in Seq(Entry) /\ Held(undo, bottom, u) /\ Charged(undo, d.undoBytes + charge)
  <2>1. CASE joins
    <3> DEFINE x == Last(d.undo)
               rest == Front(d.undo)
               y == Coalesced(x, tx, charge, context)
    <3>1. d.undo # << >>
      BY <2>1
    <3>2. rest \in Seq(Entry) /\ x \in Entry
      BY <1>1, <3>1, FrontAndLast
    <3>3. PICK t \in Text : Held(rest, bottom, t) /\ Leads(x, t, d.text)
      BY <1>1, <3>1, HeldPops DEF Stacked
    <3>4. Charged(rest, d.undoBytes - x.charge) /\ d.undoBytes - x.charge \in Nat
      BY <1>1, <3>1, ChargedPops DEF Stacked
    <3>5. Coalesces(x, tx, context)
      BY <2>1
    <3> HIDE DEF x, rest
    <3>6. y \in Entry /\ y.charge = x.charge + charge /\ Leads(y, t, u)
      BY <1>1, <1>4, <3>2, <3>3, <3>5, JoinedLeads DEF u
    <3> HIDE DEF y
    <3>7. Append(rest, y) \in Seq(Entry)
      BY <3>2, <3>6
    <3>8. Held(Append(rest, y), bottom, u)
      BY <1>3, <3>2, <3>3, <3>6, HeldGrows
    <3>9. Charged(Append(rest, y), d.undoBytes - x.charge + y.charge)
      BY <3>2, <3>4, <3>6, ChargedGrows
    <3>10. d.undoBytes - x.charge + y.charge = d.undoBytes + charge
      <4>1. x.charge \in Nat
        BY <3>2 DEF Entry
      <4> QED
        BY <1>1, <1>4, <3>6, <4>1
    <3>11. undo = Append(rest, y)
      BY <2>1 DEF rest, y, x
    <3> QED
      BY <3>7, <3>8, <3>9, <3>10, <3>11
  <2>2. CASE ~ joins
    <3>1. undo = Append(d.undo, entry)
      BY <2>2
    <3>2. Append(d.undo, entry) \in Seq(Entry)
      BY <1>1, <1>5
    <3>3. Held(Append(d.undo, entry), bottom, u)
      BY <1>1, <1>3, <1>5, HeldGrows DEF Stacked
    <3>4. Charged(Append(d.undo, entry), d.undoBytes + entry.charge)
      BY <1>1, <1>5, ChargedGrows DEF Stacked
    <3>5. entry.charge = charge
      BY DEF entry
    <3> HIDE DEF undo
    <3> QED
      BY <3>1, <3>2, <3>3, <3>4, <3>5
  <2> QED
    BY <2>1, <2>2
<1> HIDE DEF undo, e
<1>7. /\ e.text = u /\ e.redo = << >> /\ e.undoBytes = d.undoBytes + charge /\ e.undo = undo
      /\ IsDoc(e)
  <2>1. d.undoBytes + charge \in Nat /\ d.revision + 1 \in Nat
    BY <1>1, <1>4
  <2>2. d \in [text : Text, revision : Nat, undo : Seq(Entry), redo : Seq(Entry),
               undoBytes : Nat, groupOpen : {d.groupOpen}]
    BY DEF Stacked, IsDoc
  <2>3. << >> \in Seq(Entry)
    OBVIOUS
  <2> QED
    BY <1>2, <1>3, <1>6, <2>1, <2>2, <2>3 DEF IsDoc
<1>8. Waiting(<< >>, u)
  BY <1>3, NoneHeld
<1> QED
  BY <1>6, <1>7, <1>8 DEF Stacked, e

LEMMA UndoneStacked ==
    ASSUME NEW d, NEW bottom, Stacked(d, bottom), CanUndo(d)
    PROVE  /\ Stacked(Undone(d), bottom)
           /\ Undone(d).undoBytes <= d.undoBytes
<1> DEFINE x == Last(d.undo)
           rest == Front(d.undo)
           e == Undone(d)
<1>1. /\ d.text \in Text /\ d.revision \in Nat /\ d.undo \in Seq(Entry) /\ d.undoBytes \in Nat
      /\ d.redo \in Seq(Entry) /\ d.undo # << >>
  BY DEF Stacked, IsDoc, CanUndo
<1>2. rest \in Seq(Entry) /\ x \in Entry
  BY <1>1, FrontAndLast
<1>3. PICK t \in Text : Held(rest, bottom, t) /\ Leads(x, t, d.text)
  BY <1>1, HeldPops DEF Stacked
<1>4. Charged(rest, d.undoBytes - x.charge) /\ d.undoBytes - x.charge \in Nat
  BY <1>1, ChargedPops DEF Stacked
<1>5. ApplyEdits(d.text, x.inverse) = t
  <2>1. x.edits \in Script
    BY <1>2 DEF Entry
  <2> QED
    BY <1>3, <2>1, ValidReturns DEF Leads
<1>6. e = [d EXCEPT !.text = ApplyEdits(@, x.inverse), !.revision = @ + 1, !.undo = rest,
                    !.undoBytes = @ - x.charge, !.redo = Append(@, x), !.groupOpen = FALSE]
  BY DEF Undone
<1> HIDE DEF x, rest, e
<1>7. Append(d.redo, x) \in Seq(Entry) /\ Waiting(Append(d.redo, x), t)
  BY <1>1, <1>2, <1>3, WaitingGrows DEF Stacked
<1>8. /\ e.text = t /\ e.undo = rest /\ e.undoBytes = d.undoBytes - x.charge
      /\ e.redo = Append(d.redo, x) /\ IsDoc(e)
  <2>1. d.revision + 1 \in Nat
    BY <1>1
  <2>2. d \in [text : Text, revision : Nat, undo : Seq(Entry), redo : Seq(Entry),
               undoBytes : Nat, groupOpen : {d.groupOpen}]
    BY DEF Stacked, IsDoc
  <2> QED
    BY <1>2, <1>4, <1>5, <1>6, <1>7, <2>1, <2>2 DEF IsDoc
<1>9. d.undoBytes - x.charge <= d.undoBytes
  <2>1. x.charge \in Nat
    BY <1>2 DEF Entry
  <2> QED
    BY <1>1, <2>1
<1> QED
  BY <1>3, <1>4, <1>7, <1>8, <1>9 DEF Stacked, e

LEMMA ReenteredStacked ==
    ASSUME NEW d, NEW bottom, Stacked(d, bottom), CanRedo(d)
    PROVE  Stacked(Reentered(d), bottom)
<1> DEFINE x == Last(d.redo)
           rest == Front(d.redo)
           e == Reentered(d)
<1>1. /\ d.text \in Text /\ d.revision \in Nat /\ d.undo \in Seq(Entry) /\ d.undoBytes \in Nat
      /\ d.redo \in Seq(Entry) /\ d.redo # << >>
  BY DEF Stacked, IsDoc, CanRedo
<1>2. rest \in Seq(Entry) /\ x \in Entry
  BY <1>1, FrontAndLast
<1>3. PICK u \in Text : Waiting(rest, u) /\ Leads(x, d.text, u)
  BY <1>1, WaitingPops DEF Stacked
<1>4. e = [d EXCEPT !.text = ApplyEdits(@, x.edits), !.revision = @ + 1, !.redo = rest,
                    !.undo = Append(@, x), !.undoBytes = @ + x.charge, !.groupOpen = FALSE]
  BY DEF Reentered
<1> HIDE DEF x, rest, e
<1>5. Append(d.undo, x) \in Seq(Entry) /\ Held(Append(d.undo, x), bottom, u)
  BY <1>1, <1>2, <1>3, HeldGrows DEF Stacked
<1>6. Charged(Append(d.undo, x), d.undoBytes + x.charge)
  BY <1>1, <1>2, ChargedGrows DEF Stacked
<1>7. /\ e.text = u /\ e.redo = rest /\ e.undoBytes = d.undoBytes + x.charge
      /\ e.undo = Append(d.undo, x) /\ IsDoc(e)
  <2>1. d.revision + 1 \in Nat
    BY <1>1
  <2>2. d \in [text : Text, revision : Nat, undo : Seq(Entry), redo : Seq(Entry),
               undoBytes : Nat, groupOpen : {d.groupOpen}]
    BY DEF Stacked, IsDoc
  <2>3. d.undoBytes + x.charge \in Nat
    BY <1>1, <1>2 DEF Entry
  <2>4. ApplyEdits(d.text, x.edits) = u
    BY <1>3 DEF Leads
  <2> QED
    BY <1>2, <1>3, <1>4, <1>5, <2>1, <2>2, <2>3, <2>4 DEF IsDoc
<1> QED
  BY <1>3, <1>5, <1>6, <1>7 DEF Stacked, e

\* Eviction takes the oldest entries: what is left leads from the text they
\* led to, is paid for, and is within the budget.
LEMMA EnforcedStacked ==
    ASSUME NEW d, NEW bottom, Stacked(d, bottom)
    PROVE  LET e == EnforceUndoBudget(d)
               c == Replay(bottom, [j \in 1 .. Len(d.undo) - Len(e.undo) |-> d.undo[j].edits])
           IN  /\ c \in Text /\ Stacked(e, c) /\ e.undoBytes <= MaxUndo
               /\ e.text = d.text /\ e.revision = d.revision /\ e.redo = d.redo
               /\ \E i \in 0 .. Len(d.undo) : e.undo = SubSeq(d.undo, i + 1, Len(d.undo))
<1> DEFINE Left(k) == d.undoBytes - Sum(LAMBDA entry : entry.charge, SubSeq(d.undo, 1, k))
           Enough(k) == Left(k) <= MaxUndo
           N == Len(d.undo)
           First(n) == Enough(n) /\ \A m \in 0 .. n - 1 : ~ Enough(m)
           S == {n \in 0 .. N : Enough(n)}
           chosen == CHOOSE n \in 0 .. N : First(n)
           i == IF \E n \in 0 .. N : Enough(n) THEN chosen ELSE N
           bytes == IF Enough(i) THEN Left(i) ELSE 0
           e == EnforceUndoBudget(d)
<1>1. /\ d.undo \in Seq(Entry) /\ N \in Nat /\ MaxUndo \in Nat /\ d.text \in Text
      /\ Charged(d.undo, d.undoBytes) /\ Held(d.undo, bottom, d.text)
  BY DocumentAssumption DEF Stacked, IsDoc
<1>2. e = [d EXCEPT !.undo = SubSeq(@, i + 1, Len(@)), !.undoBytes = bytes]
  BY DEF EnforceUndoBudget
<1>3. ASSUME NEW k \in 0 .. N
      PROVE  /\ Left(k) \in Nat /\ (k = N => Left(k) = 0)
             /\ Charged(SubSeq(d.undo, k + 1, N), Left(k))
  BY <1>1, ChargedLosesOldest
<1> HIDE DEF Left
<1>4. i \in 0 .. N /\ Enough(i)
  <2>1. N \in S
    BY <1>1, <1>3
  <2>2. IsFiniteSet(S) /\ S # {} /\ \A j \in S : j \in Int
    <3>1. IsFiniteSet(0 .. N)
      BY <1>1, FS_Interval
    <3>2. S \subseteq 0 .. N
      OBVIOUS
    <3> QED
      BY <2>1, <3>1, <3>2, FS_Subset
  <2>3. PICK n \in S : \A j \in S : n <= j
    <3> HIDE DEF S
    <3> QED
      BY <2>2, Least
  <2>4. First(n)
    <3>1. ASSUME NEW m \in 0 .. n - 1 PROVE ~ Enough(m)
      <4>1. m \in 0 .. N /\ ~ (n <= m)
        BY <1>1
      <4>2. m \notin S
        BY <2>3, <4>1
      <4> QED
        BY <4>1, <4>2
    <3> QED
      BY <3>1
  <2>5. n \in 0 .. N /\ Enough(n)
    OBVIOUS
  <2> HIDE DEF First, S
  <2>6. chosen \in 0 .. N /\ First(chosen)
    BY <2>4, <2>5
  <2> HIDE DEF chosen
  <2>7. i = chosen
    BY <2>5
  <2> QED
    BY <2>6, <2>7 DEF First
<1>5. bytes = Left(i) /\ Left(i) \in Nat /\ Left(i) <= MaxUndo
  BY <1>3, <1>4
<1> DEFINE kept == SubSeq(d.undo, i + 1, N)
           c == Replay(bottom, [j \in 1 .. i |-> d.undo[j].edits])
<1> HIDE DEF i, bytes, Enough
<1>6. Charged(kept, bytes)
  BY <1>3, <1>4, <1>5
<1>7. c \in Text /\ Held(kept, c, d.text)
  BY <1>1, <1>4, HeldLosesOldest
<1>8. kept \in Seq(Entry) /\ Len(kept) = N - i
  BY <1>1, <1>4, KeptEntries
<1> HIDE DEF kept, c
<1>9. e = [d EXCEPT !.undo = kept, !.undoBytes = bytes]
  BY <1>2 DEF kept
<1> HIDE DEF e
<1>10. /\ e.undo = kept /\ e.undoBytes = bytes /\ e.text = d.text /\ e.redo = d.redo /\ IsDoc(e)
       /\ e.revision = d.revision
  <2>1. d \in [text : Text, revision : Nat, undo : Seq(Entry), redo : Seq(Entry),
               undoBytes : Nat, groupOpen : {d.groupOpen}]
    BY DEF Stacked, IsDoc
  <2> QED
    BY <1>5, <1>8, <1>9, <2>1 DEF IsDoc
<1>11. Len(d.undo) - Len(e.undo) = i
  BY <1>1, <1>4, <1>8, <1>10
<1>12. Stacked(e, c)
  BY <1>6, <1>7, <1>10 DEF Stacked
<1>13. \E k \in 0 .. N : e.undo = SubSeq(d.undo, k + 1, N)
  BY <1>4, <1>10 DEF kept
<1> QED
  BY <1>5, <1>7, <1>10, <1>11, <1>12, <1>13 DEF c, e

-----------------------------------------------------------------------------
(* The invariant *)

HistoryInv ==
    /\ floor \in Text
    /\ Stacked(document, floor)
    /\ document.undoBytes <= MaxUndo

LEMMA HistoryInvInit == HistoryInit => HistoryInv
<1> SUFFICES ASSUME HistoryInit PROVE HistoryInv
  OBVIOUS
<1>1. Start \in Text
  BY TextsGiven DEF Given
<1>2. /\ document = [text |-> Start, revision |-> 0, undo |-> << >>, redo |-> << >>,
                undoBytes |-> 0, groupOpen |-> FALSE]
      /\ floor = Start
  BY DEF HistoryInit, NewDocument
<1>3. IsDoc(document)
  <2>1. << >> \in Seq(Entry)
    OBVIOUS
  <2> QED
    BY <1>1, <1>2, <2>1 DEF IsDoc
<1>4. Held(<< >>, Start, Start) /\ Waiting(<< >>, Start) /\ Charged(<< >>, 0)
  BY <1>1, NoneHeld
<1>5. Stacked(document, floor)
  <2>1. document.text = Start /\ document.undo = << >> /\ document.redo = << >> /\ document.undoBytes = 0
    BY <1>2
  <2> QED
    BY <1>2, <1>3, <1>4, <2>1 DEF Stacked
<1>6. document.undoBytes <= MaxUndo
  BY <1>2, DocumentAssumption
<1> QED
  BY <1>1, <1>2, <1>5, <1>6 DEF HistoryInv

LEMMA CommitKeeps ==
    ASSUME HistoryInv, NEW tx \in Transaction, NEW context \in Context, Commit(tx, context)
    PROVE  HistoryInv'
<1> DEFINE d == Entered(document, tx, context)
           e == EnforceUndoBudget(d)
           c == Replay(floor, [j \in 1 .. Len(d.undo) - Len(e.undo) |-> d.undo[j].edits])
<1>1. Stacked(d, floor)
  BY EnteredStacked DEF HistoryInv, Commit
<1>2. document' = e /\ floor' = c
  BY DEF Commit, Applied, Raised
<1> HIDE DEF d
<1>3. c \in Text /\ Stacked(e, c) /\ e.undoBytes <= MaxUndo
  BY <1>1, EnforcedStacked
<1> HIDE DEF c, e
<1>4. floor' \in Text /\ Stacked(document', floor') /\ document'.undoBytes <= MaxUndo
  BY <1>2, <1>3
<1> QED
  BY <1>4 DEF HistoryInv

LEMMA HistoryInvNext == HistoryInv /\ [HistoryNext]_historyVars => HistoryInv'
<1> SUFFICES ASSUME HistoryInv, [HistoryNext]_historyVars PROVE HistoryInv'
  OBVIOUS
<1>0. document.revision \in Nat /\ document.text \in Text /\ Len(document.text) \in Nat
  BY DEF HistoryInv, Stacked, IsDoc, Text
<1>1. ASSUME NEW i \in 0 .. Len(document.text), NEW word \in Words,
             NEW context \in TypingContexts(i, word), Type(i, word, context)
      PROVE  HistoryInv'
  <2> DEFINE e  == [from |-> i, to |-> i, with |-> word]
             tx == [base |-> document.revision, kind |-> "typing", edits |-> <<e>>]
  <2>1. i \in Nat /\ word \in Text
    BY <1>0, TextsGiven DEF Given
  <2>2. e \in Edit
    BY <2>1 DEF Edit
  <2>3. Commit(tx, context)
    BY <1>1 DEF Type
  <2>4. context \in Context
    BY <2>1 DEF Context
  <2> HIDE DEF e
  <2>5. <<e>> \in Script
    BY <2>2, OneIsScript
  <2>6. tx \in Transaction
    BY <1>0, <2>5 DEF Transaction, Kind
  <2> HIDE DEF tx
  <2> QED
    BY <2>3, <2>4, <2>6, CommitKeeps
<1>2. ASSUME NEW edits \in Script, Rewrite(edits) PROVE HistoryInv'
  <2> DEFINE tx == [base |-> document.revision, kind |-> "programmatic", edits |-> edits]
  <2>1. Commit(tx, NoContext)
    BY <1>2 DEF Rewrite
  <2>2. NoContext \in Context
    BY DEF Context
  <2>3. tx \in Transaction
    BY <1>0 DEF Transaction, Kind
  <2> HIDE DEF tx
  <2> QED
    BY <2>1, <2>2, <2>3, CommitKeeps
<1>3. Edits(document.text) \subseteq Edit
  <2>1. Words \cup {<< >>} \subseteq Text
    BY TextsGiven DEF Given
  <2>2. 0 .. Len(document.text) \subseteq Nat
    BY <1>0
  <2> QED
    BY <2>1, <2>2 DEF Edits, Edit
<1>4. ASSUME NEW n \in 1 .. MaxEdits, NEW edits \in [1 .. n -> Edits(document.text)],
             Rewrite(edits)
      PROVE  HistoryInv'
  <2>1. n \in Nat
    BY HistoryAssumption
  <2>2. edits \in [1 .. n -> Edit]
    BY <1>3
  <2>3. edits \in Script
    BY <2>1, <2>2 DEF Script
  <2> QED
    BY <1>2, <1>4, <2>3
<1>6. CASE Undo
  <2>1. Stacked(Undone(document), floor) /\ Undone(document).undoBytes <= document.undoBytes
    BY <1>6, UndoneStacked DEF Undo, HistoryInv
  <2>2. document' = Undone(document) /\ floor' = floor
    BY <1>6 DEF Undo
  <2>3. Stacked(document', floor') /\ document'.undoBytes <= document.undoBytes
    BY <2>1, <2>2
  <2>4. document'.undoBytes \in Nat /\ document.undoBytes \in Nat /\ MaxUndo \in Nat
    BY <2>3, DocumentAssumption DEF HistoryInv, Stacked, IsDoc
  <2> QED
    BY <2>2, <2>3, <2>4 DEF HistoryInv
<1>7. CASE Redo
  <2> DEFINE d == Reentered(document)
             e == EnforceUndoBudget(d)
             c == Replay(floor, [j \in 1 .. Len(d.undo) - Len(e.undo) |-> d.undo[j].edits])
  <2>1. Stacked(d, floor)
    BY <1>7, ReenteredStacked DEF HistoryInv, Redo
  <2>2. document' = e /\ floor' = c
    BY <1>7 DEF Redo, Redone, Raised
  <2> HIDE DEF d
  <2>3. c \in Text /\ Stacked(e, c) /\ e.undoBytes <= MaxUndo
    BY <2>1, EnforcedStacked
  <2> HIDE DEF c, e
  <2>4. floor' \in Text /\ Stacked(document', floor') /\ document'.undoBytes <= MaxUndo
    BY <2>2, <2>3
  <2> QED
    BY <2>4 DEF HistoryInv
<1>8. CASE CloseGroup
  <2>1. document' = [document EXCEPT !.groupOpen = FALSE] /\ floor' = floor
    BY <1>8 DEF CloseGroup, CloseHistoryGroup
  <2>2. document \in [text : Text, revision : Nat, undo : Seq(Entry), redo : Seq(Entry),
                 undoBytes : Nat, groupOpen : {document.groupOpen}]
    BY DEF HistoryInv, Stacked, IsDoc
  <2>3. /\ document'.text = document.text /\ document'.undo = document.undo /\ document'.redo = document.redo
        /\ document'.undoBytes = document.undoBytes /\ IsDoc(document')
    BY <2>1, <2>2 DEF IsDoc
  <2>4. Stacked(document', floor')
    BY <2>1, <2>3 DEF Stacked, HistoryInv
  <2> QED
    BY <2>1, <2>3, <2>4 DEF HistoryInv
<1>9. CASE UNCHANGED historyVars
  <2>1. document' = document /\ floor' = floor
    BY <1>9 DEF historyVars
  <2> QED
    BY <2>1 DEF HistoryInv
<1> QED
  BY <1>1, <1>4, <1>6, <1>7, <1>8, <1>9 DEF HistoryNext

LEMMA HistoryInvariance == HistorySpec => []HistoryInv
BY HistoryInvInit, HistoryInvNext, PTL DEF HistorySpec

-----------------------------------------------------------------------------
(* What the invariant says of undo and redo *)

LEMMA HeldReturns ==
    ASSUME NEW d, NEW bottom, Stacked(d, bottom)
    PROVE  Back(d, Len(d.undo)) = bottom
<1> DEFINE N == Len(d.undo)
           lists == [j \in 1 .. N |-> d.undo[N - j + 1].inverse]
<1>1. PICK T \in [0 .. N -> Text] : /\ T[0] = bottom /\ T[N] = d.text
                                    /\ \A k \in 1 .. N : Leads(d.undo[k], T[k - 1], T[k])
  BY DEF Stacked, Held
<1>2. d.undo \in Seq(Entry) /\ N \in Nat
  BY DEF Stacked, IsDoc
<1>3. \A k \in 1 .. N : d.undo[k].edits \in Script
  <2>1. \A x \in Entry : x.edits \in Script
    BY DEF Entry
  <2>2. \A k \in 1 .. N : d.undo[k] \in Entry
    BY <1>2
  <2> QED
    BY <2>1, <2>2
<1>4. Len(lists) = N /\ \A j \in 1 .. N : lists[j] = d.undo[N - j + 1].inverse
  BY <1>2
<1> DEFINE M == [j \in 0 .. N |-> T[N - j]]
<1>5. M \in [0 .. N -> Text] /\ \A j \in 0 .. N : M[j] = T[N - j]
  BY <1>2
<1>6. Back(d, N) = Replay(d.text, lists)
  BY DEF Back
<1> HIDE DEF M, N, lists
<1>7. ASSUME NEW j \in 1 .. N PROVE M[j] = ApplyEdits(M[j - 1], lists[j])
  <2> DEFINE k == N - j + 1
  <2>1. k \in 1 .. N /\ N - j = k - 1 /\ N - (j - 1) = k /\ j \in 0 .. N /\ j - 1 \in 0 .. N
    BY <1>2
  <2>2. M[j] = T[k - 1] /\ M[j - 1] = T[k] /\ lists[j] = d.undo[k].inverse
    BY <1>4, <1>5, <2>1
  <2>3. k - 1 \in 0 .. N
    BY <1>2, <2>1
  <2> HIDE DEF k
  <2>4. T[k - 1] \in Text /\ Leads(d.undo[k], T[k - 1], T[k])
    BY <1>1, <2>1, <2>3
  <2>5. ApplyEdits(T[k], d.undo[k].inverse) = T[k - 1]
    BY <1>3, <2>1, <2>4, ValidReturns DEF Leads
  <2> QED
    BY <2>2, <2>5
<1>8. Plays(M, N, Text, d.text, lists)
  <2>1. 0 \in 0 .. N /\ N - 0 = N
    BY <1>2
  <2> QED
    BY <1>1, <1>2, <1>4, <1>5, <1>7, <2>1 DEF Plays
<1>9. Back(d, N) = M[N]
  BY <1>6, <1>8, ReplayIs
<1>10. M[N] = bottom
  <2>1. N \in 0 .. N /\ N - N = 0
    BY <1>2
  <2> QED
    BY <1>1, <1>5, <2>1
<1> QED
  BY <1>9, <1>10 DEF N

LEMMA WaitingReturns ==
    ASSUME NEW d, NEW bottom, Stacked(d, bottom), NEW k \in 0 .. Len(d.redo)
    PROVE  LET n == Len(d.redo) IN
           /\ Back([text |-> Ahead(d, k), undo |-> Reverse(SubSeq(d.redo, n - k + 1, n))], k)
                = d.text
           /\ k < n => ValidEdits(Ahead(d, k), d.redo[n - k].edits)
<1> DEFINE n == Len(d.redo)
           ahead == [j \in 1 .. k |-> d.redo[n - j + 1].edits]
           newest == SubSeq(d.redo, n - k + 1, n)
           undone == [text |-> Ahead(d, k), undo |-> Reverse(newest)]
           back == [j \in 1 .. k |-> undone.undo[Len(undone.undo) - j + 1].inverse]
<1>1. PICK T \in [0 .. n -> Text] : /\ T[n] = d.text
                                    /\ \A j \in 1 .. n : Leads(d.redo[j], T[j], T[j - 1])
  BY DEF Stacked, Waiting
<1>2. d.redo \in Seq(Entry) /\ n \in Nat /\ k \in Nat /\ k <= n
  BY DEF Stacked, IsDoc
<1>3. \A j \in 1 .. n : d.redo[j].edits \in Script
  <2>1. \A x \in Entry : x.edits \in Script
    BY DEF Entry
  <2>2. \A j \in 1 .. n : d.redo[j] \in Entry
    BY <1>2
  <2> QED
    BY <2>1, <2>2
<1>4. Len(ahead) = k /\ \A j \in 1 .. k : ahead[j] = d.redo[n - j + 1].edits
  BY <1>2
<1>5. Len(newest) = k /\ \A j \in 1 .. k : newest[j] = d.redo[n - k + j]
  <2> DEFINE m == n - k
  <2>1. m \in 0 .. Len(d.redo) /\ n - m = k /\ n - k + 1 = m + 1
    BY <1>2
  <2>2. newest = SubSeq(d.redo, m + 1, Len(d.redo))
    OBVIOUS
  <2> HIDE DEF m, newest
  <2>3. Len(newest) = Len(d.redo) - m /\ \A j \in 1 .. Len(d.redo) - m : newest[j] = d.redo[j + m]
    BY <1>2, <2>1, <2>2, KeptEntries
  <2>4. \A j \in 1 .. k : j + m = n - k + j
    BY <1>2, <2>1 DEF m
  <2> QED
    BY <2>1, <2>3, <2>4
<1>6. Len(Reverse(newest)) = k /\ \A j \in 1 .. k : Reverse(newest)[j] = newest[k - j + 1]
  <2> HIDE DEF newest
  <2>1. Reverse(newest) = [j \in 1 .. k |-> newest[k - j + 1]]
    BY <1>5 DEF Reverse
  <2> QED
    BY <1>2, <2>1
<1>7. Len(back) = k /\ \A j \in 1 .. k : back[j] = d.redo[n - k + j].inverse
  <2>1. Len(back) = k /\ \A j \in 1 .. k : back[j] = Reverse(newest)[k - j + 1].inverse
    BY <1>2, <1>6
  <2> HIDE DEF back, newest, n
  <2>2. ASSUME NEW j \in 1 .. k PROVE Reverse(newest)[k - j + 1] = d.redo[n - k + j]
    <3>1. k - j + 1 \in 1 .. k /\ k - (k - j + 1) + 1 = j
      BY <1>2
    <3> QED
      BY <1>5, <1>6, <3>1
  <2> QED
    BY <2>1, <2>2
<1>8. Ahead(d, k) = Replay(d.text, ahead)
  BY DEF Ahead
<1>9. Back(undone, k) = Replay(Ahead(d, k), back)
  BY DEF Back
<1> DEFINE A == [j \in 0 .. k |-> T[n - j]]
           B == [j \in 0 .. k |-> T[n - k + j]]
<1>10. A \in [0 .. k -> Text] /\ \A j \in 0 .. k : A[j] = T[n - j]
  BY <1>2
<1>11. B \in [0 .. k -> Text] /\ \A j \in 0 .. k : B[j] = T[n - k + j]
  BY <1>2
<1> HIDE DEF A, B, n, ahead, back, undone
\* Redoing walks down the stack ...
<1>12. Ahead(d, k) = T[n - k]
  <2>1. ASSUME NEW j \in 1 .. k PROVE A[j] = ApplyEdits(A[j - 1], ahead[j])
    <3> DEFINE i == n - j + 1
    <3>1. i \in 1 .. n /\ n - j = i - 1 /\ n - (j - 1) = i /\ j \in 0 .. k /\ j - 1 \in 0 .. k
      BY <1>2
    <3>2. A[j] = T[i - 1] /\ A[j - 1] = T[i] /\ ahead[j] = d.redo[i].edits
      BY <1>4, <1>10, <3>1
    <3> HIDE DEF i
    <3> QED
      BY <1>1, <3>1, <3>2 DEF Leads
  <2>2. Plays(A, k, Text, d.text, ahead)
    <3>1. 0 \in 0 .. k /\ n - 0 = n
      BY <1>2
    <3> QED
      BY <1>1, <1>2, <1>4, <1>10, <2>1, <3>1 DEF Plays
  <2>3. Replay(d.text, ahead) = A[k]
    BY <2>2, ReplayIs
  <2>4. k \in 0 .. k
    BY <1>2
  <2> QED
    BY <1>8, <1>10, <2>3, <2>4
\* ... and undoing walks up again.
<1>13. Back(undone, k) = d.text
  <2>1. ASSUME NEW j \in 1 .. k PROVE B[j] = ApplyEdits(B[j - 1], back[j])
    <3> DEFINE i == n - k + j
    <3>1. /\ i \in 1 .. n /\ i \in 0 .. n /\ i - 1 \in 0 .. n /\ n - k + (j - 1) = i - 1
          /\ j \in 0 .. k /\ j - 1 \in 0 .. k
      BY <1>2
    <3>2. B[j] = T[i] /\ B[j - 1] = T[i - 1] /\ back[j] = d.redo[i].inverse
      BY <1>7, <1>11, <3>1
    <3> HIDE DEF i
    <3>3. T[i] \in Text /\ Leads(d.redo[i], T[i], T[i - 1])
      BY <1>1, <3>1
    <3>4. ApplyEdits(T[i - 1], d.redo[i].inverse) = T[i]
      BY <1>3, <3>1, <3>3, ValidReturns DEF Leads
    <3> QED
      BY <3>2, <3>4
  <2>2. Plays(B, k, Text, T[n - k], back)
    <3>1. 0 \in 0 .. k /\ n - k + 0 = n - k
      BY <1>2
    <3> QED
      BY <1>2, <1>7, <1>11, <2>1, <3>1 DEF Plays
  <2>3. Replay(T[n - k], back) = B[k]
    BY <2>2, ReplayIs
  <2>4. k \in 0 .. k /\ n - k + k = n
    BY <1>2
  <2> QED
    BY <1>1, <1>9, <1>11, <1>12, <2>3, <2>4
<1>14. ASSUME k < n PROVE ValidEdits(Ahead(d, k), d.redo[n - k].edits)
  <2>1. n - k \in 1 .. n
    BY <1>2, <1>14
  <2> QED
    BY <1>1, <1>12, <2>1 DEF Leads
<1> QED
  BY <1>13, <1>14 DEF undone, n

LEMMA ChargedExactly ==
    ASSUME NEW stack \in Seq(Entry), NEW bytes, Charged(stack, bytes)
    PROVE  bytes = Sum(LAMBDA entry : entry.charge, stack)
<1> DEFINE N == Len(stack)
           sizes == [k \in DOMAIN stack |-> stack[k].charge]
<1>1. PICK S \in [0 .. N -> Nat] : /\ S[0] = 0 /\ S[N] = bytes
                                   /\ \A k \in 1 .. N : S[k] = S[k - 1] + stack[k].charge
  BY DEF Charged
<1>2. N \in Nat /\ Len(sizes) = N /\ \A k \in 1 .. N : sizes[k] = stack[k].charge
  OBVIOUS
<1>3. Sum(LAMBDA entry : entry.charge, stack) = Total(sizes)
  BY DEF Sum
<1> HIDE DEF N, sizes
<1>4. Adds(S, N, Nat, sizes)
  BY <1>1, <1>2 DEF Adds
<1> QED
  BY <1>1, <1>3, <1>4, TotalIs

-----------------------------------------------------------------------------
(***************************************************************************)
(* Undoing everything restores the text before the oldest entry kept: for  *)
(* any texts and budget, after any mixture of joined typing, transactions  *)
(* of several edits, undo, redo and eviction.                              *)
(***************************************************************************)
THEOREM UndoAlwaysReturns == HistorySpec => []UndoReturns
<1>1. HistoryInv => UndoReturns
  BY HeldReturns DEF HistoryInv, UndoReturns
<1> QED
  BY <1>1, HistoryInvariance, PTL

(***************************************************************************)
(* Redo and undo are inverse to each other at every depth of the redo      *)
(* stack, and every redo meets a text its edits fit.                       *)
(***************************************************************************)
THEOREM RedoAlwaysReturns == HistorySpec => []RedoReturns
<1>1. HistoryInv => RedoReturns
  <2> SUFFICES ASSUME HistoryInv PROVE RedoReturns
    OBVIOUS
  <2>1. Stacked(document, floor)
    BY DEF HistoryInv
  <2> QED
    BY <2>1, WaitingReturns DEF RedoReturns
<1> QED
  BY <1>1, HistoryInvariance, PTL

(***************************************************************************)
(* The byte counter of enforce_undo_budget is the sum of the charges of    *)
(* the entries held, and within MAX_UNDO_BYTES after every step.           *)
(***************************************************************************)
THEOREM BudgetIsExact == HistorySpec => []BudgetExact
<1>1. HistoryInv => BudgetExact
  <2> SUFFICES ASSUME HistoryInv PROVE BudgetExact
    OBVIOUS
  <2>1. /\ document.undo \in Seq(Entry)
        /\ Charged(document.undo, document.undoBytes)
        /\ document.undoBytes <= MaxUndo
    BY DEF HistoryInv, Stacked, IsDoc
  <2>2. document.undoBytes = Sum(LAMBDA entry : entry.charge, document.undo)
    BY <2>1, ChargedExactly
  <2> QED
    BY <2>1, <2>2 DEF BudgetExact
<1> QED
  BY <1>1, HistoryInvariance, PTL

-----------------------------------------------------------------------------
(* The line index *)

Index == [starts : SUBSET Nat, len : Nat, text : Text]

\* The index is that of the text.
Indexes(index, text) ==
    /\ index \in Index
    /\ index.starts = LineStarts(text) /\ index.len = Len(text)

LEMMA StartsIn ==
    ASSUME NEW t \in Text
    PROVE  /\ LineStarts(t) \subseteq 0 .. Len(t) /\ 0 \in LineStarts(t) /\ Len(t) \in Nat
           /\ \A i \in Nat : i \in LineStarts(t) <=> i = 0 \/ (i \in 1 .. Len(t) /\ t[i] = Newline)
<1>1. Len(t) \in Nat
  BY DEF Text
<1>2. 0 \in 0 .. Len(t) /\ 1 .. Len(t) \subseteq 0 .. Len(t)
  BY <1>1
<1> QED
  BY <1>1, <1>2 DEF LineStarts

\* LineByteIndex::apply agrees with from_text.
LEMMA ReindexedIndexes ==
    ASSUME NEW t \in Text, NEW e \in Edit, Fits(t, e), NEW index, Indexes(index, t)
    PROVE  Indexes(Reindexed(index, e), Splice(t, e))
<1> DEFINE u == Splice(t, e)
           p == e.from
           q == e.to
           w == e.with
           d == Len(w) - (q - p)
           kept == {s \in LineStarts(t) : s <= p}
           moved == {s + d : s \in {r \in LineStarts(t) : r > q}}
           new == {p + i : i \in {j \in DOMAIN w : w[j] = Newline}}
<1>1. /\ p \in Nat /\ q \in Nat /\ Len(t) \in Nat /\ Len(w) \in Nat /\ p <= q /\ q <= Len(t)
      /\ DOMAIN w = 1 .. Len(w)
  BY DEF Edit, Fits, Text
<1>2. /\ u \in Text /\ Len(u) = Len(t) + Len(w) - (q - p)
      /\ \A k \in 1 .. Len(u) : u[k] = IF k <= p THEN t[k]
                                       ELSE IF k <= p + Len(w) THEN w[k - p]
                                       ELSE t[k - Len(w) + (q - p)]
  BY SpliceAt
<1>3. d \in Int /\ Len(u) = Len(t) + d /\ Len(u) \in Nat
      /\ Len(u) = Len(w) + p + (Len(t) - q)
  <2>1. Len(u) = Len(t) + Len(w) - (q - p) /\ Len(u) \in Nat
    BY <1>2 DEF Text
  <2> HIDE DEF u, p, q, w
  <2>2. d \in Int
    BY <1>1
  <2> QED
    BY <1>1, <2>1, <2>2
<1>4. Reindexed(index, e) = [index EXCEPT !.starts = kept \cup moved \cup new,
                                          !.len = Len(u)]
  <2>1. Delta(e) = d
    BY DEF Delta, Span
  <2>2. index.len + d = Len(u)
    BY <1>3 DEF Indexes
  <2> HIDE DEF d, u
  <2> QED
    BY <2>1, <2>2 DEF Reindexed, Indexes
<1>5. \A i \in Nat : i \in LineStarts(u) <=> i = 0 \/ (i \in 1 .. Len(u) /\ u[i] = Newline)
  BY <1>2, StartsIn
<1>6. /\ \A i \in Nat : i \in LineStarts(t) <=> i = 0 \/ (i \in 1 .. Len(t) /\ t[i] = Newline)
      /\ LineStarts(t) \subseteq 0 .. Len(t) /\ LineStarts(u) \subseteq 0 .. Len(u)
  BY <1>2, StartsIn
<1> HIDE DEF u
<1>7. ASSUME NEW i \in LineStarts(u) PROVE i \in kept \cup moved \cup new
  <2>1. i \in Nat /\ i <= Len(u)
    BY <1>3, <1>6
  <2>2. CASE i <= p
    <3>1. i = 0 \/ (i \in 1 .. Len(u) /\ u[i] = t[i] /\ u[i] = Newline /\ i \in 1 .. Len(t))
      <4> HIDE DEF p, w, q
      <4> QED
        BY <1>1, <1>2, <1>5, <2>1, <2>2
    <3> QED
      BY <1>6, <2>1, <2>2, <3>1
  <2>3. CASE p < i /\ i <= p + Len(w)
    <3>1. i \in 1 .. Len(u) /\ u[i] = w[i - p] /\ u[i] = Newline
      <4>1. ~ (i <= p) /\ i \in 1 .. Len(u) /\ i # 0
        BY <1>1, <2>1, <2>3
      <4> HIDE DEF p, w, q
      <4> QED
        BY <1>2, <1>5, <2>1, <2>3, <4>1
    <3>2. i - p \in 1 .. Len(w) /\ i = p + (i - p)
      BY <1>1, <2>1, <2>3
    <3>3. i - p \in {j \in DOMAIN w : w[j] = Newline}
      BY <1>1, <3>1, <3>2
    <3> HIDE DEF w, p
    <3> QED
      BY <3>2, <3>3
  <2>4. CASE p + Len(w) < i
    <3> DEFINE s == i - Len(w) + (q - p)
    <3>1. i \in 1 .. Len(u) /\ u[i] = t[s] /\ u[i] = Newline
      <4>1. ~ (i <= p) /\ ~ (i <= p + Len(w)) /\ i \in 1 .. Len(u) /\ i # 0
        BY <1>1, <2>1, <2>4
      <4> HIDE DEF p, w, q
      <4> QED
        BY <1>2, <1>5, <2>1, <4>1
    <3>2. s \in Int /\ i = s + d
      <4> HIDE DEF p, q, w
      <4> QED
        BY <1>1, <2>1
    <3>3. s > q /\ s <= Len(t)
      <4> HIDE DEF p, q, w
      <4> QED
        BY <1>1, <1>3, <2>1, <2>4
    <3>4. s \in 1 .. Len(t) /\ s \in Nat
      <4> HIDE DEF p, q, w, s
      <4> QED
        BY <1>1, <3>2, <3>3
    <3> HIDE DEF s
    <3>5. t[s] = Newline
      BY <3>1
    <3>6. s \in LineStarts(t)
      BY <1>6, <3>4, <3>5
    <3>7. s \in {r \in LineStarts(t) : r > q}
      BY <3>3, <3>6
    <3> HIDE DEF d, q
    <3> QED
      BY <3>2, <3>7
  <2> QED
    BY <1>1, <2>1, <2>2, <2>3, <2>4
<1>8. ASSUME NEW i \in kept PROVE i \in LineStarts(u)
  <2>1. i \in Nat /\ i <= p /\ (i = 0 \/ (i \in 1 .. Len(t) /\ t[i] = Newline))
    BY <1>1, <1>6
  <2>2. i = 0 \/ i \in 1 .. Len(u)
    <3>1. Len(u) = Len(w) + p + (Len(t) - q) /\ Len(u) \in Nat
      BY <1>3
    <3> HIDE DEF u, p, q, w
    <3>2. p <= Len(u)
      BY <1>1, <3>1
    <3> QED
      BY <1>1, <2>1, <3>1, <3>2
  <2> HIDE DEF p, w, q
  <2> QED
    BY <1>2, <1>5, <2>1, <2>2
<1>9. ASSUME NEW i \in moved PROVE i \in LineStarts(u)
  <2>1. PICK s \in LineStarts(t) : s > q /\ i = s + d
    OBVIOUS
  <2>2. s \in Nat /\ s \in 1 .. Len(t) /\ t[s] = Newline
    BY <1>1, <1>6, <2>1
  <2>3. i \in 1 .. Len(u) /\ ~ (i <= p) /\ ~ (i <= p + Len(w)) /\ i - Len(w) + (q - p) = s
    <3>1. i \in Int /\ i - Len(w) + (q - p) = s
      <4> HIDE DEF p, q, w
      <4> QED
        BY <1>1, <2>1, <2>2
    <3>2. i > p + Len(w) /\ i <= Len(u)
      <4> HIDE DEF p, q, w
      <4> QED
        BY <1>1, <1>3, <2>1, <2>2
    <3> HIDE DEF p, q, w
    <3> QED
      BY <1>1, <3>1, <3>2
  <2>4. u[i] = t[i - Len(w) + (q - p)]
    <3> HIDE DEF p, w, q, d
    <3> QED
      BY <1>2, <2>3
  <2>5. u[i] = Newline /\ i \in Nat
    BY <2>2, <2>3, <2>4
  <2> QED
    BY <1>5, <2>3, <2>5
<1>10. ASSUME NEW i \in new PROVE i \in LineStarts(u)
  <2>1. PICK j \in DOMAIN w : w[j] = Newline /\ i = p + j
    OBVIOUS
  <2>2. i \in 1 .. Len(u) /\ ~ (i <= p) /\ i <= p + Len(w) /\ i - p = j
    <3>1. j \in 1 .. Len(w)
      BY <1>1, <2>1
    <3>2. i = p + j
      BY <2>1
    <3>3. p + Len(w) <= Len(u)
      <4> HIDE DEF p, q, w
      <4> QED
        BY <1>1, <1>3
    <3> HIDE DEF p, q, w
    <3> QED
      BY <1>1, <1>3, <3>1, <3>2, <3>3
  <2>3. u[i] = w[j]
    <3> HIDE DEF p, w, q
    <3> QED
      BY <1>2, <2>2
  <2>4. i \in Nat
    BY <2>2
  <2> QED
    BY <1>5, <2>1, <2>2, <2>3, <2>4
<1>11. LineStarts(u) = kept \cup moved \cup new
  <2> HIDE DEF kept, moved, new
  <2> QED
    BY <1>7, <1>8, <1>9, <1>10
<1>12. LineStarts(u) \subseteq Nat
  BY <1>3, <1>6
<1> HIDE DEF kept, moved, new
<1> QED
  BY <1>3, <1>4, <1>11, <1>12 DEF Indexes, Index, u

-----------------------------------------------------------------------------
(* The widget *)

Selection == [anchor : Nat, head : Nat]

\* The selection lies in the text.
Shows(w) ==
    /\ w \in [text : Text, sel : Selection]
    /\ w.sel.anchor <= Len(w.text) /\ w.sel.head <= Len(w.text)

\* The ends of a set of positions.
LEMMA EndsIn ==
    ASSUME NEW n \in Nat, NEW S, S \subseteq 0 .. n, S # {}
    PROVE  /\ Min(S) \in S /\ Min(S) \in 0 .. n /\ \A j \in S : Min(S) <= j
           /\ Max(S) \in S /\ Max(S) \in 0 .. n /\ \A j \in S : j <= Max(S)
<1> DEFINE z == 0
<1>1. z \in Int /\ n \in Int /\ S \subseteq z .. n
  OBVIOUS
<1> HIDE DEF z
<1>2. Min(S) \in S /\ \A j \in S : Min(S) <= j
  BY <1>1, MinIs
<1>3. Max(S) \in S /\ \A j \in S : j <= Max(S)
  BY <1>1, MaxIs
<1> QED
  BY <1>2, <1>3

LEMMA ColumnIn ==
    ASSUME NEW n \in Nat, NEW starts, starts \subseteq 0 .. n, 0 \in starts, NEW i \in Nat
    PROVE  ColumnOf(starts, i) \in Nat
<1> DEFINE S == {s \in starts : s <= i}
<1>1. 0 \in S
  OBVIOUS
<1>2. S \subseteq 0 .. i
  <2>1. ASSUME NEW s \in starts, s <= i PROVE s \in 0 .. i
    <3>1. s \in 0 .. n
      OBVIOUS
    <3> QED
      BY <2>1, <3>1
  <2> QED
    BY <2>1
<1> HIDE DEF S
<1>3. Max(S) \in 0 .. i
  BY <1>1, <1>2, EndsIn
<1>4. ColumnOf(starts, i) = i - Max(S)
  BY DEF ColumnOf, S
<1> QED
  BY <1>3, <1>4

LEMMA PlaceIn ==
    ASSUME NEW w, w.text \in Text, NEW m \in Text, NEW index, Indexes(index, m), NEW i \in Nat
    PROVE  Place(w, index, i) \in 0 .. Len(w.text)
<1> DEFINE starts == LineStarts(w.text)
           line   == StartsOf(starts, LineOf(index.starts, i))
           n == Len(w.text)
           first == Min(line)
           E == {n} \cup {s - 1 : s \in {t \in starts : t > first}}
           end == Min(E)
           column == ColumnOf(index.starts, i)
           C == {end, first + column}
<1>1. n \in Nat /\ starts \subseteq 0 .. n
  BY StartsIn
<1>2. column \in Nat
  <2>1. index.starts \subseteq 0 .. Len(m) /\ 0 \in index.starts /\ Len(m) \in Nat
    BY StartsIn DEF Indexes
  <2> QED
    BY <2>1, ColumnIn
<1>3. Place(w, index, i) = IF line = {} THEN n ELSE Min(C)
  BY DEF Place
<1>4. line \subseteq starts
  BY DEF StartsOf
<1> HIDE DEF line, starts, column, n
<1>5. CASE line # {}
  <2>1. first \in line /\ first \in 0 .. n
    BY <1>1, <1>4, <1>5, EndsIn
  <2> HIDE DEF first
  <2>2. E \subseteq 0 .. n /\ E # {}
    <3>1. ASSUME NEW t \in starts, t > first PROVE t - 1 \in 0 .. n
      BY <1>1, <2>1, <3>1
    <3> QED
      BY <1>1, <3>1
  <2> HIDE DEF E
  <2>3. end \in 0 .. n
    BY <1>1, <2>2, EndsIn
  <2> HIDE DEF end
  <2>4. C \subseteq 0 .. (n + first + column) /\ C # {} /\ n + first + column \in Nat
    BY <1>1, <1>2, <2>1, <2>3
  <2>5. end \in C
    OBVIOUS
  <2> HIDE DEF C
  <2>6. Min(C) \in C /\ \A j \in C : Min(C) <= j
    BY <2>4, EndsIn
  <2>7. Min(C) \in 0 .. (n + first + column) /\ Min(C) <= end
    BY <2>4, <2>5, <2>6
  <2> QED
    BY <1>1, <1>3, <1>5, <2>3, <2>7 DEF n
<1>6. CASE line = {}
  BY <1>1, <1>3, <1>6 DEF n
<1> QED
  BY <1>5, <1>6

LEMMA PlacedShows ==
    ASSUME NEW w, Shows(w), NEW m \in Text, NEW index, Indexes(index, m), NEW sel \in Selection
    PROVE  /\ Shows(Placed(w, index, sel))
           /\ Placed(w, index, sel).text = w.text
<1> DEFINE a == Place(w, index, sel.anchor)
           h == Place(w, index, sel.head)
<1>1. w.text \in Text /\ Len(w.text) \in Nat /\ sel.anchor \in Nat /\ sel.head \in Nat
  BY DEF Shows, Selection, Text
<1>2. a \in 0 .. Len(w.text) /\ h \in 0 .. Len(w.text)
  BY <1>1, PlaceIn
<1>3. Placed(w, index, sel) = [w EXCEPT !.sel = [anchor |-> a, head |-> h]]
  BY DEF Placed
<1> HIDE DEF a, h
<1> QED
  BY <1>1, <1>2, <1>3 DEF Shows, Selection

LEMMA ByteIn ==
    ASSUME NEW w, w.text \in Text, NEW m \in Text, NEW index, Indexes(index, m), NEW i \in Nat,
           ByteAt(w, index, i) \notin {Outside, Panic}
    PROVE  ByteAt(w, index, i) \in 0 .. Len(m)
<1> DEFINE line   == StartsOf(index.starts, LineOf(LineStarts(w.text), i))
           column == ColumnOf(LineStarts(w.text), i)
           start  == Min(line)
           E      == {index.len} \cup {s \in index.starts : s > start}
           end    == Min(E)
           n      == Len(m)
           r      == ByteAt(w, index, i)
<1>1. n \in Nat /\ index.starts \subseteq 0 .. n /\ index.len = n
  BY StartsIn DEF Indexes
<1>2. column \in Nat
  BY StartsIn, ColumnIn
<1>3. r = IF line = {} \/ start > index.len THEN Outside
          ELSE IF end > Len(index.text) THEN Panic
          ELSE IF start + column <= end THEN start + column ELSE Outside
  BY DEF ByteAt
<1>4. line \subseteq index.starts
  BY DEF StartsOf
<1> HIDE DEF line, column, r, start, end
<1>5. line # {} /\ r = start + column /\ start + column <= end
  BY <1>3 DEF r
<1>6. start \in 0 .. n
  BY <1>1, <1>4, <1>5, EndsIn DEF start
<1>7. E \subseteq 0 .. n /\ E # {} /\ n \in E
  BY <1>1
<1> HIDE DEF E
<1>8. end <= n /\ end \in 0 .. n
  <2>1. Min(E) \in E /\ Min(E) <= n
    BY <1>1, <1>7, EndsIn
  <2> QED
    BY <1>7, <2>1 DEF end
<1>9. r \in 0 .. n
  BY <1>1, <1>2, <1>5, <1>6, <1>8
<1> QED
  BY <1>9 DEF r, n

\* What can be read is a selection of the mirror.
LEMMA ReadIn ==
    ASSUME NEW w, Shows(w), NEW m \in Text, NEW index, Indexes(index, m), Read(w, index).ok
    PROVE  /\ Read(w, index).sel \in Selection
           /\ Read(w, index).sel.anchor <= Len(m) /\ Read(w, index).sel.head <= Len(m)
<1> DEFINE head == ByteAt(w, index, w.sel.head)
           anchor == ByteAt(w, index, w.sel.anchor)
<1>1. w.text \in Text /\ w.sel.head \in Nat /\ w.sel.anchor \in Nat /\ Len(m) \in Nat
  BY DEF Shows, Selection, Text
<1>2. /\ Read(w, index).ok = ({head, anchor} \cap {Outside, Panic} = {})
      /\ Read(w, index).sel = [anchor |-> anchor, head |-> head]
  BY DEF Read
<1>3. head \notin {Outside, Panic} /\ anchor \notin {Outside, Panic}
  <2> HIDE DEF head, anchor
  <2> QED
    BY <1>2
<1>4. head \in 0 .. Len(m) /\ anchor \in 0 .. Len(m)
  BY <1>1, <1>3, ByteIn
<1> HIDE DEF head, anchor
<1> QED
  BY <1>1, <1>2, <1>4 DEF Selection

\* The ends of a selection, in order.
LEMMA EndsOf ==
    ASSUME NEW sel \in Selection
    PROVE  /\ From(sel) \in Nat /\ To(sel) \in Nat /\ From(sel) <= To(sel)
           /\ {From(sel), To(sel)} = {sel.anchor, sel.head}
<1> DEFINE S == {sel.anchor, sel.head}
           n == sel.anchor + sel.head
<1>1. sel.anchor \in Nat /\ sel.head \in Nat
  BY DEF Selection
<1>2. S \subseteq 0 .. n /\ S # {} /\ n \in Nat
  BY <1>1
<1>3. From(sel) = Min(S) /\ To(sel) = Max(S)
  BY DEF From, To
<1>4. sel.anchor \in S /\ sel.head \in S /\ \A j \in S : j = sel.anchor \/ j = sel.head
  OBVIOUS
<1> HIDE DEF S, n
<1>5. /\ Min(S) \in S /\ \A j \in S : Min(S) <= j
      /\ Max(S) \in S /\ \A j \in S : j <= Max(S)
  BY <1>2, EndsIn
<1> QED
  BY <1>1, <1>3, <1>4, <1>5 DEF S

\* Replacing a selection of a text is an edit of it.
LEMMA OverFits ==
    ASSUME NEW t \in Text, NEW sel \in Selection, sel.anchor <= Len(t), sel.head <= Len(t),
           NEW word \in Text
    PROVE  Over(sel, word) \in Edit /\ Fits(t, Over(sel, word))
           /\ Over(sel, word).from = From(sel) /\ Over(sel, word).with = word
<1>1. /\ From(sel) \in Nat /\ To(sel) \in Nat /\ From(sel) <= To(sel)
      /\ {From(sel), To(sel)} = {sel.anchor, sel.head}
  BY EndsOf
<1>2. To(sel) <= Len(t)
  BY <1>1
<1> QED
  BY <1>1, <1>2 DEF Over, Edit, Fits

LEMMA TypedShows ==
    ASSUME NEW w, Shows(w), NEW word \in Text
    PROVE  Shows(Typed(w, word))
<1> DEFINE e == Over(w.sel, word)
           u == Splice(w.text, e)
           i == From(w.sel) + Len(word)
<1>1. w.text \in Text /\ w.sel \in Selection /\ Len(w.text) \in Nat /\ Len(word) \in Nat
  BY DEF Shows, Text
<1>2. e \in Edit /\ Fits(w.text, e) /\ e.from = From(w.sel) /\ e.with = word
  BY <1>1, OverFits DEF Shows
<1> HIDE DEF e
<1>3. e.from \in Nat /\ e.to \in Nat /\ e.from <= e.to /\ e.to <= Len(w.text)
  BY <1>2 DEF Edit, Fits
<1>4. u \in Text /\ Len(u) = Len(w.text) + Len(word) - (e.to - e.from)
  BY <1>1, <1>2, SpliceAt
<1>5. i \in Nat /\ i <= Len(u)
  BY <1>1, <1>2, <1>3, <1>4
<1>6. Typed(w, word) = [text |-> u, sel |-> [anchor |-> i, head |-> i]]
  BY DEF Typed, CaretAt, e
<1> HIDE DEF u, i
<1> QED
  BY <1>4, <1>5, <1>6 DEF Shows, Selection

-----------------------------------------------------------------------------
(* Lists of edits, changes and plans, one by one *)

\* The panes between two edits of a list.
FollowedBy(T, n, pane, edits) ==
    /\ T[0] = pane /\ FollowEdits(pane, edits) = T[n]
    /\ \A k \in 1 .. n : T[k] = Follow(T[k - 1], edits[n - k + 1])

LEMMA FollowUnfolds ==
    ASSUME NEW pane, NEW edits, NEW n \in Nat, Len(edits) = n
    PROVE  \E T : FollowedBy(T, n, pane, edits)
<1> DEFINE R(it, m) == it = [k \in 0 .. m |-> IF k = 0 THEN pane
                                               ELSE Follow(it[k - 1], edits[n - k + 1])]
           G == {m \in 0 .. n : \E it : R(it, m)}
<1>1. 0 \in G
  <2> DEFINE it == [k \in 0 .. 0 |-> pane]
  <2>1. R(it, 0)
    OBVIOUS
  <2> HIDE DEF it
  <2> QED
    BY <2>1
<1>2. ASSUME NEW m \in 1 .. n, m - 1 \in G PROVE m \in G
  <2> DEFINE Step(T) == [k \in 0 .. m |-> IF k = 0 THEN pane ELSE Follow(T[k - 1], edits[n - k + 1])]
  <2>1. PICK T : T = [k \in 0 .. m - 1 |-> IF k = 0 THEN pane ELSE Follow(T[k - 1], edits[n - k + 1])]
    BY <1>2
  <2>2. ASSUME NEW k \in 0 .. m, k # 0 PROVE Step(T)[k - 1] = T[k - 1]
    <3>1. k - 1 \in 0 .. m /\ k - 1 \in 0 .. m - 1
      BY <2>2
    <3>2. T[k - 1] = IF k - 1 = 0 THEN pane ELSE Follow(T[k - 1 - 1], edits[n - (k - 1) + 1])
      BY <2>1, <3>1
    <3>3. Step(T)[k - 1] = IF k - 1 = 0 THEN pane ELSE Follow(T[k - 1 - 1], edits[n - (k - 1) + 1])
      BY <3>1
    <3> QED
      BY <3>2, <3>3
  <2> DEFINE next == Step(T)
  <2>3. R(next, m)
    BY <2>2
  <2>4. m \in 0 .. n
    OBVIOUS
  <2> HIDE DEF next
  <2> QED
    BY <2>3, <2>4
<1> HIDE DEF G
<1>3. n \in G
  <2>1. \A m \in 0 .. n : m \in G
    BY <1>1, <1>2, Climb
  <2> QED
    BY <2>1
<1>4. \E it : R(it, n)
  BY <1>3 DEF G
<1>5. R(CHOOSE it : R(it, n), n)
  BY <1>4, Zenon
<1>6. FollowEdits(pane, edits) = (CHOOSE it : R(it, n))[n]
  BY DEF FollowEdits
<1> DEFINE S == CHOOSE it : R(it, n)
<1>7. R(S, n)
  BY <1>5
<1> HIDE DEF S
<1>8. S[0] = pane /\ \A k \in 1 .. n : S[k] = Follow(S[k - 1], edits[n - k + 1])
  <2>1. ASSUME NEW k \in 1 .. n PROVE S[k] = Follow(S[k - 1], edits[n - k + 1])
    <3>1. k \in 0 .. n /\ k # 0
      OBVIOUS
    <3> QED
      BY <1>7, <3>1
  <2>2. 0 \in 0 .. n
    OBVIOUS
  <2> QED
    BY <1>7, <2>1, <2>2
<1>9. FollowedBy(S, n, pane, edits)
  <2>1. FollowEdits(pane, edits) = S[n]
    BY <1>6 DEF S
  <2> QED
    BY <1>8, <2>1 DEF FollowedBy
<1> QED
  BY <1>9

\* The panes between two changes.
FollowedAll(T, n, changes) ==
    /\ T[0] = Pane /\ Followed(changes) = T[n]
    /\ \A k \in 1 .. n : T[k] = FollowEdits(T[k - 1], changes[k])

LEMMA ChangesUnfold ==
    ASSUME NEW changes, NEW n \in Nat, Len(changes) = n
    PROVE  \E T : FollowedAll(T, n, changes)
<1> DEFINE R(it, m) == it = [k \in 0 .. m |-> IF k = 0 THEN Pane
                                               ELSE FollowEdits(it[k - 1], changes[k])]
           G == {m \in 0 .. n : \E it : R(it, m)}
<1>1. 0 \in G
  <2> DEFINE it == [k \in 0 .. 0 |-> Pane]
  <2>1. R(it, 0)
    OBVIOUS
  <2> HIDE DEF it
  <2> QED
    BY <2>1
<1>2. ASSUME NEW m \in 1 .. n, m - 1 \in G PROVE m \in G
  <2> DEFINE Step(T) == [k \in 0 .. m |-> IF k = 0 THEN Pane ELSE FollowEdits(T[k - 1], changes[k])]
  <2>1. PICK T : T = [k \in 0 .. m - 1 |-> IF k = 0 THEN Pane ELSE FollowEdits(T[k - 1], changes[k])]
    BY <1>2
  <2>2. ASSUME NEW k \in 0 .. m, k # 0 PROVE Step(T)[k - 1] = T[k - 1]
    <3>1. k - 1 \in 0 .. m /\ k - 1 \in 0 .. m - 1
      BY <2>2
    <3>2. T[k - 1] = IF k - 1 = 0 THEN Pane ELSE FollowEdits(T[k - 1 - 1], changes[(k - 1)])
      BY <2>1, <3>1
    <3>3. Step(T)[k - 1] = IF k - 1 = 0 THEN Pane ELSE FollowEdits(T[k - 1 - 1], changes[(k - 1)])
      BY <3>1
    <3> QED
      BY <3>2, <3>3
  <2> DEFINE next == Step(T)
  <2>3. R(next, m)
    BY <2>2
  <2>4. m \in 0 .. n
    OBVIOUS
  <2> HIDE DEF next
  <2> QED
    BY <2>3, <2>4
<1> HIDE DEF G
<1>3. n \in G
  <2>1. \A m \in 0 .. n : m \in G
    BY <1>1, <1>2, Climb
  <2> QED
    BY <2>1
<1>4. \E it : R(it, n)
  BY <1>3 DEF G
<1>5. R(CHOOSE it : R(it, n), n)
  BY <1>4, Zenon
<1>6. Followed(changes) = (CHOOSE it : R(it, n))[n]
  BY DEF Followed
<1> DEFINE S == CHOOSE it : R(it, n)
<1>7. R(S, n)
  BY <1>5
<1> HIDE DEF S
<1>8. S[0] = Pane /\ \A k \in 1 .. n : S[k] = FollowEdits(S[k - 1], changes[k])
  <2>1. ASSUME NEW k \in 1 .. n PROVE S[k] = FollowEdits(S[k - 1], changes[k])
    <3>1. k \in 0 .. n /\ k # 0
      OBVIOUS
    <3> QED
      BY <1>7, <3>1
  <2>2. 0 \in 0 .. n
    OBVIOUS
  <2> QED
    BY <1>7, <2>1, <2>2
<1>9. FollowedAll(S, n, changes)
  <2>1. Followed(changes) = S[n]
    BY <1>6 DEF S
  <2> QED
    BY <1>8, <2>1 DEF FollowedAll
<1> QED
  BY <1>9

\* The documents between two plans.
AppliedAll(T, n, plans) ==
    /\ T[0] = doc /\ ApplyPlans(plans) = T[n]
    /\ \A k \in 1 .. n : T[k] = ApplyPlan(T[k - 1], plans[k])

LEMMA PlansUnfold ==
    ASSUME NEW plans, NEW n \in Nat, Len(plans) = n
    PROVE  \E T : AppliedAll(T, n, plans)
<1> DEFINE R(it, m) == it = [k \in 0 .. m |-> IF k = 0 THEN doc
                                               ELSE ApplyPlan(it[k - 1], plans[k])]
           G == {m \in 0 .. n : \E it : R(it, m)}
<1>1. 0 \in G
  <2> DEFINE it == [k \in 0 .. 0 |-> doc]
  <2>1. R(it, 0)
    OBVIOUS
  <2> HIDE DEF it
  <2> QED
    BY <2>1
<1>2. ASSUME NEW m \in 1 .. n, m - 1 \in G PROVE m \in G
  <2> DEFINE Step(T) == [k \in 0 .. m |-> IF k = 0 THEN doc ELSE ApplyPlan(T[k - 1], plans[k])]
  <2>1. PICK T : T = [k \in 0 .. m - 1 |-> IF k = 0 THEN doc ELSE ApplyPlan(T[k - 1], plans[k])]
    BY <1>2
  <2>2. ASSUME NEW k \in 0 .. m, k # 0 PROVE Step(T)[k - 1] = T[k - 1]
    <3>1. k - 1 \in 0 .. m /\ k - 1 \in 0 .. m - 1
      BY <2>2
    <3>2. T[k - 1] = IF k - 1 = 0 THEN doc ELSE ApplyPlan(T[k - 1 - 1], plans[(k - 1)])
      BY <2>1, <3>1
    <3>3. Step(T)[k - 1] = IF k - 1 = 0 THEN doc ELSE ApplyPlan(T[k - 1 - 1], plans[(k - 1)])
      BY <3>1
    <3> QED
      BY <3>2, <3>3
  <2> DEFINE next == Step(T)
  <2>3. R(next, m)
    BY <2>2
  <2>4. m \in 0 .. n
    OBVIOUS
  <2> HIDE DEF next
  <2> QED
    BY <2>3, <2>4
<1> HIDE DEF G
<1>3. n \in G
  <2>1. \A m \in 0 .. n : m \in G
    BY <1>1, <1>2, Climb
  <2> QED
    BY <2>1
<1>4. \E it : R(it, n)
  BY <1>3 DEF G
<1>5. R(CHOOSE it : R(it, n), n)
  BY <1>4, Zenon
<1>6. ApplyPlans(plans) = (CHOOSE it : R(it, n))[n]
  BY DEF ApplyPlans
<1> DEFINE S == CHOOSE it : R(it, n)
<1>7. R(S, n)
  BY <1>5
<1> HIDE DEF S
<1>8. S[0] = doc /\ \A k \in 1 .. n : S[k] = ApplyPlan(S[k - 1], plans[k])
  <2>1. ASSUME NEW k \in 1 .. n PROVE S[k] = ApplyPlan(S[k - 1], plans[k])
    <3>1. k \in 0 .. n /\ k # 0
      OBVIOUS
    <3> QED
      BY <1>7, <3>1
  <2>2. 0 \in 0 .. n
    OBVIOUS
  <2> QED
    BY <1>7, <2>1, <2>2
<1>9. AppliedAll(S, n, plans)
  <2>1. ApplyPlans(plans) = S[n]
    BY <1>6 DEF S
  <2> QED
    BY <1>8, <2>1 DEF AppliedAll
<1> QED
  BY <1>9

-----------------------------------------------------------------------------
(* The adapter *)

Composition ==
    {NoComposition} \cup {c \in [id : Nat, base : Nat, from : Nat, to : Nat] : c.from <= c.to}

Adapter == [mirror : Text, index : Index, revision : Nat, pending : BOOLEAN,
            composition : Composition, tracker : Composition, compositions : Nat]

\* The index of the adapter is that of its mirror.
Mirrors(a) == a \in Adapter /\ Indexes(a.index, a.mirror)

LEMMA MirroredMirrors ==
    ASSUME NEW a, Mirrors(a), NEW e \in Edit, Fits(a.mirror, e)
    PROVE  /\ Mirrors(Mirrored(a, e))
           /\ Mirrored(a, e).mirror = Splice(a.mirror, e)
<1> DEFINE u == Splice(a.mirror, e)
           i == Reindexed(a.index, e)
<1>1. a \in Adapter /\ a.mirror \in Text /\ Indexes(a.index, a.mirror)
  BY DEF Mirrors, Adapter
<1>2. u \in Text
  BY <1>1, SpliceAt
<1>3. Indexes(i, u)
  BY <1>1, ReindexedIndexes
<1>4. Mirrored(a, e) = [a EXCEPT !.mirror = u, !.index = i]
  BY DEF Mirrored
<1> HIDE DEF u, i
<1>5. i \in Index
  BY <1>3 DEF Indexes
<1>6. /\ Mirrored(a, e) \in Adapter
      /\ Mirrored(a, e).mirror = u /\ Mirrored(a, e).index = i
  BY <1>1, <1>2, <1>4, <1>5 DEF Adapter
<1> QED
  BY <1>3, <1>6 DEF Mirrors, u

\* A widget whose selection is in its text, and an adapter.
Follows(pane) == Shows(pane.w) /\ Mirrors(pane.a)

LEMMA FollowFollows ==
    ASSUME NEW pane, Follows(pane), NEW e \in Edit, Fits(pane.a.mirror, e)
    PROVE  /\ Follows(Follow(pane, e))
           /\ Follow(pane, e).a.mirror = Splice(pane.a.mirror, e)
<1> DEFINE sel == [anchor |-> e.from, head |-> e.to]
           w == Placed(pane.w, pane.a.index, sel)
           b == Mirrored(pane.a, e)
           x == Typed(w, e.with)
<1>1. e.from \in Nat /\ e.to \in Nat /\ e.with \in Text
  BY DEF Edit
<1>2. sel \in Selection
  BY <1>1 DEF Selection
<1>3. Shows(pane.w) /\ Indexes(pane.a.index, pane.a.mirror) /\ pane.a.mirror \in Text
  BY DEF Follows, Mirrors, Adapter
<1> HIDE DEF sel
<1>4. Shows(w)
  BY <1>2, <1>3, PlacedShows
<1> HIDE DEF w
<1>5. Shows(x)
  BY <1>1, <1>4, TypedShows
<1>6. Mirrors(b) /\ b.mirror = Splice(pane.a.mirror, e)
  BY MirroredMirrors DEF Follows
<1>7. Follow(pane, e) = [w |-> x, a |-> b]
  BY DEF Follow, w, sel
<1> HIDE DEF x, b
<1> QED
  BY <1>5, <1>6, <1>7 DEF Follows

\* What is left of a tidy list, while its edits are made, fits.
LEMMA SplicedFits ==
    ASSUME NEW t \in Text, NEW edits \in Script, Tidy(t, edits), NEW n, n = Len(edits),
           NEW T, Spliced(T, n, t, edits)
    PROVE  \A k \in 0 .. n : /\ T[k] \in Text
                             /\ \A j \in 1 .. n - k : Fits(T[k], edits[j])
<1>1. n \in Nat /\ \A k \in 1 .. n : edits[k] \in Edit
  BY DEF Script
<1>2. /\ \A k \in 1 .. n : Fits(t, edits[k])
      /\ \A k \in 1 .. n : \A j \in 1 .. k - 1 : edits[j].to <= edits[k].from
  BY DEF Tidy
<1>3. T[0] = t /\ \A k \in 1 .. n : T[k] = Splice(T[k - 1], edits[n - k + 1])
  BY DEF Spliced
<1> DEFINE Good(k) == T[k] \in Text /\ \A j \in 1 .. n - k : Fits(T[k], edits[j])
           G == {k \in 0 .. n : Good(k)}
<1>4. 0 \in G
  <2>1. Good(0)
    BY <1>1, <1>2, <1>3
  <2> HIDE DEF Good
  <2> QED
    BY <1>1, <2>1
<1>5. ASSUME NEW k \in 1 .. n, k - 1 \in G PROVE k \in G
  <2> DEFINE l == k - 1
             i == n - k + 1
             f == edits[i]
  <2>1. l \in 0 .. n /\ i \in 1 .. n /\ n - l = i /\ k \in 0 .. n /\ n - k = i - 1
    BY <1>1
  <2>2. Good(l)
    BY <1>5
  <2>3. f \in Edit
    BY <1>1, <2>1
  <2>4. T[k] = Splice(T[l], f)
    BY <1>3
  <2>5. Fits(T[l], f)
    <3>1. i \in 1 .. n - l
      BY <2>1
    <3> QED
      BY <2>2, <3>1
  <2> HIDE DEF l, f
  <2>6. T[k] \in Text /\ Len(T[k]) = Len(T[l]) + Len(f.with) - (f.to - f.from)
    BY <2>2, <2>3, <2>4, <2>5, SpliceAt
  <2>7. f.from <= Len(T[k])
    BY <2>2, <2>3, <2>5, <2>6 DEF Fits, Edit, Text
  <2>8. ASSUME NEW j \in 1 .. n - k PROVE Fits(T[k], edits[j])
    <3>1. j \in 1 .. i - 1 /\ j \in 1 .. n /\ i \in 1 .. n
      BY <1>1, <2>1
    <3>2. edits[j].to <= f.from /\ edits[j] \in Edit /\ edits[j].from <= edits[j].to
      BY <1>1, <1>2, <3>1 DEF f, Fits
    <3> HIDE DEF i
    <3> QED
      <4>1. f.from \in Nat /\ edits[j].to \in Nat /\ edits[j].from \in Nat
        BY <2>3, <3>2 DEF Edit
      <4>2. Len(T[k]) \in Nat
        BY <2>6 DEF Text
      <4>3. edits[j].to <= Len(T[k])
        BY <2>7, <3>2, <4>1, <4>2
      <4> QED
        BY <3>2, <4>3 DEF Fits
  <2>9. Good(k)
    BY <2>6, <2>8
  <2> HIDE DEF Good
  <2> QED
    BY <2>1, <2>9
<1> HIDE DEF G
<1>6. \A k \in 0 .. n : k \in G
  BY <1>1, <1>4, <1>5, Climb
<1> QED
  BY <1>6 DEF G

\* Following the edits one by one leaves the mirror where ApplyEdits does.
LEMMA EditsFollowed ==
    ASSUME NEW pane, Follows(pane), NEW edits \in Script, Tidy(pane.a.mirror, edits)
    PROVE  /\ Follows(FollowEdits(pane, edits))
           /\ FollowEdits(pane, edits).a.mirror = ApplyEdits(pane.a.mirror, edits)
<1> DEFINE n == Len(edits)
           t == pane.a.mirror
<1>1. n \in Nat /\ Len(edits) = n /\ (\A k \in 1 .. n : edits[k] \in Edit) /\ Tidy(t, edits)
  BY DEF Script
<1>2. t \in Text
  BY DEF Follows, Mirrors, Adapter
<1> HIDE DEF n, t
<1>3. PICK P : FollowedBy(P, n, pane, edits)
  BY <1>1, FollowUnfolds
<1>4. PICK T : Spliced(T, n, t, edits)
  BY <1>1, ApplyUnfolds
<1>5. /\ P[0] = pane /\ FollowEdits(pane, edits) = P[n]
      /\ \A k \in 1 .. n : P[k] = Follow(P[k - 1], edits[n - k + 1])
  BY <1>3 DEF FollowedBy
<1>6. /\ T[0] = t /\ ApplyEdits(t, edits) = T[n]
      /\ \A k \in 1 .. n : T[k] = Splice(T[k - 1], edits[n - k + 1])
  BY <1>4 DEF Spliced
<1>7. \A k \in 0 .. n : \A j \in 1 .. n - k : Fits(T[k], edits[j])
  BY <1>1, <1>2, <1>4, SplicedFits
<1> DEFINE Good(k) == Follows(P[k]) /\ P[k].a.mirror = T[k]
           G == {k \in 0 .. n : Good(k)}
<1>8. 0 \in G
  <2>1. Good(0)
    BY <1>5, <1>6 DEF t
  <2> QED
    BY <1>1, <2>1
<1>9. ASSUME NEW k \in 1 .. n, k - 1 \in G PROVE k \in G
  <2> DEFINE l == k - 1
             i == n - k + 1
             f == edits[i]
  <2>1. l \in 0 .. n /\ i \in 1 .. n - l /\ i \in 1 .. n /\ k \in 0 .. n
    BY <1>1
  <2>2. Good(l)
    BY <1>9
  <2>3. f \in Edit /\ Fits(T[l], f)
    BY <1>1, <1>7, <2>1
  <2>4. P[k] = Follow(P[l], f) /\ T[k] = Splice(T[l], f)
    BY <1>5, <1>6
  <2> HIDE DEF l, f
  <2>5. Good(k)
    BY <2>2, <2>3, <2>4, FollowFollows
  <2> HIDE DEF Good
  <2> QED
    BY <2>1, <2>5
<1> HIDE DEF G
<1>10. n \in G
  <2>1. \A k \in 0 .. n : k \in G
    BY <1>1, <1>8, <1>9, Climb
  <2> QED
    BY <1>1, <2>1
<1>11. Good(n)
  BY <1>10 DEF G
<1> QED
  BY <1>5, <1>6, <1>11 DEF t

-----------------------------------------------------------------------------
(* What is resynchronised *)

LEMMA PrefixOf ==
    ASSUME NEW t \in Text, NEW s \in Prefixes(t)
    PROVE  s \in Text /\ Len(s) \in 0 .. Len(t)
<1>1. Len(t) \in Nat
  BY DEF Text
<1>2. CASE s = << >>
  BY <1>1, <1>2 DEF Text
<1>3. CASE s # << >>
  <2>1. PICK l \in 1 .. Len(t) : s = SubSeq(t, 1, l)
    BY <1>3 DEF Prefixes
  <2>2. s = Slice(t, 0, l)
    BY <2>1 DEF Slice
  <2> DEFINE z == 0
  <2>3. z \in Nat /\ l \in Nat /\ z <= l /\ l <= Len(t) /\ l - z = l /\ s = Slice(t, z, l)
    BY <1>1, <2>2
  <2> HIDE DEF z
  <2>4. Slice(t, z, l) \in Text /\ Len(Slice(t, z, l)) = l - z
    BY <2>3, SliceAt
  <2> QED
    BY <2>3, <2>4
<1> QED
  BY <1>2, <1>3

\* LongestCommonPrefix returns a common prefix.
LEMMA CommonPrefix ==
    ASSUME NEW a \in Text, NEW b \in Text
    PROVE  LET p == Len(LongestCommonPrefix({a, b})) IN
           /\ p \in Nat /\ p <= Len(a) /\ p <= Len(b)
           /\ \A k \in 1 .. p : a[k] = b[k]
<1> DEFINE C == CommonPrefixes({a, b})
           Longest(s) == \A other \in C : Len(other) <= Len(s)
           c == LongestCommonPrefix({a, b})
           n == Len(a) + Len(b)
           L == {Len(s) : s \in C}
           none == << >>
<1>1. Len(a) \in Nat /\ Len(b) \in Nat /\ n \in Nat
  BY DEF Text
<1>2. ASSUME NEW s \in C
      PROVE  s \in Text /\ Len(s) \in 0 .. n /\ IsPrefix(s, a) /\ IsPrefix(s, b)
  <2>1. s \in Prefixes(a) \/ s \in Prefixes(b)
    BY DEF CommonPrefixes
  <2>2. IsPrefix(s, a) /\ IsPrefix(s, b)
    BY DEF CommonPrefixes
  <2>3. s \in Text /\ (Len(s) \in 0 .. Len(a) \/ Len(s) \in 0 .. Len(b))
    BY <2>1, PrefixOf
  <2> QED
    BY <1>1, <2>2, <2>3
<1>3. none \in C
  <2>1. none \in Prefixes(a)
    BY DEF Prefixes
  <2>2. ASSUME NEW t \in Text PROVE IsPrefix(none, t)
    <3>1. Len(none) = 0 /\ SubSeq(none, 1, 0) = none /\ SubSeq(t, 1, 0) = none /\ Len(t) \in Nat
      BY DEF Text
    <3> QED
      BY <3>1 DEF IsPrefix
  <2> HIDE DEF none
  <2> QED
    BY <2>1, <2>2 DEF CommonPrefixes
<1>4. c = CHOOSE s \in C : Longest(s)
  BY DEF LongestCommonPrefix
<1> HIDE DEF C, none
<1>5. L \subseteq 0 .. n /\ L # {}
  BY <1>2, <1>3
<1> HIDE DEF n
<1>6. \E s \in C : Longest(s)
  <2>1. Max(L) \in L /\ \A j \in L : j <= Max(L)
    <3> HIDE DEF L
    <3> QED
      BY <1>1, <1>5, EndsIn
  <2>2. PICK s \in C : Max(L) = Len(s)
    BY <2>1
  <2>3. Longest(s)
    BY <2>1, <2>2
  <2> QED
    BY <2>3
<1> HIDE DEF Longest, c
<1>7. c \in C
  BY <1>4, <1>6
<1> DEFINE p == Len(c)
<1>8. /\ c \in Text /\ p \in Nat /\ p <= Len(a) /\ p <= Len(b)
      /\ SubSeq(c, 1, p) = SubSeq(a, 1, p) /\ SubSeq(c, 1, p) = SubSeq(b, 1, p)
  BY <1>2, <1>7 DEF IsPrefix, Text
<1>9. ASSUME NEW t \in Text, p <= Len(t), NEW k \in 1 .. p PROVE SubSeq(t, 1, p)[k] = t[k]
  <2> DEFINE z == 0
  <2>1. z \in Nat /\ z <= p /\ p - z = p /\ SubSeq(t, 1, p) = Slice(t, z, p) /\ z + k = k
    BY <1>8 DEF Slice
  <2> HIDE DEF z, p
  <2>2. \A i \in 1 .. p - z : Slice(t, z, p)[i] = t[z + i]
    BY <1>8, <1>9, <2>1, SliceAt
  <2> QED
    BY <2>1, <2>2
<1> HIDE DEF p
<1>10. \A k \in 1 .. p : a[k] = b[k]
  <2> TAKE k \in 1 .. p
  <2>1. SubSeq(a, 1, p)[k] = a[k] /\ SubSeq(b, 1, p)[k] = b[k]
    BY <1>8, <1>9
  <2> QED
    BY <1>8, <2>1
<1> QED
  BY <1>8, <1>10 DEF p, c

\* minimal_diff is an edit of the old text that makes the new one.
LEMMA DiffMakes ==
    ASSUME NEW old \in Text, NEW new \in Text
    PROVE  /\ MinimalDiff(old, new) \in Edit
           /\ Fits(old, MinimalDiff(old, new))
           /\ Splice(old, MinimalDiff(old, new)) = new
<1> DEFINE prefix == Len(LongestCommonPrefix({old, new}))
           tail(t) == SubSeq(t, prefix + 1, Len(t))
           rest(t) == Reverse(tail(t))
           suffix == Len(LongestCommonPrefix({rest(old), rest(new)}))
           m == Len(old)
           n == Len(new)
           w == Slice(new, prefix, n - suffix)
           e == [from |-> prefix, to |-> m - suffix, with |-> w]
<1>1. MinimalDiff(old, new) = e
  BY DEF MinimalDiff
<1>2. m \in Nat /\ n \in Nat
  BY DEF Text
<1>3. /\ prefix \in Nat /\ prefix <= m /\ prefix <= n
      /\ \A k \in 1 .. prefix : old[k] = new[k]
  BY CommonPrefix
<1> HIDE DEF prefix
<1>4. ASSUME NEW t \in Text, prefix <= Len(t)
      PROVE  /\ rest(t) \in Text /\ Len(rest(t)) = Len(t) - prefix
             /\ \A k \in 1 .. Len(t) - prefix : rest(t)[k] = t[Len(t) - k + 1]
  <2> DEFINE l == Len(t)
             u == tail(t)
  <2>1. l \in Nat /\ prefix <= l /\ l <= Len(t) /\ u = Slice(t, prefix, l)
    BY <1>4 DEF Slice, Text
  <2> HIDE DEF l, u
  <2>2. /\ u \in Text /\ Len(u) = l - prefix
        /\ \A k \in 1 .. l - prefix : u[k] = t[prefix + k]
    BY <1>3, <2>1, SliceAt
  <2>3. Reverse(u) = [i \in 1 .. l - prefix |-> u[l - prefix - i + 1]]
    BY <2>2 DEF Reverse
  <2>4. l - prefix \in Nat
    BY <1>3, <2>1
  <2>5. ASSUME NEW k \in 1 .. l - prefix
        PROVE  u[l - prefix - k + 1] \in Byte /\ u[l - prefix - k + 1] = t[l - k + 1]
    <3>1. l - prefix - k + 1 \in 1 .. l - prefix /\ prefix + (l - prefix - k + 1) = l - k + 1
      BY <1>3, <2>1
    <3> QED
      BY <2>2, <3>1 DEF Text
  <2>6. Reverse(u) \in Text /\ Len(Reverse(u)) = l - prefix
    BY <2>3, <2>4, <2>5 DEF Text
  <2> QED
    BY <2>3, <2>5, <2>6 DEF l, u
<1>5. /\ rest(old) \in Text /\ Len(rest(old)) = m - prefix
      /\ \A k \in 1 .. m - prefix : rest(old)[k] = old[m - k + 1]
  BY <1>3, <1>4
<1>6. /\ rest(new) \in Text /\ Len(rest(new)) = n - prefix
      /\ \A k \in 1 .. n - prefix : rest(new)[k] = new[n - k + 1]
  BY <1>3, <1>4
<1> HIDE DEF rest
<1>7. /\ suffix \in Nat /\ suffix <= m - prefix /\ suffix <= n - prefix
      /\ \A k \in 1 .. suffix : rest(old)[k] = rest(new)[k]
  BY <1>5, <1>6, CommonPrefix
<1> HIDE DEF suffix
<1>8. \A k \in 1 .. suffix : old[m - k + 1] = new[n - k + 1]
  <2> TAKE k \in 1 .. suffix
  <2>1. k \in 1 .. m - prefix /\ k \in 1 .. n - prefix
    BY <1>2, <1>3, <1>7
  <2> QED
    BY <1>5, <1>6, <1>7, <2>1
<1> DEFINE q == m - suffix
           r == n - suffix
<1>9. q \in Nat /\ r \in Nat /\ prefix <= q /\ q <= m /\ prefix <= r /\ r <= n /\ n <= Len(new)
  BY <1>2, <1>3, <1>7
<1> HIDE DEF m
<1>10. w \in Text /\ Len(w) = r - prefix /\ \A k \in 1 .. r - prefix : w[k] = new[prefix + k]
  <2> HIDE DEF n
  <2>1. w = Slice(new, prefix, r)
    OBVIOUS
  <2> HIDE DEF w, r
  <2>2. r <= Len(new)
    BY <1>9 DEF n
  <2> QED
    BY <1>3, <1>9, <2>1, <2>2, SliceAt
<1> HIDE DEF w, n
<1>11. e \in Edit /\ e.from = prefix /\ e.to = q /\ e.with = w
  BY <1>3, <1>9, <1>10 DEF Edit
<1>12. Fits(old, e)
  BY <1>9, <1>11 DEF Fits, m
<1> DEFINE u == Splice(old, e)
<1> HIDE DEF e
<1>13. /\ u \in Text /\ Len(u) = m + Len(w) - (q - prefix)
       /\ \A k \in 1 .. Len(u) : u[k] = IF k <= prefix THEN old[k]
                                        ELSE IF k <= prefix + Len(w) THEN w[k - prefix]
                                        ELSE old[k - Len(w) + (q - prefix)]
  <2>1. /\ u \in Text /\ Len(u) = Len(old) + Len(e.with) - (e.to - e.from)
        /\ \A k \in 1 .. Len(u) : u[k] = IF k <= e.from THEN old[k]
                                         ELSE IF k <= e.from + Len(e.with) THEN e.with[k - e.from]
                                         ELSE old[k - Len(e.with) + (e.to - e.from)]
    <3>1. old \in Text /\ e \in Edit
      BY <1>11
    <3> QED
      BY <1>12, <3>1, SpliceAt
  <2> HIDE DEF u
  <2> QED
    BY <1>11, <2>1 DEF m
<1>14. Len(u) = n
  BY <1>2, <1>3, <1>7, <1>9, <1>10, <1>13
<1> HIDE DEF u
<1>15. ASSUME NEW k \in 1 .. n PROVE u[k] = new[k]
  <2>1. CASE k <= prefix
    BY <1>3, <1>13, <1>14, <2>1
  <2>2. CASE prefix < k /\ k <= r
    <3>1. ~ (k <= prefix) /\ k <= prefix + Len(w) /\ k - prefix \in 1 .. r - prefix /\ prefix + (k - prefix) = k
      BY <1>3, <1>9, <1>10, <2>2
    <3>2. u[k] = w[k - prefix]
      BY <1>13, <1>14, <3>1
    <3> QED
      BY <1>10, <3>1, <3>2
  <2>3. CASE r < k
    <3> DEFINE j == n - k + 1
               i == k - Len(w) + (q - prefix)
    <3>1. ~ (k <= prefix) /\ ~ (k <= prefix + Len(w))
      BY <1>3, <1>9, <1>10, <2>3
    <3>2. u[k] = old[i]
      BY <1>13, <1>14, <3>1
    <3>3. j \in 1 .. suffix /\ n - j + 1 = k
      BY <1>2, <1>7, <2>3
    <3>4. i = m - j + 1
      BY <1>2, <1>3, <1>7, <1>9, <1>10
    <3> HIDE DEF i, j
    <3> QED
      BY <1>8, <3>2, <3>3, <3>4
  <2> QED
    BY <1>3, <1>9, <2>1, <2>2, <2>3
<1>16. u = new
  <2>1. u \in Seq(Byte) /\ new \in Seq(Byte) /\ Len(u) = Len(new)
    BY <1>13, <1>14 DEF Text, n
  <2>2. \A k \in 1 .. Len(u) : u[k] = new[k]
    BY <1>14, <1>15
  <2> QED
    BY <2>1, <2>2, SeqEqual
<1> QED
  BY <1>1, <1>11, <1>12, <1>16 DEF u

-----------------------------------------------------------------------------
(* Characters of one byte *)

Plain(text) == \A k \in 1 .. Len(text) : text[k] # Trail
PlainScript(edits) == \A k \in 1 .. Len(edits) : Plain(edits[k].with)
PlainStack(stack) ==
    \A k \in 1 .. Len(stack) : PlainScript(stack[k].edits) /\ PlainScript(stack[k].inverse)
PlainDoc(d) == Plain(d.text) /\ PlainStack(d.undo) /\ PlainStack(d.redo)

LEMMA PlainGiven ==
    /\ \A t \in Opened \cup Keys \cup Pastes \cup Replacements : t \in Text /\ Plain(t)
    /\ << >> \in Text /\ Plain(<< >>)
<1>1. ASSUME NEW t \in Opened \cup Keys \cup Pastes \cup Replacements
      PROVE  t \in Text /\ Plain(t)
  <2>1. t \in Text
    BY TextsGiven DEF Given
  <2>2. t \in Seq(ToSet(t) \ {Trail})
    BY EditorAssumption
  <2> QED
    BY <2>1, <2>2 DEF Plain
<1>2. << >> \in Text /\ Plain(<< >>)
  BY TextsGiven DEF Plain
<1> QED
  BY <1>1, <1>2

LEMMA PlainBoundaries ==
    ASSUME NEW t \in Text, Plain(t)
    PROVE  Boundaries(t) = 0 .. Len(t)
<1>1. Len(t) \in Nat
  BY DEF Text
<1>2. ASSUME NEW i \in 0 .. Len(t) PROVE Boundary(t, i)
  <2>1. i = Len(t) \/ i + 1 \in 1 .. Len(t)
    BY <1>1
  <2> QED
    BY <2>1 DEF Boundary, Plain
<1> QED
  BY <1>2 DEF Boundaries

LEMMA SplicePlain ==
    ASSUME NEW t \in Text, NEW e \in Edit, Fits(t, e), Plain(t), Plain(e.with)
    PROVE  Plain(Splice(t, e))
<1> DEFINE u == Splice(t, e)
           p == e.from
           q == e.to
           w == e.with
<1>1. /\ p \in Nat /\ q \in Nat /\ Len(w) \in Nat /\ Len(t) \in Nat /\ p <= q /\ q <= Len(t)
      /\ Plain(w)
  BY DEF Edit, Fits, Text
<1>2. /\ Len(u) = Len(t) + Len(w) - (q - p)
      /\ \A k \in 1 .. Len(u) : u[k] = IF k <= p THEN t[k]
                                       ELSE IF k <= p + Len(w) THEN w[k - p]
                                       ELSE t[k - Len(w) + (q - p)]
  BY SpliceAt
<1> HIDE DEF u, p, q, w
<1>3. ASSUME NEW k \in 1 .. Len(u) PROVE u[k] # Trail
  <2>1. CASE k <= p
    <3>1. u[k] = t[k] /\ k \in 1 .. Len(t)
      BY <1>1, <1>2, <2>1
    <3> QED
      BY <3>1 DEF Plain
  <2>2. CASE ~ (k <= p) /\ k <= p + Len(w)
    <3>1. u[k] = w[k - p] /\ k - p \in 1 .. Len(w)
      BY <1>1, <1>2, <2>2
    <3> QED
      BY <1>1, <3>1 DEF Plain
  <2>3. CASE ~ (k <= p) /\ ~ (k <= p + Len(w))
    <3> DEFINE i == k - Len(w) + (q - p)
    <3>1. u[k] = t[i]
      BY <1>2, <2>3
    <3>2. i \in 1 .. Len(t)
      BY <1>1, <1>2, <2>3
    <3> HIDE DEF i
    <3> QED
      BY <3>1, <3>2 DEF Plain
  <2> QED
    BY <2>1, <2>2, <2>3
<1> QED
  BY <1>3 DEF Plain, u

LEMMA SlicePlain ==
    ASSUME NEW t \in Text, Plain(t), NEW i \in Nat, NEW j \in Nat, i <= j, j <= Len(t)
    PROVE  Plain(Slice(t, i, j))
<1>1. Len(Slice(t, i, j)) = j - i /\ \A k \in 1 .. j - i : Slice(t, i, j)[k] = t[i + k]
  BY SliceAt
<1>2. \A k \in 1 .. j - i : i + k \in 1 .. Len(t)
  BY DEF Text
<1> QED
  BY <1>1, <1>2 DEF Plain

LEMMA ApplyPlain ==
    ASSUME NEW t \in Text, NEW edits \in Script, Tidy(t, edits), Plain(t), PlainScript(edits)
    PROVE  ApplyEdits(t, edits) \in Text /\ Plain(ApplyEdits(t, edits))
<1> DEFINE n == Len(edits)
<1>1. n \in Nat /\ Len(edits) = n /\ \A k \in 1 .. n : edits[k] \in Edit /\ Plain(edits[k].with)
  BY DEF Script, PlainScript
<1> HIDE DEF n
<1>2. PICK T : Spliced(T, n, t, edits)
  BY <1>1, ApplyUnfolds
<1>3. /\ T[0] = t /\ ApplyEdits(t, edits) = T[n]
      /\ \A k \in 1 .. n : T[k] = Splice(T[k - 1], edits[n - k + 1])
  BY <1>2 DEF Spliced
<1>4. \A k \in 0 .. n : T[k] \in Text /\ \A j \in 1 .. n - k : Fits(T[k], edits[j])
  BY <1>1, <1>2, SplicedFits
<1> DEFINE G == {k \in 0 .. n : Plain(T[k])}
<1>5. 0 \in G
  BY <1>1, <1>3
<1>6. ASSUME NEW k \in 1 .. n, k - 1 \in G PROVE k \in G
  <2> DEFINE l == k - 1
             i == n - k + 1
             f == edits[i]
  <2>1. l \in 0 .. n /\ i \in 1 .. n - l /\ i \in 1 .. n /\ k \in 0 .. n
    BY <1>1
  <2>2. Plain(T[l]) /\ T[l] \in Text
    BY <1>4, <1>6, <2>1
  <2>3. f \in Edit /\ Fits(T[l], f) /\ Plain(f.with)
    BY <1>1, <1>4, <2>1
  <2>4. T[k] = Splice(T[l], f)
    BY <1>3
  <2> HIDE DEF l, f
  <2>5. Plain(T[k])
    BY <2>2, <2>3, <2>4, SplicePlain
  <2> QED
    BY <2>1, <2>5
<1> HIDE DEF G
<1>7. n \in G
  <2>1. \A k \in 0 .. n : k \in G
    BY <1>1, <1>5, <1>6, Climb
  <2> QED
    BY <1>1, <2>1
<1> QED
  BY <1>1, <1>3, <1>4, <1>7 DEF G

LEMMA InversePlain ==
    ASSUME NEW t \in Text, NEW edits \in Script, Tidy(t, edits), Plain(t)
    PROVE  PlainScript(InverseOf(t, edits))
<1> DEFINE back == InverseOf(t, edits)
           n == Len(edits)
<1>1. n \in Nat /\ DOMAIN edits = 1 .. n
      /\ \A k \in 1 .. n : edits[k] \in Edit /\ Fits(t, edits[k])
  BY DEF Script, Tidy
<1>2. Len(back) = n /\ \A k \in 1 .. n : back[k].with = Slice(t, edits[k].from, edits[k].to)
  BY <1>1 DEF InverseOf
<1> HIDE DEF back, n
<1>3. ASSUME NEW k \in 1 .. n PROVE Plain(back[k].with)
  <2>1. /\ edits[k].from \in Nat /\ edits[k].to \in Nat
        /\ edits[k].from <= edits[k].to /\ edits[k].to <= Len(t)
    BY <1>1 DEF Edit, Fits
  <2> QED
    BY <1>2, <2>1, SlicePlain
<1> QED
  BY <1>2, <1>3 DEF PlainScript, back

-----------------------------------------------------------------------------
(* The document under the editor *)

\* The stacks of the document lead from some text to its text and on.
Sound(d) == PlainDoc(d) /\ \E bottom \in Text : Stacked(d, bottom)

LEMMA SoundText ==
    ASSUME NEW d, Sound(d)
    PROVE  d.text \in Text /\ Plain(d.text) /\ d.revision \in Nat
BY DEF Sound, PlainDoc, Stacked, IsDoc

LEMMA NewSound ==
    ASSUME NEW t \in Text, Plain(t)
    PROVE  /\ Sound(NewDocument(t))
           /\ NewDocument(t).text = t /\ NewDocument(t).revision = 0
<1> DEFINE d == NewDocument(t)
           none == << >>
<1>1. d = [text |-> t, revision |-> 0, undo |-> none, redo |-> none,
           undoBytes |-> 0, groupOpen |-> FALSE]
  BY DEF NewDocument
<1>2. none \in Seq(Entry) /\ Len(none) = 0
  OBVIOUS
<1>3. Held(none, t, t) /\ Waiting(none, t) /\ Charged(none, 0)
  BY NoneHeld
<1>4. PlainStack(none)
  BY <1>2 DEF PlainStack
<1> HIDE DEF d, none
<1>5. Stacked(d, t)
  BY <1>1, <1>2, <1>3 DEF Stacked, IsDoc
<1>6. PlainDoc(d)
  BY <1>1, <1>4 DEF PlainDoc
<1>7. Sound(d) /\ d.text = t /\ d.revision = 0
  BY <1>1, <1>5, <1>6 DEF Sound
<1> QED
  BY <1>7 DEF d

LEMMA EnforcedSound ==
    ASSUME NEW d, Sound(d)
    PROVE  /\ Sound(EnforceUndoBudget(d))
           /\ EnforceUndoBudget(d).text = d.text
           /\ EnforceUndoBudget(d).revision = d.revision
<1> DEFINE e == EnforceUndoBudget(d)
<1>1. PICK bottom \in Text : Stacked(d, bottom)
  BY DEF Sound
<1> DEFINE c == Replay(bottom, [j \in 1 .. Len(d.undo) - Len(e.undo) |-> d.undo[j].edits])
<1>2. /\ c \in Text /\ Stacked(e, c)
      /\ e.text = d.text /\ e.revision = d.revision /\ e.redo = d.redo
      /\ \E i \in 0 .. Len(d.undo) : e.undo = SubSeq(d.undo, i + 1, Len(d.undo))
  BY <1>1, EnforcedStacked
<1> HIDE DEF c, e
<1>3. PICK i \in 0 .. Len(d.undo) : e.undo = SubSeq(d.undo, i + 1, Len(d.undo))
  BY <1>2
<1>4. d.undo \in Seq(Entry) /\ PlainStack(d.undo) /\ Len(d.undo) \in Nat
  BY <1>1 DEF Stacked, IsDoc, Sound, PlainDoc
<1>5. Len(e.undo) = Len(d.undo) - i /\ \A k \in 1 .. Len(d.undo) - i : e.undo[k] = d.undo[k + i]
  BY <1>3, <1>4, KeptEntries
<1>6. PlainStack(e.undo)
  <2>1. ASSUME NEW k \in 1 .. Len(e.undo)
        PROVE  PlainScript(e.undo[k].edits) /\ PlainScript(e.undo[k].inverse)
    <3>1. k + i \in 1 .. Len(d.undo) /\ e.undo[k] = d.undo[k + i]
      BY <1>4, <1>5
    <3> QED
      BY <1>4, <3>1 DEF PlainStack
  <2> QED
    BY <2>1 DEF PlainStack
<1>7. PlainDoc(e)
  BY <1>2, <1>6 DEF PlainDoc, Sound
<1> QED
  BY <1>2, <1>7 DEF Sound, e

LEMMA PlainGrows ==
    ASSUME NEW stack \in Seq(Entry), NEW x \in Entry, PlainStack(stack),
           PlainScript(x.edits), PlainScript(x.inverse)
    PROVE  PlainStack(Append(stack, x))
<1> DEFINE longer == Append(stack, x)
           n == Len(stack)
<1>1. n \in Nat /\ Len(longer) = n + 1 /\ longer[n + 1] = x /\ \A k \in 1 .. n : longer[k] = stack[k]
  OBVIOUS
<1>2. \A k \in 1 .. n : PlainScript(stack[k].edits) /\ PlainScript(stack[k].inverse)
  BY DEF PlainStack
<1> HIDE DEF longer, n
<1>3. \A k \in 1 .. n + 1 : k \in 1 .. n \/ k = n + 1
  BY <1>1
<1>4. PlainStack(longer)
  BY <1>1, <1>2, <1>3 DEF PlainStack
<1> QED
  BY <1>4 DEF longer

LEMMA FrontAt ==
    ASSUME NEW stack \in Seq(Entry), stack # << >>
    PROVE  /\ Len(Front(stack)) = Len(stack) - 1
           /\ \A k \in 1 .. Len(stack) - 1 : Front(stack)[k] = stack[k]
<1> DEFINE n == Len(stack) - 1
           i == 1
<1>1. n \in Nat /\ Len(stack) = n + 1
  OBVIOUS
<1>2. Front(stack) = SubSeq(stack, i, n)
  BY DEF Front
<1>3. i \in Int /\ n \in Int /\ \A k \in i .. n : stack[k] \in Entry
  BY <1>1
<1>4. (i <= n \/ n = 0) /\ n - i + 1 = n /\ \A k \in 1 .. n : i + k - 1 = k
  BY <1>1
<1> HIDE DEF n, i
<1>5. /\ Len(SubSeq(stack, i, n)) = IF i <= n THEN n - i + 1 ELSE 0
      /\ \A k \in 1 .. n - i + 1 : SubSeq(stack, i, n)[k] = stack[i + k - 1]
  BY <1>3, SubSeqProperties
<1> QED
  BY <1>1, <1>2, <1>4, <1>5 DEF n

LEMMA PlainPops ==
    ASSUME NEW stack \in Seq(Entry), stack # << >>, PlainStack(stack)
    PROVE  /\ PlainStack(Front(stack))
           /\ PlainScript(Last(stack).edits) /\ PlainScript(Last(stack).inverse)
<1> DEFINE n == Len(stack)
           shorter == Front(stack)
<1>1. n \in Nat \ {0}
  OBVIOUS
<1>2. Len(shorter) = n - 1 /\ \A k \in 1 .. n - 1 : shorter[k] = stack[k]
  BY FrontAt
<1>3. Last(stack) = stack[n]
  BY DEF Last
<1>4. \A k \in 1 .. n : PlainScript(stack[k].edits) /\ PlainScript(stack[k].inverse)
  BY DEF PlainStack
<1> HIDE DEF shorter, n
<1>5. n \in 1 .. n /\ \A k \in 1 .. n - 1 : k \in 1 .. n
  BY <1>1
<1>6. PlainStack(shorter)
  BY <1>2, <1>4, <1>5 DEF PlainStack
<1> QED
  BY <1>3, <1>4, <1>5, <1>6 DEF shorter

LEMMA AppliedSound ==
    ASSUME NEW d, Sound(d), NEW tx \in Transaction, PlainScript(tx.edits), Accepts(d, tx)
    PROVE  LET e == Applied(d, tx, NoContext) IN
           /\ Sound(e) /\ e.revision = d.revision + 1
           /\ e.text = ApplyEdits(d.text, tx.edits)
           /\ Tidy(d.text, tx.edits)
<1> DEFINE entry == [kind |-> tx.kind, edits |-> tx.edits,
                     inverse |-> InverseOf(d.text, tx.edits),
                     charge |-> Charge(tx.edits), context |-> NoContext]
           u == ApplyEdits(d.text, tx.edits)
           f == Entered(d, tx, NoContext)
<1>1. PICK bottom \in Text : Stacked(d, bottom)
  BY DEF Sound
<1>2. /\ d.text \in Text /\ Plain(d.text) /\ d.undo \in Seq(Entry) /\ PlainStack(d.undo)
      /\ tx.edits \in Script /\ tx.kind \in Kind /\ ValidEdits(d.text, tx.edits)
  BY <1>1 DEF Stacked, IsDoc, Transaction, Accepts, Sound, PlainDoc
<1>3. Tidy(d.text, tx.edits)
  BY <1>2, ValidTidy
<1>4. NoContext \in Context
  BY DEF Context
<1>5. Stacked(f, bottom)
  BY <1>1, <1>4, EnteredStacked
<1>6. ~ Coalesces(Last(d.undo), tx, NoContext)
  BY DEF Coalesces, CoalescibleTyping
<1>7. f = [d EXCEPT !.text = u, !.revision = @ + 1, !.redo = << >>,
                    !.undoBytes = @ + Charge(tx.edits), !.undo = Append(@, entry),
                    !.groupOpen = CoalescibleTyping(tx, NoContext)]
  BY <1>6 DEF Entered
<1>8. entry \in Entry
  <2>1. InverseOf(d.text, tx.edits) \in Script /\ Charge(tx.edits) \in Nat
    BY <1>2, ValidReturns, ChargeNat
  <2> QED
    BY <1>2, <1>4, <2>1 DEF Entry
<1>9. PlainScript(entry.edits) /\ PlainScript(entry.inverse)
  BY <1>2, <1>3, InversePlain
<1> HIDE DEF entry, u
<1>10. PlainStack(Append(d.undo, entry))
  BY <1>2, <1>8, <1>9, PlainGrows
<1>11. u \in Text /\ Plain(u)
  BY <1>2, <1>3, ApplyPlain DEF u
<1> HIDE DEF f
<1>12. f.text = u /\ f.revision = d.revision + 1 /\ f.redo = << >> /\ f.undo = Append(d.undo, entry)
  BY <1>1, <1>7 DEF Stacked, IsDoc
<1>13. PlainStack(<< >>)
  BY DEF PlainStack
<1>14. Sound(f)
  BY <1>5, <1>10, <1>11, <1>12, <1>13 DEF Sound, PlainDoc
<1>15. Applied(d, tx, NoContext) = EnforceUndoBudget(f)
  BY DEF Applied, f
<1> QED
  BY <1>3, <1>12, <1>14, <1>15, EnforcedSound DEF u

LEMMA UndoneSound ==
    ASSUME NEW d, Sound(d), CanUndo(d)
    PROVE  LET back == Last(d.undo).inverse IN
           /\ Sound(Undone(d)) /\ Undone(d).revision = d.revision + 1
           /\ back \in Script /\ Tidy(d.text, back)
           /\ Undone(d).text = ApplyEdits(d.text, back)
<1> DEFINE x == Last(d.undo)
           e == Undone(d)
<1>1. PICK bottom \in Text : Stacked(d, bottom)
  BY DEF Sound
<1>2. /\ d.text \in Text /\ Plain(d.text) /\ d.undo \in Seq(Entry) /\ d.redo \in Seq(Entry)
      /\ PlainStack(d.undo) /\ PlainStack(d.redo) /\ d.undo # << >>
  BY <1>1 DEF Stacked, IsDoc, Sound, PlainDoc, CanUndo
<1>3. x \in Entry
  BY <1>2, FrontAndLast
<1>4. PICK t \in Text : Held(Front(d.undo), bottom, t) /\ Leads(x, t, d.text)
  BY <1>1, <1>2, HeldPops DEF Stacked
<1>5. x.inverse \in Script /\ Tidy(d.text, x.inverse)
  <2>1. Tidy(t, x.edits) /\ x.edits \in Script
    BY <1>3, <1>4, ValidTidy DEF Leads, Entry
  <2>2. Returns(t, x.edits)
    BY <2>1, TakenBack
  <2> QED
    BY <1>4, <2>2 DEF Returns, Leads
<1>6. /\ PlainStack(Front(d.undo)) /\ PlainScript(x.edits) /\ PlainScript(x.inverse)
  BY <1>2, PlainPops
<1> HIDE DEF x
<1>7. PlainStack(Append(d.redo, x))
  BY <1>2, <1>3, <1>6, PlainGrows
<1>8. Stacked(e, bottom)
  BY <1>1, UndoneStacked
<1>9. e = [d EXCEPT !.text = ApplyEdits(@, x.inverse), !.revision = @ + 1, !.undo = Front(@),
                    !.undoBytes = @ - x.charge, !.redo = Append(@, x), !.groupOpen = FALSE]
  BY DEF Undone, x
<1> HIDE DEF e
<1>10. /\ e.text = ApplyEdits(d.text, x.inverse) /\ e.revision = d.revision + 1
       /\ e.undo = Front(d.undo) /\ e.redo = Append(d.redo, x)
  BY <1>1, <1>9 DEF Stacked, IsDoc
<1>11. Plain(e.text)
  BY <1>2, <1>5, <1>6, <1>10, ApplyPlain
<1>12. Sound(e)
  BY <1>6, <1>7, <1>8, <1>10, <1>11 DEF Sound, PlainDoc
<1> QED
  BY <1>5, <1>10, <1>12 DEF x, e

LEMMA RedoneSound ==
    ASSUME NEW d, Sound(d), CanRedo(d)
    PROVE  LET edits == Last(d.redo).edits IN
           /\ Sound(Redone(d)) /\ Redone(d).revision = d.revision + 1
           /\ edits \in Script /\ Tidy(d.text, edits)
           /\ Redone(d).text = ApplyEdits(d.text, edits)
<1> DEFINE x == Last(d.redo)
           e == Reentered(d)
<1>1. PICK bottom \in Text : Stacked(d, bottom)
  BY DEF Sound
<1>2. /\ d.text \in Text /\ Plain(d.text) /\ d.undo \in Seq(Entry) /\ d.redo \in Seq(Entry)
      /\ PlainStack(d.undo) /\ PlainStack(d.redo) /\ d.redo # << >>
  BY <1>1 DEF Stacked, IsDoc, Sound, PlainDoc, CanRedo
<1>3. x \in Entry
  BY <1>2, FrontAndLast
<1>4. PICK u \in Text : Waiting(Front(d.redo), u) /\ Leads(x, d.text, u)
  BY <1>1, <1>2, WaitingPops DEF Stacked
<1>5. x.edits \in Script /\ Tidy(d.text, x.edits)
  BY <1>2, <1>3, <1>4, ValidTidy DEF Leads, Entry
<1>6. /\ PlainStack(Front(d.redo)) /\ PlainScript(x.edits) /\ PlainScript(x.inverse)
  BY <1>2, PlainPops
<1> HIDE DEF x
<1>7. PlainStack(Append(d.undo, x))
  BY <1>2, <1>3, <1>6, PlainGrows
<1>8. Stacked(e, bottom)
  BY <1>1, ReenteredStacked
<1>9. e = [d EXCEPT !.text = ApplyEdits(@, x.edits), !.revision = @ + 1, !.redo = Front(@),
                    !.undo = Append(@, x), !.undoBytes = @ + x.charge, !.groupOpen = FALSE]
  BY DEF Reentered, x
<1> HIDE DEF e
<1>10. /\ e.text = ApplyEdits(d.text, x.edits) /\ e.revision = d.revision + 1
       /\ e.redo = Front(d.redo) /\ e.undo = Append(d.undo, x)
  BY <1>1, <1>9 DEF Stacked, IsDoc
<1>11. Plain(e.text)
  BY <1>2, <1>5, <1>6, <1>10, ApplyPlain
<1>12. Sound(e)
  BY <1>6, <1>7, <1>8, <1>10, <1>11 DEF Sound, PlainDoc
<1>13. Redone(d) = EnforceUndoBudget(e)
  BY DEF Redone, e
<1> QED
  BY <1>5, <1>10, <1>12, <1>13, EnforcedSound DEF x

-----------------------------------------------------------------------------
(* Searching and replacing *)

\* AllMatches goes past byte k - 1, with the matches it has kept.
Kept(text, q, kept, k) ==
    IF /\ k - 1 \in Accepted(text, q)
       /\ kept = << >> \/ Last(kept).to <= k - 1
      THEN Append(kept, Match(q, k - 1)) ELSE kept

\* The matches found while the text is searched.
Matched(T, n, text, q) ==
    /\ T[0] = << >> /\ AllMatches(text, q) = T[n]
    /\ \A k \in 1 .. n : T[k] = Kept(text, q, T[k - 1], k)

LEMMA MatchesUnfold ==
    ASSUME NEW text, NEW q, NEW n \in Nat, n = Len(text) + 1
    PROVE  \E T : Matched(T, n, text, q)
<1> DEFINE R(it, m) == it = [k \in 0 .. m |-> IF k = 0 THEN << >>
                                               ELSE Kept(text, q, it[k - 1], k)]
           G == {m \in 0 .. n : \E it : R(it, m)}
<1>1. 0 \in G
  <2> DEFINE it == [k \in 0 .. 0 |-> << >>]
  <2>1. R(it, 0)
    OBVIOUS
  <2> HIDE DEF it
  <2> QED
    BY <2>1
<1>2. ASSUME NEW m \in 1 .. n, m - 1 \in G PROVE m \in G
  <2> DEFINE Step(T) == [k \in 0 .. m |-> IF k = 0 THEN << >> ELSE Kept(text, q, T[k - 1], k)]
  <2>1. PICK T : T = [k \in 0 .. m - 1 |-> IF k = 0 THEN << >> ELSE Kept(text, q, T[k - 1], k)]
    BY <1>2
  <2>2. ASSUME NEW k \in 0 .. m, k # 0 PROVE Step(T)[k - 1] = T[k - 1]
    <3>1. k - 1 \in 0 .. m /\ k - 1 \in 0 .. m - 1
      BY <2>2
    <3>2. T[k - 1] = IF k - 1 = 0 THEN << >> ELSE Kept(text, q, T[k - 1 - 1], (k - 1))
      BY <2>1, <3>1
    <3>3. Step(T)[k - 1] = IF k - 1 = 0 THEN << >> ELSE Kept(text, q, T[k - 1 - 1], (k - 1))
      BY <3>1
    <3> QED
      BY <3>2, <3>3
  <2> DEFINE next == Step(T)
  <2>3. R(next, m)
    BY <2>2
  <2>4. m \in 0 .. n
    OBVIOUS
  <2> HIDE DEF next
  <2> QED
    BY <2>3, <2>4
<1> HIDE DEF G
<1>3. n \in G
  <2>1. \A m \in 0 .. n : m \in G
    BY <1>1, <1>2, Climb
  <2> QED
    BY <2>1
<1>4. \E it : R(it, n)
  BY <1>3 DEF G
<1>5. R(CHOOSE it : R(it, n), n)
  BY <1>4, Zenon
<1>6. AllMatches(text, q) = (CHOOSE it : R(it, n))[n]
  BY DEF AllMatches, Kept
<1> DEFINE S == CHOOSE it : R(it, n)
<1>7. R(S, n)
  BY <1>5
<1> HIDE DEF S
<1>8. S[0] = << >> /\ \A k \in 1 .. n : S[k] = Kept(text, q, S[k - 1], k)
  <2>1. ASSUME NEW k \in 1 .. n PROVE S[k] = Kept(text, q, S[k - 1], k)
    <3>1. k \in 0 .. n /\ k # 0
      OBVIOUS
    <3> QED
      BY <1>7, <3>1
  <2>2. 0 \in 0 .. n
    OBVIOUS
  <2> QED
    BY <1>7, <2>1, <2>2
<1>9. Matched(S, n, text, q)
  <2>1. AllMatches(text, q) = S[n]
    BY <1>6 DEF S
  <2> QED
    BY <1>8, <2>1 DEF Matched
<1> QED
  BY <1>9

\* The plans while replace_all goes through the edits.
PlannedAll(T, n, text, q, word) ==
    /\ T[0] = [plans |-> << >>, chunk |-> << >>, committed |-> 0]
    /\ ReplaceAllPlans(text, q, word) =
         (IF T[n].chunk = << >> THEN << >> ELSE Flush(T[n]).plans)
    /\ \A k \in 1 .. n : T[k] = Planned(T[k - 1], Replacing(text, q, word)[k])

LEMMA PlansAccumulate ==
    ASSUME NEW text, NEW q, NEW word, NEW n \in Nat, Len(Replacing(text, q, word)) = n
    PROVE  \E T : PlannedAll(T, n, text, q, word)
<1> DEFINE R(it, m) == it = [k \in 0 .. m |-> IF k = 0 THEN [plans |-> << >>, chunk |-> << >>, committed |-> 0]
                                               ELSE Planned(it[k - 1], Replacing(text, q, word)[k])]
           G == {m \in 0 .. n : \E it : R(it, m)}
<1>1. 0 \in G
  <2> DEFINE it == [k \in 0 .. 0 |-> [plans |-> << >>, chunk |-> << >>, committed |-> 0]]
  <2>1. R(it, 0)
    OBVIOUS
  <2> HIDE DEF it
  <2> QED
    BY <2>1
<1>2. ASSUME NEW m \in 1 .. n, m - 1 \in G PROVE m \in G
  <2> DEFINE Step(T) == [k \in 0 .. m |-> IF k = 0 THEN [plans |-> << >>, chunk |-> << >>, committed |-> 0]
                                          ELSE Planned(T[k - 1], Replacing(text, q, word)[k])]
  <2>1. PICK T : T = [k \in 0 .. m - 1 |-> IF k = 0 THEN [plans |-> << >>, chunk |-> << >>, committed |-> 0]
                                           ELSE Planned(T[k - 1], Replacing(text, q, word)[k])]
    BY <1>2
  <2>2. ASSUME NEW k \in 0 .. m, k # 0 PROVE Step(T)[k - 1] = T[k - 1]
    <3>1. k - 1 \in 0 .. m /\ k - 1 \in 0 .. m - 1
      BY <2>2
    <3>2. T[k - 1] = IF k - 1 = 0 THEN [plans |-> << >>, chunk |-> << >>, committed |-> 0]
                     ELSE Planned(T[k - 1 - 1], Replacing(text, q, word)[(k - 1)])
      BY <2>1, <3>1
    <3>3. Step(T)[k - 1] = IF k - 1 = 0 THEN [plans |-> << >>, chunk |-> << >>, committed |-> 0]
                           ELSE Planned(T[k - 1 - 1], Replacing(text, q, word)[(k - 1)])
      BY <3>1
    <3> QED
      BY <3>2, <3>3
  <2> DEFINE next == Step(T)
  <2>3. R(next, m)
    BY <2>2
  <2>4. m \in 0 .. n
    OBVIOUS
  <2> HIDE DEF next
  <2> QED
    BY <2>3, <2>4
<1> HIDE DEF G
<1>3. n \in G
  <2>1. \A m \in 0 .. n : m \in G
    BY <1>1, <1>2, Climb
  <2> QED
    BY <2>1
<1>4. \E it : R(it, n)
  BY <1>3 DEF G
<1>5. R(CHOOSE it : R(it, n), n)
  BY <1>4, Zenon
<1>6. ReplaceAllPlans(text, q, word) =
        (IF (CHOOSE it : R(it, n))[n].chunk = << >> THEN << >>
         ELSE Flush((CHOOSE it : R(it, n))[n]).plans)
  BY DEF ReplaceAllPlans
<1> DEFINE S == CHOOSE it : R(it, n)
<1>7. R(S, n)
  BY <1>5
<1> HIDE DEF S
<1>8. /\ S[0] = [plans |-> << >>, chunk |-> << >>, committed |-> 0]
      /\ \A k \in 1 .. n : S[k] = Planned(S[k - 1], Replacing(text, q, word)[k])
  <2>1. ASSUME NEW k \in 1 .. n PROVE S[k] = Planned(S[k - 1], Replacing(text, q, word)[k])
    <3>1. k \in 0 .. n /\ k # 0
      OBVIOUS
    <3> QED
      BY <1>7, <3>1
  <2>2. 0 \in 0 .. n
    OBVIOUS
  <2> QED
    BY <1>7, <2>1, <2>2
<1>9. PlannedAll(S, n, text, q, word)
  <2>1. ReplaceAllPlans(text, q, word) = (IF S[n].chunk = << >> THEN << >> ELSE Flush(S[n]).plans)
    BY <1>6 DEF S
  <2> QED
    BY <1>8, <2>1 DEF PlannedAll
<1> QED
  BY <1>9

\* Where a match is, or that there is none.
Found == {None} \cup {m \in [from : Nat, to : Nat] : m.from <= m.to}

LEMMA AcceptedIn ==
    ASSUME NEW t \in Text, NEW q \in Queries
    PROVE  /\ Len(q.pattern) \in Nat /\ Len(t) \in Nat
           /\ \A i \in Accepted(t, q) : /\ i \in 0 .. Len(t) /\ i + Len(q.pattern) <= Len(t)
                                        /\ Match(q, i) \in Found
<1>1. Len(q.pattern) \in Nat /\ Len(t) \in Nat
  <2>1. q.pattern \in Seq(ToSet(q.pattern))
    BY EditorAssumption
  <2> QED
    BY <2>1 DEF Text
<1>2. ASSUME NEW i \in Accepted(t, q)
      PROVE  i \in 0 .. Len(t) /\ i + Len(q.pattern) <= Len(t)
  BY DEF Accepted, Occurrences, Boundaries
<1>3. ASSUME NEW i \in Accepted(t, q) PROVE Match(q, i) \in Found
  <2>1. i \in Nat /\ i + Len(q.pattern) \in Nat /\ i <= i + Len(q.pattern)
    BY <1>1, <1>2
  <2> QED
    BY <2>1 DEF Match, Found
<1> QED
  BY <1>1, <1>2, <1>3

LEMMA ForwardFound ==
    ASSUME NEW t \in Text, NEW q \in Queries, NEW start
    PROVE  SearchForward(t, q, start) \in Found
<1> DEFINE S == {i \in Accepted(t, q) : i >= start}
<1>1. /\ Len(t) \in Nat /\ S \subseteq 0 .. Len(t)
      /\ \A i \in S : i \in Accepted(t, q) /\ Match(q, i) \in Found
  BY AcceptedIn
<1>2. SearchForward(t, q, start) = IF S = {} THEN None ELSE Match(q, Min(S))
  BY DEF SearchForward
<1> HIDE DEF S
<1>3. S # {} => Min(S) \in S
  BY <1>1, EndsIn
<1> QED
  BY <1>1, <1>2, <1>3 DEF Found

LEMMA BackwardFound ==
    ASSUME NEW t \in Text, NEW q \in Queries, NEW limit
    PROVE  SearchBackward(t, q, limit) \in Found
<1> DEFINE C == IF q.caseSensitive THEN FromTheRight(t, q) ELSE Occurrences(t, q)
           S == {i \in C \cap Accepted(t, q) : i < limit}
<1>1. SearchBackward(t, q, limit) = IF S = {} THEN None ELSE Match(q, Max(S))
  BY DEF SearchBackward
<1> HIDE DEF C
<1>2. /\ Len(t) \in Nat /\ S \subseteq 0 .. Len(t)
      /\ \A i \in S : Match(q, i) \in Found
  BY AcceptedIn
<1> HIDE DEF S
<1>3. S # {} => Max(S) \in S
  BY <1>2, EndsIn
<1> QED
  BY <1>1, <1>2, <1>3 DEF Found

LEMMA NextFound ==
    ASSUME NEW t \in Text, NEW q \in Queries, NEW from, NEW forward, NEW wrap
    PROVE  FindNext(t, q, from, forward, wrap) \in Found
BY ForwardFound, BackwardFound DEF FindNext

\* The matches do not overlap.
LEMMA MatchesOrdered ==
    ASSUME NEW t \in Text, NEW q \in Queries
    PROVE  LET found == AllMatches(t, q) IN
           /\ found \in Seq({Match(q, i) : i \in Accepted(t, q)})
           /\ \A j \in 2 .. Len(found) : found[j - 1].to <= found[j].from
<1> DEFINE n == Len(t) + 1
           M == {Match(q, i) : i \in Accepted(t, q)}
           none == << >>
<1>1. n \in Nat /\ n = Len(t) + 1
  BY DEF Text
<1> HIDE DEF n
<1>2. PICK T : Matched(T, n, t, q)
  BY <1>1, MatchesUnfold
<1>3. /\ T[0] = none /\ AllMatches(t, q) = T[n]
      /\ \A k \in 1 .. n : T[k] = Kept(t, q, T[k - 1], k)
  BY <1>2 DEF Matched
<1> DEFINE Good(s) == s \in Seq(M) /\ \A j \in 2 .. Len(s) : s[j - 1].to <= s[j].from
           G == {k \in 0 .. n : Good(T[k])}
<1>4. 0 \in G
  <2>1. none \in Seq(M) /\ \A j \in 2 .. Len(none) : FALSE
    BY DEF none
  <2>2. Good(none)
    <3> HIDE DEF none, M
    <3> QED
      BY <2>1
  <2> HIDE DEF Good, none
  <2> QED
    BY <1>1, <1>3, <2>2
<1>5. ASSUME NEW k \in 1 .. n, k - 1 \in G PROVE k \in G
  <2> DEFINE s == T[k - 1]
             m == Match(q, k - 1)
             longer == Append(s, m)
             l == Len(s)
  <2>1. Good(s) /\ k \in 0 .. n
    BY <1>1, <1>5
  <2>2. T[k] = IF k - 1 \in Accepted(t, q) /\ (s = << >> \/ Last(s).to <= k - 1)
                 THEN longer ELSE s
    BY <1>3 DEF Kept
  <2>3. ASSUME k - 1 \in Accepted(t, q), s = << >> \/ Last(s).to <= k - 1
        PROVE  Good(longer)
    <3>1. m \in M /\ m.from = k - 1
      BY <2>3 DEF Match
    <3> HIDE DEF m, M, s, l
    <3>2. s \in Seq(M)
      BY <2>1
    <3>3. l \in Nat /\ l = Len(s)
      BY <3>2 DEF l
    <3>4. /\ longer \in Seq(M) /\ Len(longer) = l + 1 /\ longer[l + 1] = m
          /\ \A j \in 1 .. l : longer[j] = s[j]
      BY <3>1, <3>2 DEF l
    <3> HIDE DEF longer
    <3>5. ASSUME NEW j \in 2 .. l + 1 PROVE longer[j - 1].to <= longer[j].from
      <4>1. CASE j = l + 1
        <5>1. j - 1 = l /\ l \in 1 .. l /\ s # << >>
          BY <3>3, <4>1
        <5>2. longer[j - 1] = s[l] /\ s[l] = Last(s)
          BY <3>3, <3>4, <5>1 DEF Last
        <5> QED
          BY <2>3, <3>1, <3>4, <4>1, <5>1, <5>2
      <4>2. CASE j # l + 1
        <5>1. j \in 2 .. l /\ j \in 1 .. l /\ j - 1 \in 1 .. l
          BY <3>3, <4>2
        <5> QED
          BY <2>1, <3>3, <3>4, <5>1
      <4> QED
        BY <4>1, <4>2
    <3> QED
      BY <3>4, <3>5
  <2> HIDE DEF s, longer, Good
  <2>4. Good(T[k])
    BY <2>1, <2>2, <2>3
  <2> QED
    BY <2>1, <2>4
<1> HIDE DEF G
<1>6. n \in G
  <2>1. \A k \in 0 .. n : k \in G
    BY <1>1, <1>4, <1>5, Climb
  <2> QED
    BY <1>1, <2>1
<1>7. Good(T[n])
  BY <1>6 DEF G
<1> QED
  BY <1>3, <1>7

\* Replacing every match is a tidy list of edits.
LEMMA ReplacingTidy ==
    ASSUME NEW t \in Text, NEW q \in Queries, NEW word \in Text
    PROVE  LET edits == Replacing(t, q, word) IN
           /\ edits \in Script /\ Tidy(t, edits)
           /\ \A k \in 1 .. Len(edits) : edits[k].with = word
<1> DEFINE found == AllMatches(t, q)
           edits == Replacing(t, q, word)
           n == Len(found)
           M == {Match(q, i) : i \in Accepted(t, q)}
<1>1. found \in Seq(M) /\ \A j \in 2 .. n : found[j - 1].to <= found[j].from
  BY MatchesOrdered
<1>2. n \in Nat /\ DOMAIN found = 1 .. n /\ \A k \in 1 .. n : found[k] \in M
  <2> HIDE DEF M, found
  <2> QED
    BY <1>1
<1>3. edits = [k \in 1 .. n |-> [from |-> found[k].from, to |-> found[k].to, with |-> word]]
  BY <1>2 DEF Replacing
<1>4. ASSUME NEW m \in M
      PROVE  m.from \in Nat /\ m.to \in Nat /\ m.from <= m.to /\ m.to <= Len(t)
  <2>1. PICK i \in Accepted(t, q) : m = Match(q, i)
    OBVIOUS
  <2>2. /\ Len(q.pattern) \in Nat /\ Len(t) \in Nat
        /\ i \in 0 .. Len(t) /\ i + Len(q.pattern) <= Len(t)
    BY AcceptedIn
  <2> QED
    BY <2>1, <2>2 DEF Match
<1> HIDE DEF M, found, edits, n
<1>5. /\ Len(edits) = n
      /\ \A k \in 1 .. n : /\ edits[k].from = found[k].from /\ edits[k].to = found[k].to
                           /\ edits[k].with = word
                           /\ edits[k] \in Edit /\ Fits(t, edits[k])
  <2>1. ASSUME NEW k \in 1 .. n
        PROVE  /\ edits[k].from = found[k].from /\ edits[k].to = found[k].to
               /\ edits[k].with = word
               /\ edits[k] \in Edit /\ Fits(t, edits[k])
    <3>1. edits[k] = [from |-> found[k].from, to |-> found[k].to, with |-> word]
      BY <1>3
    <3>2. found[k] \in M
      BY <1>2
    <3> QED
      BY <1>4, <3>1, <3>2 DEF Edit, Fits
  <2> QED
    BY <1>2, <1>3, <2>1
<1>6. edits \in Script
  BY <1>2, <1>3, <1>5 DEF Script
<1>7. \A k \in 2 .. n : edits[k - 1].to <= edits[k].from
  <2> TAKE k \in 2 .. n
  <2>1. k \in 1 .. n /\ k - 1 \in 1 .. n
    BY <1>2
  <2> QED
    BY <1>1, <1>5, <2>1
<1>8. Tidy(t, edits)
  BY <1>5, <1>6, <1>7, Ordered
<1> QED
  BY <1>5, <1>6, <1>8 DEF edits

-----------------------------------------------------------------------------
(* Plans made one after the other *)

LEMMA MovedAppend ==
    ASSUME NEW rest \in Script, NEW e \in Edit, NEW by \in Int
    PROVE  /\ Moved(<< >>, by) = << >>
           /\ Moved(Append(rest, e), by) = Append(Moved(rest, by), Shifted(e, by))
<1> DEFINE n == Len(rest)
           edits == Append(rest, e)
           m == n + 1
<1>1. /\ n \in Nat /\ DOMAIN rest = 1 .. n /\ DOMAIN edits = 1 .. m /\ m \in Nat
      /\ edits[m] = e /\ \A k \in 1 .. n : edits[k] = rest[k]
      /\ \A k \in 1 .. n : rest[k] \in Edit
  BY DEF Script
<1>2. ASSUME NEW f \in Edit PROVE [f EXCEPT !.from = @ + by, !.to = @ + by] = Shifted(f, by)
  <2>1. f = [from |-> f.from, to |-> f.to, with |-> f.with]
    BY DEF Edit
  <2> DEFINE a == f.from + by
             b == f.to + by
             g == [f EXCEPT !.from = a, !.to = b]
  <2>2. a \in Int /\ b \in Int /\ f \in [from : Nat, to : Nat, with : Text]
    BY DEF Edit
  <2> HIDE DEF a, b
  <2>3. g \in [from : Int, to : Int, with : Text] /\ g.from = a /\ g.to = b /\ g.with = f.with
    BY <2>2
  <2> HIDE DEF g
  <2>4. g = [from |-> a, to |-> b, with |-> f.with]
    BY <2>3
  <2> QED
    BY <2>4 DEF Shifted, g, a, b
<1> HIDE DEF edits
<1>3. Moved(rest, by) = [k \in 1 .. n |-> Shifted(rest[k], by)]
  BY <1>1, <1>2 DEF Moved
<1>4. Moved(edits, by) = [k \in 1 .. m |-> Shifted(edits[k], by)]
  <2>1. ASSUME NEW k \in 1 .. m PROVE edits[k] \in Edit
    <3>1. k \in 1 .. n \/ k = m
      BY <1>1
    <3> QED
      BY <1>1, <3>1
  <2> QED
    BY <1>1, <1>2, <2>1 DEF Moved
<1>5. Append(Moved(rest, by), Shifted(e, by)) = [k \in 1 .. m |-> Shifted(edits[k], by)]
  <2> DEFINE one == [k \in 1 .. n |-> Shifted(rest[k], by)]
             S == {Shifted(f, by) : f \in Edit}
             all == [k \in 1 .. m |-> Shifted(edits[k], by)]
  <2>1. one \in Seq(S) /\ Len(one) = n /\ \A k \in 1 .. n : one[k] = Shifted(rest[k], by)
    BY <1>1
  <2>2. ASSUME NEW k \in 1 .. m PROVE edits[k] \in Edit
    <3>1. k \in 1 .. n \/ k = m
      BY <1>1
    <3> QED
      BY <1>1, <3>1
  <2>3. all \in Seq(S) /\ Len(all) = m /\ \A k \in 1 .. m : all[k] = Shifted(edits[k], by)
    BY <1>1, <2>2
  <2>4. Shifted(e, by) \in S
    OBVIOUS
  <2> DEFINE longer == Append(one, Shifted(e, by))
  <2> HIDE DEF one, S, all
  <2>5. /\ longer \in Seq(S) /\ Len(longer) = n + 1 /\ longer[n + 1] = Shifted(e, by)
        /\ \A k \in 1 .. n : longer[k] = one[k]
    BY <2>1, <2>4
  <2> HIDE DEF longer
  <2>6. ASSUME NEW k \in 1 .. m PROVE longer[k] = all[k]
    <3>1. k \in 1 .. n \/ k = m
      BY <1>1
    <3> QED
      BY <1>1, <2>1, <2>3, <2>5, <3>1
  <2>7. longer = all
    <3>1. Len(longer) = Len(all) /\ \A k \in 1 .. Len(longer) : longer[k] = all[k]
      BY <2>3, <2>5, <2>6
    <3> QED
      BY <2>3, <2>5, <3>1, SeqEqual
  <2> QED
    BY <1>3, <2>7 DEF longer, one, all
<1>6. Moved(<< >>, by) = << >>
  BY DEF Moved
<1> QED
  BY <1>4, <1>5, <1>6 DEF edits

\* One list and then the next, moved by what the first adds, is both.
Joins(t, F, C) ==
    LET s == Sum(Delta, F)
        u == ApplyEdits(t, F)
    IN  /\ Tidy(t, F)
        /\ Moved(C, s) \in Script /\ Tidy(u, Moved(C, s))
        /\ ApplyEdits(u, Moved(C, s)) = ApplyEdits(t, F \o C)

LEMMA JoinsNone ==
    ASSUME NEW t, NEW F \in Script, Tidy(t, F)
    PROVE  Joins(t, F, << >>)
<1> DEFINE none == << >>
           s == Sum(Delta, F)
           u == ApplyEdits(t, F)
<1>1. none \in Script
  BY DEF Script
<1>2. F \o none = F
  BY ConcatEmptySeq DEF Script
<1>3. Moved(none, s) = none
  <2> DEFINE e == [from |-> 0, to |-> 0, with |-> << >>]
  <2>1. e \in Edit
    BY TextsGiven DEF Edit
  <2> HIDE DEF e
  <2>2. s \in Int
    BY <2>1, GainAppend
  <2> HIDE DEF s
  <2> QED
    BY <1>1, <2>1, <2>2, MovedAppend
<1>4. Tidy(u, none)
  BY <1>1 DEF Tidy
<1>5. ApplyEdits(u, none) = u
  BY ApplyNone
<1> HIDE DEF none, s, u
<1>6. ApplyEdits(u, Moved(none, s)) = ApplyEdits(t, F \o none)
  BY <1>2, <1>3, <1>5 DEF u
<1>7. Joins(t, F, none)
  BY <1>1, <1>3, <1>4, <1>6 DEF Joins, s, u
<1> QED
  BY <1>7 DEF none

LEMMA JoinsMore ==
    ASSUME NEW t \in Text, NEW F \in Script, NEW R \in Script, NEW e \in Edit,
           Tidy(t, F \o Append(R, e)), \A v \in Text : Tidy(v, F \o R) => Joins(v, F, R)
    PROVE  Joins(t, F, Append(R, e))
<1> DEFINE s == Sum(Delta, F)
           u == ApplyEdits(t, F)
           v == Splice(t, e)
           C == Append(R, e)
           both == F \o R
           f == Shifted(e, s)
           M == Moved(R, s)
<1>1. both \in Script /\ F \o C = Append(both, e) /\ \A k \in 1 .. Len(R) : R[k] \in Edit
  <2>1. both \in Script
    BY ConcatProperties DEF Script
  <2>2. <<e>> \in Script /\ C = R \o <<e>> /\ Append(both, e) = both \o <<e>>
    <3> HIDE DEF both
    <3> QED
      BY <2>1, OneIsScript, AppendIsConcat DEF Script
  <2>3. (F \o R) \o <<e>> = F \o (R \o <<e>>)
    BY <2>2, ConcatAssociative DEF Script
  <2> QED
    BY <2>1, <2>2, <2>3 DEF Script
<1> HIDE DEF both, C
<1>2. Tidy(t, both) /\ Fits(t, e) /\ Before(both, e.from)
  <2>1. Tidy(t, Append(both, e))
    BY <1>1 DEF C
  <2> QED
    BY <1>1, <2>1, TidyAppend
<1>3. v \in Text /\ Tidy(v, both)
  BY <1>1, <1>2, TidyStays
<1>4. Joins(t, F, R) /\ Joins(v, F, R)
  BY <1>2, <1>3 DEF both
<1>5. Before(F, e.from) /\ Before(R, e.from)
  <2>1. /\ F \in Seq(Edit) /\ R \in Seq(Edit) /\ Len(F) \in Nat /\ Len(R) \in Nat
        /\ Len(both) = Len(F) + Len(R)
        /\ \A i \in 1 .. Len(F) + Len(R) : both[i] = IF i <= Len(F) THEN F[i] ELSE R[i - Len(F)]
    BY ConcatProperties DEF Script, both
  <2>2. ASSUME NEW k \in 1 .. Len(F) PROVE F[k].to <= e.from
    <3>1. k \in 1 .. Len(both) /\ k \in 1 .. Len(F) + Len(R) /\ k <= Len(F)
      BY <2>1
    <3>2. both[k] = F[k]
      BY <2>1, <3>1
    <3> QED
      BY <1>2, <3>1, <3>2 DEF Before
  <2>3. ASSUME NEW k \in 1 .. Len(R) PROVE R[k].to <= e.from
    <3> DEFINE i == Len(F) + k
    <3>1. i \in 1 .. Len(both) /\ i \in 1 .. Len(F) + Len(R) /\ ~ (i <= Len(F)) /\ i - Len(F) = k
      BY <2>1
    <3> HIDE DEF i
    <3>2. both[i] = R[k]
      BY <2>1, <3>1
    <3> QED
      BY <1>2, <3>1, <3>2 DEF Before
  <2> QED
    BY <2>2, <2>3 DEF Before
<1>6. Tidy(t, F) /\ M \in Script /\ Tidy(u, M)
  BY <1>4 DEF Joins
<1>7. u \in Text /\ f \in Edit /\ Fits(u, f) /\ ApplyEdits(v, F) = Splice(u, f)
  <2>1. Carries(t, F)
    BY <1>6, Carried
  <2> QED
    BY <1>2, <1>5, <2>1 DEF Carries
<1>8. Moved(C, s) = Append(M, f) /\ Append(M, f) \in Script
  <2>1. Moved(C, s) = Append(M, f)
    <3>1. s \in Int
      BY GainAppend
    <3> HIDE DEF s
    <3> QED
      BY <3>1, MovedAppend DEF C
  <2> HIDE DEF M, f
  <2> QED
    BY <1>6, <1>7, <2>1, Appending
<1>9. Before(M, f.from)
  <2>1. s \in Int
    <3>1. Sum(Delta, F) \in Int
      BY GainAppend
    <3> QED
      BY <3>1
  <2>2. M = [k \in DOMAIN R |-> [R[k] EXCEPT !.from = @ + s, !.to = @ + s]]
    BY DEF Moved
  <2>3. DOMAIN R = 1 .. Len(R) /\ Len(R) \in Nat
    BY DEF Script
  <2> HIDE DEF M
  <2>4. Len(M) = Len(R)
    <3>1. DOMAIN M = 1 .. Len(R)
      BY <2>2, <2>3
    <3>2. DOMAIN M = 1 .. Len(M) /\ Len(M) \in Nat
      BY <1>6 DEF Script
    <3> QED
      BY <2>3, <3>1, <3>2
  <2>5. f.from = e.from + s
    BY DEF Shifted
  <2> HIDE DEF s, f
  <2>6. ASSUME NEW k \in 1 .. Len(M) PROVE M[k].to <= f.from
    <3>1. M[k] = [R[k] EXCEPT !.from = @ + s, !.to = @ + s] /\ R[k] \in Edit /\ R[k].to <= e.from
      BY <1>1, <1>5, <2>2, <2>3, <2>4 DEF Before
    <3>2. M[k].to = R[k].to + s /\ R[k].to \in Nat /\ e.from \in Nat
      BY <3>1 DEF Edit
    <3> QED
      BY <2>1, <2>5, <3>1, <3>2
  <2> QED
    BY <2>6 DEF Before
<1>10. Tidy(u, Append(M, f))
  <2> HIDE DEF M, f, u
  <2> QED
    BY <1>6, <1>7, <1>9, TidyAppend
<1>11. ApplyEdits(u, Append(M, f)) = ApplyEdits(t, Append(both, e))
  <2>1. ApplyEdits(u, Append(M, f)) = ApplyEdits(Splice(u, f), M)
    <3> HIDE DEF M, f, u
    <3>1. M \in Seq(Edit)
      BY <1>6 DEF Script
    <3> QED
      BY <1>7, <3>1, ApplyAppend
  <2>2. ApplyEdits(ApplyEdits(v, F), M) = ApplyEdits(v, both)
    BY <1>4 DEF Joins, both
  <2>3. ApplyEdits(t, Append(both, e)) = ApplyEdits(v, both)
    <3>1. both \in Seq(Edit)
      BY <1>1 DEF Script
    <3> QED
      BY <3>1, ApplyAppend
  <2> HIDE DEF M, f, u, v
  <2> QED
    BY <1>7, <2>1, <2>2, <2>3
<1>12. Joins(t, F, C)
  <2> HIDE DEF M, f
  <2> QED
    BY <1>1, <1>6, <1>8, <1>10, <1>11 DEF Joins
<1> QED
  BY <1>12 DEF C

LEMMA Joined ==
    ASSUME NEW t \in Text, NEW F \in Script, NEW C \in Script, Tidy(t, F \o C)
    PROVE  Joins(t, F, C)
<1> DEFINE n == Len(C)
           G == {k \in 0 .. n : \A v \in Text, R \in Script :
                                   Len(R) = k /\ Tidy(v, F \o R) => Joins(v, F, R)}
<1>1. n \in Nat
  BY DEF Script
<1>2. 0 \in G
  <2>1. ASSUME NEW v \in Text, NEW R \in Script, Len(R) = 0, Tidy(v, F \o R)
        PROVE  Joins(v, F, R)
    <3>1. R = << >>
      BY <2>1 DEF Script
    <3>2. F \o << >> = F
      BY ConcatEmptySeq DEF Script
    <3> QED
      BY <2>1, <3>1, <3>2, JoinsNone
  <2> QED
    BY <1>1, <2>1
<1>3. ASSUME NEW k \in 1 .. n, k - 1 \in G PROVE k \in G
  <2>1. ASSUME NEW v \in Text, NEW R \in Script, Len(R) = k, Tidy(v, F \o R)
        PROVE  Joins(v, F, R)
    <3>1. PICK rest \in Script, e \in Edit : R = Append(rest, e) /\ Len(rest) = k - 1
      <4>1. R \in Script /\ Len(R) # 0
        BY <1>1, <2>1
      <4>2. \E rest \in Script, e \in Edit : R = Append(rest, e) /\ Len(rest) = Len(R) - 1
        BY <4>1, ScriptSplits
      <4> QED
        BY <2>1, <4>2
    <3>2. \A w \in Text : Tidy(w, F \o rest) => Joins(w, F, rest)
      BY <1>3, <3>1
    <3> QED
      BY <2>1, <3>1, <3>2, JoinsMore
  <2>2. k \in 0 .. n
    BY <1>1
  <2> QED
    BY <2>1, <2>2
<1> HIDE DEF G
<1>4. \A k \in 0 .. n : k \in G
  BY <1>1, <1>2, <1>3, Climb
<1>5. n \in G
  BY <1>1, <1>4
<1> QED
  BY <1>5 DEF G, n

LEMMA GainConcat ==
    ASSUME NEW F \in Script, NEW C \in Script
    PROVE  /\ Sum(Delta, F) \in Int /\ Sum(Delta, C) \in Int
           /\ Sum(Delta, F \o C) = Sum(Delta, F) + Sum(Delta, C)
<1> DEFINE n == Len(C)
           some == [from |-> 0, to |-> 0, with |-> << >>]
           G == {k \in 0 .. n : \A R \in Script :
                    Len(R) = k => Sum(Delta, F \o R) = Sum(Delta, F) + Sum(Delta, R)}
<1>1. n \in Nat /\ some \in Edit
  BY TextsGiven DEF Script, Edit
<1> HIDE DEF some
<1>2. Sum(Delta, F) \in Int /\ Sum(Delta, C) \in Int /\ Sum(Delta, << >>) = 0
  BY <1>1, GainAppend
<1>3. 0 \in G
  <2>1. ASSUME NEW R \in Script, Len(R) = 0
        PROVE  Sum(Delta, F \o R) = Sum(Delta, F) + Sum(Delta, R)
    <3>1. R = << >>
      BY <2>1 DEF Script
    <3>2. F \o << >> = F
      BY ConcatEmptySeq DEF Script
    <3> QED
      BY <1>2, <3>1, <3>2
  <2> QED
    BY <1>1, <2>1
<1>4. ASSUME NEW k \in 1 .. n, k - 1 \in G PROVE k \in G
  <2>1. ASSUME NEW R \in Script, Len(R) = k
        PROVE  Sum(Delta, F \o R) = Sum(Delta, F) + Sum(Delta, R)
    <3>1. PICK rest \in Script, e \in Edit : R = Append(rest, e) /\ Len(rest) = k - 1
      <4>1. R \in Script /\ Len(R) # 0
        BY <1>1, <2>1
      <4>2. \E rest \in Script, e \in Edit : R = Append(rest, e) /\ Len(rest) = Len(R) - 1
        BY <4>1, ScriptSplits
      <4> QED
        BY <2>1, <4>2
    <3> DEFINE both == F \o rest
    <3>2. both \in Script
      BY ConcatProperties DEF Script
    <3>3. F \o R = Append(both, e)
      <4>1. <<e>> \in Script /\ R = rest \o <<e>> /\ Append(both, e) = both \o <<e>>
        <5> HIDE DEF both
        <5> QED
          BY <3>1, <3>2, OneIsScript, AppendIsConcat DEF Script
      <4>2. (F \o rest) \o <<e>> = F \o (rest \o <<e>>)
        <5>1. F \in Seq(Edit) /\ rest \in Seq(Edit) /\ <<e>> \in Seq(Edit)
          BY <4>1 DEF Script
        <5> QED
          BY <5>1, ConcatAssociative
      <4> QED
        BY <4>1, <4>2
    <3>4. Sum(Delta, both) = Sum(Delta, F) + Sum(Delta, rest)
      BY <1>4, <3>1
    <3> HIDE DEF both
    <3>5. /\ Sum(Delta, Append(both, e)) = Sum(Delta, both) + Delta(e)
          /\ Sum(Delta, Append(rest, e)) = Sum(Delta, rest) + Delta(e)
          /\ Sum(Delta, rest) \in Int
      BY <3>2, GainAppend
    <3>6. Delta(e) \in Int
      BY DeltaInt
    <3> DEFINE a == Sum(Delta, F)
               b == Sum(Delta, rest)
               c == Delta(e)
    <3>7. a \in Int /\ b \in Int /\ c \in Int
      BY <1>2, <3>5, <3>6
    <3>8. Sum(Delta, F \o R) = (a + b) + c /\ Sum(Delta, R) = b + c
      BY <3>1, <3>3, <3>4, <3>5
    <3> HIDE DEF a, b, c
    <3>9. (a + b) + c = a + (b + c)
      BY <3>7
    <3> QED
      BY <3>8, <3>9 DEF a
  <2>2. k \in 0 .. n
    BY <1>1
  <2> QED
    BY <2>1, <2>2
<1> HIDE DEF G
<1>5. \A k \in 0 .. n : k \in G
  BY <1>1, <1>3, <1>4, Climb
<1>6. n \in G
  BY <1>1, <1>5
<1> QED
  BY <1>2, <1>6 DEF G, n

\* The plans lead one after the other from t to what all the edits make of it.
Chain(plans, t, edits) ==
    \E U \in [0 .. Len(plans) -> Text] :
       /\ U[0] = t /\ U[Len(plans)] = ApplyEdits(t, edits)
       /\ \A j \in 1 .. Len(plans) : /\ Tidy(U[j - 1], plans[j])
                                     /\ U[j] = ApplyEdits(U[j - 1], plans[j])

LEMMA ChainGrows ==
    ASSUME NEW plans \in Seq(Script), NEW t \in Text, NEW F \in Script, NEW C \in Script,
           Chain(plans, t, F), Tidy(t, F \o C)
    PROVE  Chain(Append(plans, Moved(C, Sum(Delta, F))), t, F \o C)
<1> DEFINE N == Len(plans)
           x == Moved(C, Sum(Delta, F))
           u == ApplyEdits(t, F)
           v == ApplyEdits(t, F \o C)
           longer == Append(plans, x)
<1>1. PICK U \in [0 .. N -> Text] :
          /\ U[0] = t /\ U[N] = u
          /\ \A j \in 1 .. N : Tidy(U[j - 1], plans[j]) /\ U[j] = ApplyEdits(U[j - 1], plans[j])
  BY DEF Chain
<1>2. N \in Nat
  OBVIOUS
<1>3. Joins(t, F, C)
  BY Joined
<1>4. x \in Script /\ Tidy(u, x) /\ ApplyEdits(u, x) = v
  BY <1>3 DEF Joins
<1>5. v \in Text
  <2>1. F \o C \in Script
    BY ConcatProperties DEF Script
  <2>2. Carries(t, F \o C)
    BY <2>1, Carried
  <2> QED
    BY <2>2 DEF Carries
<1> HIDE DEF x
<1>6. Len(longer) = N + 1 /\ longer[N + 1] = x /\ \A k \in 1 .. N : longer[k] = plans[k]
  BY <1>4
<1> DEFINE M == [k \in 0 .. N + 1 |-> IF k = N + 1 THEN v ELSE U[k]]
<1> HIDE DEF u, v
<1>7. M \in [0 .. N + 1 -> Text] /\ M[N + 1] = v /\ \A k \in 0 .. N : M[k] = U[k]
  BY <1>2, <1>5
<1> HIDE DEF M, N, longer
<1>8. ASSUME NEW k \in 1 .. N + 1
      PROVE  Tidy(M[k - 1], longer[k]) /\ M[k] = ApplyEdits(M[k - 1], longer[k])
  <2>1. CASE k = N + 1
    <3>1. k - 1 = N /\ N \in 0 .. N
      BY <1>2, <2>1
    <3> QED
      BY <1>1, <1>4, <1>6, <1>7, <2>1, <3>1
  <2>2. CASE k # N + 1
    <3>1. k \in 1 .. N /\ k - 1 \in 0 .. N /\ k \in 0 .. N
      BY <1>2, <2>2
    <3> QED
      BY <1>1, <1>6, <1>7, <3>1
  <2> QED
    BY <2>1, <2>2
<1>9. M[0] = t
  <2>1. 0 \in 0 .. N
    BY <1>2
  <2> QED
    BY <1>1, <1>7, <2>1
<1>10. Chain(longer, t, F \o C)
  BY <1>6, <1>7, <1>8, <1>9 DEF Chain, v
<1> QED
  BY <1>10 DEF longer, x

LEMMA ChainNone ==
    ASSUME NEW t \in Text
    PROVE  Chain(<< >>, t, << >>)
<1> DEFINE none == << >>
           U == [k \in 0 .. 0 |-> t]
<1>1. Len(none) = 0 /\ \A k \in 1 .. 0 : FALSE
  OBVIOUS
<1>2. U \in [0 .. 0 -> Text] /\ U[0] = t
  OBVIOUS
<1>3. ApplyEdits(t, none) = t
  BY ApplyNone
<1> HIDE DEF none, U
<1>4. Chain(none, t, none)
  BY <1>1, <1>2, <1>3 DEF Chain
<1> QED
  BY <1>4 DEF none

LEMMA ChainOne ==
    ASSUME NEW t \in Text, NEW edits \in Script, Tidy(t, edits)
    PROVE  Chain(<<edits>>, t, edits)
<1> DEFINE u == ApplyEdits(t, edits)
           U == [k \in 0 .. 1 |-> IF k = 0 THEN t ELSE u]
           one == <<edits>>
<1>1. u \in Text
  <2>1. Carries(t, edits)
    BY Carried
  <2> QED
    BY <2>1 DEF Carries
<1>2. Len(one) = 1 /\ one[1] = edits
  OBVIOUS
<1> HIDE DEF u
<1>3. U \in [0 .. 1 -> Text] /\ U[0] = t /\ U[1] = u
  BY <1>1
<1> HIDE DEF U, one
<1>4. \A j \in 1 .. 1 : j = 1 /\ j - 1 = 0
  OBVIOUS
<1>5. Chain(one, t, edits)
  BY <1>2, <1>3, <1>4 DEF Chain, u
<1> QED
  BY <1>5 DEF one

PlainPlans(plans) == \A k \in 1 .. Len(plans) : PlainScript(plans[k])

\* The plans made so far and the chunk cover the edits `done'.
Gathered(acc, t, done) ==
    /\ acc \in [plans : Seq(Script), chunk : Script, committed : Int]
    /\ PlainPlans(acc.plans) /\ PlainScript(acc.chunk)
    /\ \E F \in Script : /\ acc.committed = Sum(Delta, F)
                         /\ Chain(acc.plans, t, F)
                         /\ F \o acc.chunk = done

LEMMA ConcatAppend ==
    ASSUME NEW F \in Script, NEW C \in Script, NEW e \in Edit
    PROVE  F \o C \in Script /\ F \o Append(C, e) = Append(F \o C, e)
<1> DEFINE both == F \o C
<1>1. both \in Script
  BY ConcatProperties DEF Script
<1>2. /\ <<e>> \in Script /\ Append(C, e) = C \o <<e>> /\ Append(both, e) = both \o <<e>>
  <2> HIDE DEF both
  <2> QED
    BY <1>1, OneIsScript, AppendIsConcat DEF Script
<1>3. (F \o C) \o <<e>> = F \o (C \o <<e>>)
  BY <1>2, ConcatAssociative DEF Script
<1> QED
  BY <1>1, <1>2, <1>3

LEMMA MovedPlain ==
    ASSUME NEW C \in Script, NEW by \in Int, PlainScript(C), Moved(C, by) \in Script
    PROVE  PlainScript(Moved(C, by))
<1> DEFINE M == Moved(C, by)
<1>1. M = [k \in DOMAIN C |-> [C[k] EXCEPT !.from = @ + by, !.to = @ + by]]
  BY DEF Moved
<1>2. DOMAIN C = 1 .. Len(C) /\ Len(C) \in Nat /\ \A k \in 1 .. Len(C) : C[k] \in Edit
  BY DEF Script
<1> HIDE DEF M
<1>3. DOMAIN M = 1 .. Len(M)
  BY DEF Script, M
<1>4. ASSUME NEW k \in 1 .. Len(M) PROVE Plain(M[k].with)
  <2>1. k \in DOMAIN C
    BY <1>1, <1>3
  <2>2. k \in 1 .. Len(C) /\ C[k] \in Edit
    BY <1>2, <2>1
  <2>3. M[k] = [C[k] EXCEPT !.from = @ + by, !.to = @ + by]
    BY <1>1, <2>1
  <2>4. M[k].with = C[k].with
    BY <2>2, <2>3 DEF Edit
  <2> QED
    BY <2>2, <2>4 DEF PlainScript
<1> QED
  BY <1>4 DEF PlainScript, M

LEMMA FlushGathers ==
    ASSUME NEW t \in Text, NEW done \in Script, Tidy(t, done), NEW acc, Gathered(acc, t, done)
    PROVE  /\ Gathered(Flush(acc), t, done)
           /\ Chain(Flush(acc).plans, t, done)
<1> DEFINE C == acc.chunk
           P == acc.plans
           none == << >>
<1>1. PICK F \in Script : acc.committed = Sum(Delta, F) /\ Chain(P, t, F) /\ F \o C = done
  BY DEF Gathered
<1>2. C \in Script /\ P \in Seq(Script) /\ PlainPlans(P) /\ PlainScript(C)
  BY DEF Gathered
<1>3. Joins(t, F, C)
  BY <1>1, <1>2, Joined
<1> DEFINE s == Sum(Delta, F)
           x == Moved(C, s)
<1>4. x \in Script
  BY <1>3 DEF Joins
<1>5. s \in Int /\ Sum(Delta, C) \in Int /\ Sum(Delta, done) = s + Sum(Delta, C)
  BY <1>1, <1>2, GainConcat
<1>6. Chain(Append(P, x), t, done)
  BY <1>1, <1>2, ChainGrows
<1>7. PlainScript(x)
  <2> HIDE DEF s
  <2> QED
    BY <1>2, <1>4, <1>5, MovedPlain
<1> DEFINE longer == Append(P, x)
<1>8. longer \in Seq(Script) /\ PlainPlans(longer)
  <2> HIDE DEF x, P
  <2>1. /\ longer \in Seq(Script) /\ Len(longer) = Len(P) + 1 /\ longer[Len(P) + 1] = x
        /\ Len(P) \in Nat /\ \A k \in 1 .. Len(P) : longer[k] = P[k]
    BY <1>2, <1>4
  <2> HIDE DEF longer
  <2>2. \A k \in 1 .. Len(P) + 1 : k \in 1 .. Len(P) \/ k = Len(P) + 1
    BY <2>1
  <2> QED
    BY <1>2, <1>7, <2>1, <2>2 DEF PlainPlans
<1>9. Flush(acc) = [plans |-> longer, chunk |-> none, committed |-> s + Sum(Delta, C)]
  BY <1>1 DEF Flush
<1>10. none \in Script /\ PlainScript(none) /\ done \o none = done
  BY ConcatEmptySeq DEF Script, PlainScript
<1> HIDE DEF longer, none, s
<1> DEFINE f == Flush(acc)
<1>11. f.plans = longer /\ f.chunk = none /\ f.committed = Sum(Delta, done)
       /\ f \in [plans : Seq(Script), chunk : Script, committed : Int]
  BY <1>5, <1>8, <1>9, <1>10
<1> HIDE DEF f
<1>12. Chain(f.plans, t, done)
  BY <1>6, <1>11 DEF longer
<1>13. Gathered(f, t, done)
  BY <1>8, <1>10, <1>11, <1>12 DEF Gathered
<1> QED
  BY <1>12, <1>13 DEF f

LEMMA PlannedGathers ==
    ASSUME NEW t \in Text, NEW done \in Script, NEW e \in Edit, Tidy(t, done), Plain(e.with),
           NEW acc, Gathered(acc, t, done)
    PROVE  Gathered(Planned(acc, e), t, Append(done, e))
<1>1. PICK room : Gathered(room, t, done) /\ Planned(acc, e) = [room EXCEPT !.chunk = Append(@, e)]
  BY FlushGathers DEF Planned
<1> DEFINE C == room.chunk
           D == Append(C, e)
           next == [room EXCEPT !.chunk = D]
<1>2. PICK F \in Script : room.committed = Sum(Delta, F) /\ Chain(room.plans, t, F) /\ F \o C = done
  BY <1>1 DEF Gathered
<1>3. /\ room \in [plans : Seq(Script), chunk : Script, committed : Int]
      /\ PlainPlans(room.plans) /\ PlainScript(C) /\ C \in Script
  BY <1>1 DEF Gathered
<1>4. F \o D = Append(done, e)
  BY <1>2, <1>3, ConcatAppend
<1> HIDE DEF C
<1>5. D \in Script /\ PlainScript(D)
  <2>1. /\ D \in Script /\ Len(C) \in Nat /\ Len(D) = Len(C) + 1 /\ D[Len(D)] = e
        /\ \A k \in 1 .. Len(C) : D[k] = C[k]
    BY <1>3, Appending
  <2> HIDE DEF D
  <2>2. \A k \in 1 .. Len(D) : k \in 1 .. Len(C) \/ k = Len(D)
    BY <2>1
  <2> QED
    BY <1>3, <2>1, <2>2 DEF PlainScript
<1> HIDE DEF D
<1>6. next \in [plans : Seq(Script), chunk : Script, committed : Int]
      /\ next.plans = room.plans /\ next.chunk = D /\ next.committed = room.committed
  BY <1>3, <1>5
<1> HIDE DEF next
<1>7. Gathered(next, t, Append(done, e))
  BY <1>2, <1>3, <1>4, <1>5, <1>6 DEF Gathered
<1> QED
  BY <1>1, <1>7 DEF next, D, C

LEMMA TidyPrefix ==
    ASSUME NEW t, NEW edits, NEW done, Tidy(t, edits), NEW k \in Nat, Len(done) = k,
           Len(edits) \in Nat, k <= Len(edits), \A j \in 1 .. k : done[j] = edits[j]
    PROVE  Tidy(t, done)
<1>1. ASSUME NEW i \in 1 .. k PROVE Fits(t, done[i])
  <2>1. i \in 1 .. Len(edits)
    OBVIOUS
  <2> QED
    BY <2>1 DEF Tidy
<1>2. ASSUME NEW i \in 1 .. k, NEW j \in 1 .. i - 1 PROVE done[j].to <= done[i].from
  <2>1. i \in 1 .. Len(edits) /\ j \in 1 .. k
    OBVIOUS
  <2>2. done[i] = edits[i] /\ done[j] = edits[j]
    BY <2>1
  <2> QED
    BY <2>1, <2>2 DEF Tidy
<1> QED
  BY <1>1, <1>2 DEF Tidy

\* The plans of replace_all lead to the text with every match replaced.
LEMMA PlansChain ==
    ASSUME NEW t \in Text, NEW q \in Queries, NEW word \in Text, Plain(word),
           ReplaceAllPlans(t, q, word) # << >>
    PROVE  LET plans == ReplaceAllPlans(t, q, word) IN
           /\ plans \in Seq(Script) /\ PlainPlans(plans)
           /\ Chain(plans, t, Replacing(t, q, word))
<1> DEFINE E == Replacing(t, q, word)
           n == Len(E)
           none == << >>
<1>1. E \in Script /\ Tidy(t, E) /\ \A k \in 1 .. Len(E) : E[k].with = word
  BY ReplacingTidy
<1>2. n \in Nat /\ \A k \in 1 .. n : E[k] \in Edit
  BY <1>1 DEF Script
<1>3. PICK T : PlannedAll(T, n, t, q, word)
  BY <1>2, PlansAccumulate
<1>4. /\ T[0] = [plans |-> none, chunk |-> none, committed |-> 0]
      /\ ReplaceAllPlans(t, q, word) = IF T[n].chunk = none THEN none ELSE Flush(T[n]).plans
      /\ \A k \in 1 .. n : T[k] = Planned(T[k - 1], E[k])
  BY <1>3 DEF PlannedAll
<1> HIDE DEF E, n
<1> DEFINE Good(k) == \E done \in Script : /\ Len(done) = k /\ \A j \in 1 .. k : done[j] = E[j]
                                           /\ Gathered(T[k], t, done)
           G == {k \in 0 .. n : Good(k)}
<1>5. 0 \in G
  <2>1. none \in Script /\ Len(none) = 0 /\ PlainScript(none) /\ none \in Seq(Script)
        /\ PlainPlans(none)
    BY DEF Script, PlainScript, PlainPlans
  <2>2. none \o none = none
    BY ConcatEmptySeq DEF Script
  <2>3. Sum(Delta, none) = 0
    <3> DEFINE e == [from |-> 0, to |-> 0, with |-> none]
    <3>1. e \in Edit
      BY TextsGiven DEF Edit
    <3> HIDE DEF e
    <3> QED
      BY <2>1, <3>1, GainAppend
  <2>4. Chain(none, t, none)
    BY ChainNone
  <2> DEFINE acc == [plans |-> none, chunk |-> none, committed |-> 0]
  <2> HIDE DEF none
  <2>5. acc \in [plans : Seq(Script), chunk : Script, committed : Int]
        /\ acc.plans = none /\ acc.chunk = none /\ acc.committed = 0
    BY <2>1
  <2> HIDE DEF acc
  <2>6. Gathered(acc, t, none)
    BY <2>1, <2>2, <2>3, <2>4, <2>5 DEF Gathered
  <2>7. T[0] = acc
    BY <1>4 DEF acc
  <2>8. Good(0)
    BY <2>1, <2>6, <2>7
  <2> HIDE DEF Good
  <2> QED
    BY <1>2, <2>8 DEF n
<1>6. ASSUME NEW k \in 1 .. n, k - 1 \in G PROVE k \in G
  <2> DEFINE l == k - 1
             e == E[k]
  <2>1. l \in 0 .. n /\ l \in Nat /\ k = l + 1 /\ k \in 0 .. n
    BY <1>2 DEF n
  <2>2. Good(l)
    BY <1>6
  <2>3. e \in Edit /\ Plain(e.with)
    BY <1>1, <1>2 DEF n
  <2>4. T[k] = Planned(T[l], e)
    BY <1>4
  <2> HIDE DEF l, e
  <2>5. PICK done \in Script : /\ Len(done) = l /\ \A j \in 1 .. l : done[j] = E[j]
                               /\ Gathered(T[l], t, done)
    BY <2>2
  <2>6. Tidy(t, done)
    BY <1>1, <1>2, <2>1, <2>5, TidyPrefix DEF n
  <2> DEFINE more == Append(done, e)
  <2>7. Gathered(T[k], t, more)
    BY <2>3, <2>4, <2>5, <2>6, PlannedGathers
  <2>8. more \in Script /\ Len(more) = k /\ more[k] = e /\ \A j \in 1 .. l : more[j] = done[j]
    BY <2>1, <2>3, <2>5, Appending
  <2> HIDE DEF more
  <2>9. \A j \in 1 .. k : j \in 1 .. l \/ j = k
    BY <2>1
  <2>10. \A j \in 1 .. k : more[j] = E[j]
    BY <2>5, <2>8, <2>9 DEF e
  <2>11. Good(k)
    BY <2>7, <2>8, <2>10
  <2> HIDE DEF Good
  <2> QED
    BY <2>1, <2>11
<1> HIDE DEF G
<1>7. n \in G
  <2>1. n \in Nat
    BY <1>2 DEF n
  <2>2. \A k \in 0 .. n : k \in G
    BY <1>5, <1>6, <2>1, Climb
  <2> QED
    BY <2>1, <2>2
<1>8. PICK done \in Script : /\ Len(done) = n /\ \A j \in 1 .. n : done[j] = E[j]
                             /\ Gathered(T[n], t, done)
  BY <1>7 DEF G
<1>9. done = E
  <2>1. done \in Seq(Edit) /\ E \in Seq(Edit) /\ Len(done) = Len(E)
        /\ \A j \in 1 .. Len(done) : done[j] = E[j]
    BY <1>1, <1>8 DEF Script, n
  <2> QED
    BY <2>1, SeqEqual
<1>10. /\ Gathered(Flush(T[n]), t, E) /\ Chain(Flush(T[n]).plans, t, E)
  BY <1>1, <1>8, <1>9, FlushGathers
<1>11. Flush(T[n]).plans \in Seq(Script) /\ PlainPlans(Flush(T[n]).plans)
  BY <1>10 DEF Gathered
<1> QED
  BY <1>4, <1>10, <1>11 DEF E

-----------------------------------------------------------------------------
(* Changes of the document, and the editor that follows them *)

LEMMA PlanValid ==
    ASSUME NEW t \in Text, Plain(t), NEW edits \in Script, Tidy(t, edits), edits # << >>
    PROVE  ValidEdits(t, edits)
<1>1. Boundaries(t) = 0 .. Len(t)
  BY PlainBoundaries
<1>2. Len(t) \in Nat
  BY DEF Text
<1>3. DOMAIN edits = 1 .. Len(edits) /\ Len(edits) \in Nat
      /\ \A k \in 1 .. Len(edits) : edits[k] \in Edit
  BY DEF Script
<1>4. ASSUME NEW k \in 1 .. Len(edits)
      PROVE  /\ edits[k].from <= edits[k].to
             /\ {edits[k].from, edits[k].to} \subseteq 0 .. Len(t)
             /\ k > 1 => edits[k - 1].to <= edits[k].from
  <2>1. Fits(t, edits[k])
    BY DEF Tidy
  <2>2. edits[k].from \in Nat /\ edits[k].to \in Nat
    BY <1>3 DEF Edit
  <2>3. ASSUME k > 1 PROVE edits[k - 1].to <= edits[k].from
    <3>1. k - 1 \in 1 .. k - 1
      BY <2>3
    <3> QED
      BY <3>1 DEF Tidy
  <2> QED
    BY <1>2, <2>1, <2>2, <2>3 DEF Fits
<1> QED
  BY <1>1, <1>3, <1>4 DEF ValidEdits

LEMMA PlanApplied ==
    ASSUME NEW d, Sound(d), NEW plan \in Script, PlainScript(plan), Tidy(d.text, plan),
           plan # << >>, d.revision < LastRevision,
           Len(ApplyEdits(d.text, plan)) <= MaxDocument
    PROVE  /\ Sound(ApplyPlan(d, plan))
           /\ ApplyPlan(d, plan).revision = d.revision + 1
           /\ ApplyPlan(d, plan).text = ApplyEdits(d.text, plan)
<1> DEFINE tx == [base |-> d.revision, kind |-> "programmatic", edits |-> plan]
<1>1. d.text \in Text /\ Plain(d.text) /\ d.revision \in Nat
  BY SoundText
<1>2. tx \in Transaction /\ tx.base = d.revision /\ tx.edits = plan
  BY <1>1 DEF Transaction, Kind
<1>3. ValidEdits(d.text, plan)
  BY <1>1, PlanValid
<1>4. PostEditLen(d.text, plan) <= MaxDocument
  <2>1. Carries(d.text, plan)
    BY <1>1, Carried
  <2> QED
    BY <2>1 DEF Carries, PostEditLen
<1>5. ApplyPlan(d, plan) = IF Accepts(d, tx) THEN Applied(d, tx, NoContext) ELSE d
  BY DEF ApplyPlan
<1> HIDE DEF tx
<1>6. Accepts(d, tx)
  BY <1>2, <1>3, <1>4 DEF Accepts
<1> QED
  BY <1>2, <1>5, <1>6, AppliedSound

\* How long the text is after the first k plans.
LEMMA LengthAfter ==
    ASSUME NEW plans \in Seq(Script), NEW t \in Text, NEW k \in 1 .. Len(plans),
           NEW U \in [0 .. Len(plans) -> Text], U[0] = t,
           \A j \in 1 .. Len(plans) : Tidy(U[j - 1], plans[j])
                                      /\ U[j] = ApplyEdits(U[j - 1], plans[j])
    PROVE  Len(U[k]) = Len(t) + Sum(LAMBDA plan : Sum(Delta, plan), SubSeq(plans, 1, k))
<1> DEFINE z == 0
           i == 1
           s == SubSeq(plans, i, k)
           numbers == [j \in DOMAIN s |-> Sum(Delta, s[j])]
           S == [j \in z .. k |-> Len(U[j]) - Len(t)]
<1>1. k \in Nat /\ k >= 1 /\ Len(plans) \in Nat /\ i \in Int /\ i = 1 /\ z = 0
  OBVIOUS
<1>2. \A j \in i .. k : plans[j] \in Script
  <2>1. \A j \in i .. k : j \in 1 .. Len(plans)
    BY <1>1
  <2> QED
    BY <2>1
<1>3. ASSUME NEW j \in 1 .. k
      PROVE  /\ U[j - 1] \in Text /\ U[j] \in Text
             /\ Len(U[j]) = Len(U[j - 1]) + Sum(Delta, plans[j])
  <2>1. j \in 1 .. Len(plans) /\ j \in 0 .. Len(plans) /\ j - 1 \in 0 .. Len(plans)
    BY <1>1
  <2>2. U[j - 1] \in Text /\ U[j] \in Text /\ plans[j] \in Script
    BY <2>1
  <2>3. Tidy(U[j - 1], plans[j]) /\ U[j] = ApplyEdits(U[j - 1], plans[j])
    BY <2>1
  <2>4. Carries(U[j - 1], plans[j])
    BY <2>2, <2>3, Carried
  <2> QED
    BY <2>2, <2>3, <2>4 DEF Carries
<1>4. \A j \in z .. k : j \in 0 .. Len(plans) /\ Len(U[j]) \in Nat
  <2>1. ASSUME NEW j \in z .. k PROVE j \in 0 .. Len(plans) /\ U[j] \in Text
    <3>1. j \in 0 .. Len(plans)
      BY <1>1
    <3> QED
      BY <3>1
  <2> QED
    BY <2>1 DEF Text
<1> HIDE DEF z, i
<1>5. s \in Seq(Script) /\ Len(s) = k /\ \A j \in 1 .. k : s[j] = plans[j]
  <2>1. /\ s \in Seq(Script) /\ Len(s) = IF i <= k THEN k - i + 1 ELSE 0
        /\ \A j \in 1 .. k - i + 1 : s[j] = plans[i + j - 1]
    BY <1>1, <1>2, SubSeqProperties
  <2>2. i <= k /\ k - i + 1 = k /\ \A j \in 1 .. k : i + j - 1 = j
    BY <1>1
  <2> QED
    BY <2>1, <2>2
<1> HIDE DEF s
<1>6. DOMAIN s = 1 .. k
  BY <1>5
<1>7. numbers = [j \in 1 .. k |-> Sum(Delta, s[j])] /\ Len(numbers) = k
  BY <1>1, <1>6
<1>8. Len(t) \in Nat
  BY DEF Text
<1>9. S \in [z .. k -> Int] /\ \A j \in z .. k : S[j] = Len(U[j]) - Len(t)
  BY <1>4, <1>8
<1> HIDE DEF S, numbers
<1>10. ASSUME NEW j \in 1 .. k PROVE S[j] = S[j - 1] + numbers[j]
  <2>1. j \in z .. k /\ j - 1 \in z .. k
    BY <1>1
  <2> DEFINE a == Len(U[j])
             b == Len(U[j - 1])
             c == Sum(Delta, plans[j])
  <2>2. numbers[j] = c
    BY <1>5, <1>7
  <2>3. S[j] = a - Len(t) /\ S[j - 1] = b - Len(t) /\ a \in Nat /\ b \in Nat
    BY <1>4, <1>9, <2>1
  <2>4. a = b + c
    BY <1>3
  <2>5. c \in Int
    <3>1. j \in 1 .. Len(plans)
      BY <1>1
    <3>2. plans[j] \in Script
      BY <3>1
    <3> QED
      BY <3>2, GainConcat
  <2> HIDE DEF a, b, c
  <2> QED
    BY <1>8, <2>2, <2>3, <2>4, <2>5
<1>11. S[z] = 0
  <2>1. z \in z .. k /\ U[z] = t
    BY <1>1
  <2> QED
    BY <1>8, <1>9, <2>1
<1>12. Adds(S, k, Int, numbers)
  BY <1>1, <1>7, <1>9, <1>10, <1>11 DEF Adds, z
<1>13. Total(numbers) = S[k]
  BY <1>12, TotalIs
<1>14. S[k] = Len(U[k]) - Len(t) /\ Len(U[k]) \in Nat
  <2>1. k \in z .. k
    BY <1>1
  <2> QED
    BY <1>4, <1>9, <2>1
<1>15. Total(numbers) = Sum(LAMBDA plan : Sum(Delta, plan), SubSeq(plans, 1, k))
  BY DEF Sum, numbers, s, i
<1>16. Len(U[k]) = Len(t) + Total(numbers)
  BY <1>8, <1>13, <1>14
<1> QED
  BY <1>15, <1>16

\* Plans that fit and lead on from the document's text are all applied.
LEMMA PlansApplied ==
    ASSUME Sound(doc), NEW edits, NEW plans \in Seq(Script), PlainPlans(plans),
           Chain(plans, doc.text, edits), PlansFit(plans),
           doc.revision + Len(plans) <= LastRevision
    PROVE  /\ Sound(ApplyPlans(plans))
           /\ ApplyPlans(plans).text = ApplyEdits(doc.text, edits)
           /\ ApplyPlans(plans).revision = doc.revision + Len(plans)
<1> DEFINE n == Len(plans)
           t == doc.text
           r == doc.revision
<1>1. PICK U \in [0 .. n -> Text] :
          /\ U[0] = t /\ U[n] = ApplyEdits(t, edits)
          /\ \A j \in 1 .. n : Tidy(U[j - 1], plans[j]) /\ U[j] = ApplyEdits(U[j - 1], plans[j])
  BY DEF Chain
<1>2. n \in Nat /\ t \in Text /\ r \in Nat /\ LastRevision \in Nat /\ MaxDocument \in Nat
  BY SoundText, DocumentAssumption
<1>3. PICK D : AppliedAll(D, n, plans)
  BY <1>2, PlansUnfold
<1>4. /\ D[0] = doc /\ ApplyPlans(plans) = D[n]
      /\ \A k \in 1 .. n : D[k] = ApplyPlan(D[k - 1], plans[k])
  BY <1>3 DEF AppliedAll
<1>5. ASSUME NEW k \in 1 .. n
      PROVE  plans[k] # << >> /\ Len(U[k]) <= MaxDocument
  <2>1. PlanFits(plans[k])
    <3>1. plans[k] \in ToSet(plans)
      BY DEF ToSet
    <3> QED
      BY <3>1 DEF PlansFit
  <2>2. Len(plans[k]) # 0
    <3>1. Len(plans[k]) \in 1 .. MaxPlanEdits /\ MaxPlanEdits \in Nat
      BY <2>1, FindReplaceAssumption DEF PlanFits
    <3> QED
      BY <3>1
  <2>3. k \in DOMAIN plans
    OBVIOUS
  <2>4. Len(t) + Sum(LAMBDA plan : Sum(Delta, plan), SubSeq(plans, 1, k)) <= MaxDocument
    BY <2>3 DEF PlansFit
  <2>5. Len(U[k]) = Len(t) + Sum(LAMBDA plan : Sum(Delta, plan), SubSeq(plans, 1, k))
    BY <1>1, <1>2, LengthAfter
  <2>6. Len(<< >>) = 0
    OBVIOUS
  <2> QED
    BY <2>2, <2>4, <2>5, <2>6
<1> DEFINE Good(k) == Sound(D[k]) /\ D[k].text = U[k] /\ D[k].revision = r + k
           G == {k \in 0 .. n : Good(k)}
<1>6. 0 \in G
  <2>1. Good(0)
    BY <1>1, <1>2, <1>4
  <2> HIDE DEF Good
  <2> QED
    BY <1>2, <2>1
<1>7. ASSUME NEW k \in 1 .. n, k - 1 \in G PROVE k \in G
  <2> DEFINE l == k - 1
             e == plans[k]
  <2>1. l \in 0 .. n /\ k = l + 1 /\ k \in 0 .. n /\ l \in Nat
    BY <1>2
  <2>2. Good(l)
    BY <1>7
  <2>3. e \in Script /\ PlainScript(e) /\ e # << >> /\ Len(U[k]) <= MaxDocument
    BY <1>5 DEF PlainPlans
  <2>4. Tidy(U[l], e) /\ U[k] = ApplyEdits(U[l], e) /\ D[k] = ApplyPlan(D[l], e)
    BY <1>1, <1>4
  <2>5. r + l < LastRevision
    BY <1>2, <2>1
  <2> HIDE DEF l, e
  <2>6. D[l].revision < LastRevision /\ Len(ApplyEdits(D[l].text, e)) <= MaxDocument
    BY <2>2, <2>3, <2>4, <2>5
  <2>7. Sound(D[k]) /\ D[k].revision = D[l].revision + 1 /\ D[k].text = U[k]
    BY <2>2, <2>3, <2>4, <2>6, PlanApplied
  <2>8. D[k].revision = r + k
    BY <1>2, <2>1, <2>2, <2>7
  <2>9. Good(k)
    BY <2>7, <2>8
  <2> HIDE DEF Good
  <2> QED
    BY <2>1, <2>9
<1> HIDE DEF G
<1>8. n \in G
  <2>1. \A k \in 0 .. n : k \in G
    BY <1>2, <1>6, <1>7, Climb
  <2> QED
    BY <1>2, <2>1
<1>9. Good(n)
  BY <1>8 DEF G
<1> QED
  BY <1>1, <1>4, <1>9

\* The editor follows the changes to the text they lead to.
LEMMA ChangesFollowed ==
    ASSUME Follows(Pane), NEW edits, NEW changes \in Seq(Script),
           Chain(changes, adapter.mirror, edits)
    PROVE  /\ Follows(Followed(changes))
           /\ Followed(changes).a.mirror = ApplyEdits(adapter.mirror, edits)
<1> DEFINE n == Len(changes)
           t == adapter.mirror
<1>1. PICK U \in [0 .. n -> Text] :
          /\ U[0] = t /\ U[n] = ApplyEdits(t, edits)
          /\ \A j \in 1 .. n : Tidy(U[j - 1], changes[j])
                               /\ U[j] = ApplyEdits(U[j - 1], changes[j])
  BY DEF Chain
<1>2. n \in Nat /\ \A k \in 1 .. n : changes[k] \in Script
  OBVIOUS
<1>3. PICK T : FollowedAll(T, n, changes)
  BY <1>2, ChangesUnfold
<1>4. /\ T[0] = Pane /\ Followed(changes) = T[n]
      /\ \A k \in 1 .. n : T[k] = FollowEdits(T[k - 1], changes[k])
  BY <1>3 DEF FollowedAll
<1> DEFINE Good(k) == Follows(T[k]) /\ T[k].a.mirror = U[k]
           G == {k \in 0 .. n : Good(k)}
<1>5. 0 \in G
  <2>1. Good(0)
    BY <1>1, <1>4 DEF Pane
  <2> HIDE DEF Good
  <2> QED
    BY <1>2, <2>1
<1>6. ASSUME NEW k \in 1 .. n, k - 1 \in G PROVE k \in G
  <2> DEFINE l == k - 1
             e == changes[k]
  <2>1. l \in 0 .. n /\ k \in 0 .. n
    BY <1>2
  <2>2. Good(l)
    BY <1>6
  <2>3. /\ e \in Script /\ Tidy(U[l], e) /\ U[k] = ApplyEdits(U[l], e)
        /\ T[k] = FollowEdits(T[l], e)
    BY <1>1, <1>2, <1>4
  <2> HIDE DEF l, e
  <2>4. Good(k)
    BY <2>2, <2>3, EditsFollowed
  <2> HIDE DEF Good
  <2> QED
    BY <2>1, <2>4
<1> HIDE DEF G
<1>7. n \in G
  <2>1. \A k \in 0 .. n : k \in G
    BY <1>2, <1>5, <1>6, Climb
  <2> QED
    BY <1>2, <2>1
<1>8. Good(n)
  BY <1>7 DEF G
<1> QED
  BY <1>1, <1>4, <1>8

-----------------------------------------------------------------------------
(* The editor while the program runs *)

Finding == {NoSession} \cup [query : Queries, current : Found]

\* What the adapter waits for no answer about is the document.
Agree(a, d) == ~ a.pending => a.mirror = d.text /\ a.revision = d.revision

Going(d, w, a, f) ==
    Sound(d) /\ Shows(w) /\ Mirrors(a) /\ Agree(a, d) /\ f \in Finding

EditorInv == status = "running" => Going(doc, widget, adapter, find)

LEMMA AdapterIs ==
    ASSUME NEW a, Mirrors(a)
    PROVE  /\ a \in Adapter /\ a.mirror \in Text /\ a.index \in Index /\ a.revision \in Nat
           /\ a.pending \in BOOLEAN /\ a.composition \in Composition
           /\ a.tracker \in Composition /\ a.compositions \in Nat
           /\ Indexes(a.index, a.mirror)
BY DEF Mirrors, Adapter

LEMMA IndexOfIndexes ==
    ASSUME NEW t \in Text
    PROVE  Indexes(IndexOf(t), t)
<1>1. LineStarts(t) \subseteq 0 .. Len(t) /\ Len(t) \in Nat
  BY StartsIn
<1>2. LineStarts(t) \in SUBSET Nat
  BY <1>1
<1> DEFINE i == IndexOf(t)
<1>3. i = [starts |-> LineStarts(t), len |-> Len(t), text |-> t]
  BY DEF IndexOf
<1> HIDE DEF i
<1>4. Indexes(i, t)
  BY <1>1, <1>2, <1>3 DEF Indexes, Index
<1> QED
  BY <1>4 DEF i

\* The adapter of a document that is shown whole.
LEMMA InstalledMirrors ==
    ASSUME NEW a, Mirrors(a), NEW d, Sound(d)
    PROVE  Mirrors(Installed(a, d)) /\ Agree(Installed(a, d), d)
<1> DEFINE b == Installed(a, d)
           i == IndexOf(d.text)
<1>1. d.text \in Text /\ d.revision \in Nat /\ Indexes(i, d.text)
  BY SoundText, IndexOfIndexes
<1>2. a \in Adapter
  BY AdapterIs
<1>3. b = [a EXCEPT !.mirror = d.text, !.index = i, !.revision = d.revision,
                    !.pending = FALSE, !.composition = NoComposition]
  BY DEF Installed
<1>4. i \in Index /\ NoComposition \in Composition
  BY <1>1 DEF Indexes, Composition
<1> HIDE DEF b, i
<1>5. b \in Adapter /\ b.mirror = d.text /\ b.index = i /\ b.revision = d.revision
  BY <1>1, <1>2, <1>3, <1>4 DEF Adapter
<1>6. Mirrors(b) /\ Agree(b, d)
  BY <1>1, <1>5 DEF Mirrors, Agree
<1> QED
  BY <1>6 DEF b

LEMMA NewMirrors ==
    ASSUME NEW d, Sound(d)
    PROVE  Mirrors(NewAdapter(d)) /\ Agree(NewAdapter(d), d)
<1> DEFINE b == NewAdapter(d)
           i == IndexOf(d.text)
<1>1. d.text \in Text /\ d.revision \in Nat /\ Indexes(i, d.text)
  BY SoundText, IndexOfIndexes
<1>2. b = [mirror |-> d.text, index |-> i, revision |-> d.revision,
           pending |-> FALSE, composition |-> NoComposition,
           tracker |-> NoComposition, compositions |-> 0]
  BY DEF NewAdapter
<1>3. i \in Index /\ NoComposition \in Composition
  BY <1>1 DEF Indexes, Composition
<1> HIDE DEF b, i
<1>4. b \in Adapter /\ b.mirror = d.text /\ b.index = i /\ b.revision = d.revision
  BY <1>1, <1>2, <1>3 DEF Adapter
<1>5. Mirrors(b) /\ Agree(b, d)
  BY <1>1, <1>4 DEF Mirrors, Agree
<1> QED
  BY <1>5 DEF b

LEMMA EndShows ==
    ASSUME NEW t \in Text
    PROVE  Shows([text |-> t, sel |-> CaretAt(Len(t))])
BY DEF Shows, CaretAt, Selection, Text

LEMMA CaretIn == \A i \in Nat : CaretAt(i) \in Selection
BY DEF CaretAt, Selection

LEMMA SelectionFits ==
    ASSUME Going(doc, widget, adapter, find), SelectionRead.ok
    PROVE  /\ SelectionRead.sel \in Selection
           /\ SelectionRead.sel.anchor <= Len(adapter.mirror)
           /\ SelectionRead.sel.head <= Len(adapter.mirror)
BY AdapterIs, ReadIn DEF Going, SelectionRead

LEMMA HighlightedShows ==
    ASSUME NEW w, Shows(w), NEW a, Mirrors(a), NEW d, NEW m \in Found
    PROVE  Shows(Highlighted(w, a, d, m))
<1> DEFINE sel == [anchor |-> m.from, head |-> m.to]
<1>1. ASSUME m # None PROVE sel \in Selection
  BY <1>1 DEF Found, Selection
<1>2. a.mirror \in Text /\ Indexes(a.index, a.mirror)
  BY AdapterIs
<1> HIDE DEF sel
<1>3. ASSUME m # None PROVE Shows(Placed(w, a.index, sel))
  BY <1>1, <1>2, <1>3, PlacedShows
<1> QED
  BY <1>3 DEF Highlighted, sel

\* What ends with the last of the edits ends at a place in the text they make.
LEMMA AfterLast ==
    ASSUME NEW t \in Text, NEW edits \in Script, Tidy(t, edits), edits # << >>
    PROVE  SelectionAfter(edits) \in Nat
<1> DEFINE n == Len(edits)
           e == edits[n]
           f == [from |-> e.to, to |-> e.to, with |-> << >>]
           s == Sum(Delta, edits)
<1>1. n \in Nat /\ n \in 1 .. n /\ \A k \in 1 .. n : edits[k] \in Edit
  BY DEF Script
<1>2. e \in Edit /\ e.from \in Nat /\ e.to \in Nat
  BY <1>1 DEF Edit
<1>3. f \in Edit
  BY <1>2, TextsGiven DEF Edit
<1>4. e.from <= e.to /\ e.to <= Len(t)
  BY <1>1 DEF Tidy, Fits
<1>5. Fits(t, f)
  BY <1>2, <1>4 DEF Fits
<1>6. Before(edits, f.from)
  <2>1. ASSUME NEW k \in 1 .. Len(edits) PROVE edits[k].to <= e.to
    <3>1. CASE k = n
      BY <1>2, <3>1
    <3>2. CASE k # n
      <4>1. k \in 1 .. n - 1
        BY <1>1, <3>2
      <4>2. edits[k].to <= e.from /\ edits[k].to \in Nat
        BY <1>1, <4>1 DEF Tidy, Edit
      <4> HIDE DEF e
      <4> QED
        BY <1>2, <1>4, <4>2
    <3> QED
      BY <3>1, <3>2
  <2> QED
    BY <2>1 DEF Before
<1>7. Shifted(f, s) \in Edit
  <2>1. Carries(t, edits)
    BY Carried
  <2> HIDE DEF f
  <2> QED
    BY <1>3, <1>5, <1>6, <2>1 DEF Carries
<1>8. e.to + s \in Nat
  BY <1>7 DEF Shifted, Edit
<1>9. SelectionAfter(edits) = e.to + s
  BY DEF SelectionAfter, Last
<1> QED
  BY <1>8, <1>9

LEMMA TidyOne ==
    ASSUME NEW t, NEW e \in Edit, Fits(t, e)
    PROVE  <<e>> \in Script /\ Tidy(t, <<e>>)
<1> DEFINE one == <<e>>
<1>1. one \in Script /\ Len(one) = 1 /\ one[1] = e
  BY OneIsScript
<1> HIDE DEF one
<1>2. Tidy(t, one)
  <2>1. \A k \in 1 .. 1 : k = 1 /\ \A j \in 1 .. k - 1 : FALSE
    OBVIOUS
  <2> QED
    BY <1>1, <2>1 DEF Tidy
<1> QED
  BY <1>1, <1>2 DEF one

LEMMA PaneFollows ==
    ASSUME Going(doc, widget, adapter, find)
    PROVE  Follows(Pane) /\ Pane.w = widget /\ Pane.a = adapter
BY DEF Follows, Pane, Going

LEMMA ResyncedFollows ==
    ASSUME Going(doc, widget, adapter, find), NEW d, Sound(d)
    PROVE  Follows(Resynced(d)) /\ Resynced(d).a.mirror = d.text
<1> DEFINE e == MinimalDiff(adapter.mirror, d.text)
<1>1. Follows(Pane) /\ Pane.a = adapter
  BY PaneFollows
<1>2. adapter.mirror \in Text /\ d.text \in Text
  BY AdapterIs, SoundText DEF Going
<1>3. e \in Edit /\ Fits(adapter.mirror, e) /\ Splice(adapter.mirror, e) = d.text
  BY <1>2, DiffMakes
<1>4. Resynced(d) = IF adapter.mirror = d.text THEN Pane ELSE Follow(Pane, e)
  BY DEF Resynced
<1> HIDE DEF e
<1>5. Follows(Follow(Pane, e)) /\ Follow(Pane, e).a.mirror = d.text
  BY <1>1, <1>3, FollowFollows
<1> QED
  BY <1>1, <1>4, <1>5

\* What the editor has become when it has followed changes.
LEMMA Adapting ==
    ASSUME Going(doc, widget, adapter, find), NEW changes \in Seq(Script), NEW edits,
           Chain(changes, doc.text, edits), Sound(doc'), doc'.text = ApplyEdits(doc.text, edits),
           AdapterAfter(changes)
    PROVE  LET p == IF FollowsChanges THEN Followed(changes) ELSE Resynced(doc') IN
           /\ Follows(p)
           /\ Mirrors(adapter') /\ Agree(adapter', doc') /\ adapter'.index = p.a.index
           /\ FollowsChanges => adapter' = [p.a EXCEPT
                                  !.revision = doc'.revision, !.tracker = NoComposition,
                                  !.composition = IF adapter.tracker = NoComposition
                                                    THEN @ ELSE NoComposition]
<1> DEFINE p == IF FollowsChanges THEN Followed(changes) ELSE Resynced(doc')
           d == doc'
<1>1. d.text \in Text /\ d.revision \in Nat /\ Sound(d) /\ d.text = ApplyEdits(doc.text, edits)
  BY SoundText
<1>2. Follows(p) /\ p.a.mirror = d.text
  <2>1. ASSUME FollowsChanges PROVE Follows(Followed(changes)) /\ Followed(changes).a.mirror = d.text
    <3>1. adapter.mirror = doc.text
      BY <2>1 DEF FollowsChanges, Going, Agree
    <3>2. Follows(Pane)
      BY PaneFollows
    <3>3. Chain(changes, adapter.mirror, edits)
      BY <3>1
    <3> HIDE DEF d
    <3> QED
      BY <1>1, <3>1, <3>2, <3>3, ChangesFollowed
  <2>2. Follows(Resynced(d)) /\ Resynced(d).a.mirror = d.text
    <3> HIDE DEF d
    <3> QED
      BY <1>1, ResyncedFollows
  <2> QED
    BY <2>1, <2>2
<1> DEFINE a == p.a
<1>3. a \in Adapter /\ Indexes(a.index, a.mirror) /\ a.mirror = d.text
  BY <1>2 DEF Follows, Mirrors
<1>4. NoComposition \in Composition /\ a.composition \in Composition
  BY <1>3 DEF Composition, Adapter
<1>5. CASE FollowsChanges
  <2> DEFINE c == IF adapter.tracker = NoComposition THEN a.composition ELSE NoComposition
             b == [a EXCEPT !.revision = d.revision, !.tracker = NoComposition,
                            !.composition = c]
  <2>1. adapter' = b
    BY <1>5 DEF AdapterAfter, FollowChanges
  <2>2. c \in Composition
    BY <1>4
  <2>3. p = Followed(changes)
    BY <1>5
  <2>4. adapter' = [p.a EXCEPT !.revision = doc'.revision, !.tracker = NoComposition,
                               !.composition = IF adapter.tracker = NoComposition
                                                 THEN @ ELSE NoComposition]
    BY <1>5 DEF AdapterAfter, FollowChanges
  <2> HIDE DEF d, c, a, p
  <2>5. b \in Adapter /\ b.index = a.index /\ b.mirror = a.mirror /\ b.revision = d.revision
    BY <1>1, <1>3, <1>4, <2>2 DEF Adapter
  <2> HIDE DEF b
  <2>6. Mirrors(b) /\ Agree(b, d)
    BY <1>3, <2>5 DEF Mirrors, Agree
  <2> QED
    BY <1>2, <2>1, <2>4, <2>5, <2>6 DEF d, a, p
<1>6. CASE ~ FollowsChanges
  <2> DEFINE b == [a EXCEPT !.revision = d.revision, !.pending = FALSE,
                            !.composition = NoComposition]
  <2>1. adapter' = b
    BY <1>6 DEF AdapterAfter
  <2> HIDE DEF d, a, p
  <2>2. b \in Adapter /\ b.index = a.index /\ b.mirror = a.mirror /\ b.revision = d.revision
    BY <1>1, <1>3, <1>4 DEF Adapter
  <2> HIDE DEF b
  <2>3. Mirrors(b) /\ Agree(b, d)
    BY <1>3, <2>2 DEF Mirrors, Agree
  <2> QED
    BY <1>2, <1>6, <2>1, <2>2, <2>3 DEF d, a, p
<1> QED
  BY <1>5, <1>6

\* A commit of the adapter, which has made the edit in its mirror.
LEMMA CommitAgrees ==
    ASSUME Sound(doc), NEW a, Mirrors(a), NEW base, NEW e \in Edit, Plain(e.with),
           NEW kind \in Kind, a.mirror = Splice(doc.text, e),
           CommitLocal(a, base, e, kind), status = "running", status' = "running"
    PROVE  Sound(doc') /\ Mirrors(adapter') /\ Agree(adapter', doc')
<1> DEFINE tx == [base |-> base, kind |-> kind, edits |-> <<e>>]
           d == Applied(doc, tx, NoContext)
<1>1. a \in Adapter /\ Indexes(a.index, a.mirror)
  BY AdapterIs
<1>2. CASE deciding
  <2> DEFINE b == [a EXCEPT !.pending = TRUE]
  <2>1. adapter' = b /\ doc' = doc
    BY <1>2 DEF CommitLocal
  <2>2. b \in Adapter /\ b.index = a.index /\ b.mirror = a.mirror /\ b.pending = TRUE
    BY <1>1 DEF Adapter
  <2> HIDE DEF b
  <2>3. Mirrors(b) /\ Agree(b, doc)
    BY <1>1, <2>2 DEF Mirrors, Agree
  <2> QED
    BY <2>1, <2>3
<1>3. CASE ~ deciding /\ Accepts(doc, tx)
  <2> DEFINE b == [a EXCEPT !.revision = d.revision]
  <2>1. doc' = d /\ adapter' = b
    BY <1>3 DEF CommitLocal
  <2>2. tx \in Transaction /\ tx.edits = <<e>> /\ PlainScript(tx.edits)
    <3>1. <<e>> \in Script /\ Len(<<e>>) = 1 /\ <<e>>[1] = e
      BY OneIsScript
    <3>2. base \in Nat
      <4>1. base = doc.revision
        BY <1>3 DEF Accepts
      <4> QED
        BY <4>1, SoundText
    <3> DEFINE one == <<e>>
    <3> HIDE DEF one
    <3>3. PlainScript(one)
      BY <3>1 DEF PlainScript, one
    <3> QED
      BY <3>1, <3>2, <3>3 DEF Transaction, one
  <2> HIDE DEF tx
  <2>3. Sound(d) /\ d.revision = doc.revision + 1 /\ d.text = ApplyEdits(doc.text, tx.edits)
    BY <1>3, <2>2, AppliedSound
  <2>4. d.text = Splice(doc.text, e) /\ d.revision \in Nat
    BY <2>2, <2>3, ApplyOne, SoundText
  <2> HIDE DEF d
  <2>5. b \in Adapter /\ b.index = a.index /\ b.mirror = a.mirror /\ b.revision = d.revision
    BY <1>1, <2>4 DEF Adapter
  <2> HIDE DEF b
  <2>6. Mirrors(b) /\ Agree(b, d)
    BY <1>1, <2>4, <2>5 DEF Mirrors, Agree
  <2> QED
    BY <2>1, <2>3, <2>6
<1>4. CASE ~ deciding /\ ~ Accepts(doc, tx)
  BY <1>4 DEF CommitLocal
<1> QED
  BY <1>2, <1>3, <1>4

\* What a key changes in the mirror fits it.
LEMMA DeltaFits ==
    ASSUME adapter.mirror \in Text, NEW sel \in Selection,
           sel.anchor <= Len(adapter.mirror), sel.head <= Len(adapter.mirror),
           NEW key \in Keys \cup {Backspace, Delete}
    PROVE  LET e == EditDelta(key, sel) IN
           e \in Edit /\ Fits(adapter.mirror, e) /\ Plain(e.with)
<1> DEFINE m == adapter.mirror
           n == Len(m)
           e == EditDelta(key, sel)
           none == << >>
<1>1. m \in Text /\ n \in Nat /\ none \in Text /\ Plain(none)
  BY PlainGiven DEF Text
<1>2. sel.anchor \in Nat /\ sel.head \in Nat /\ sel.head <= n
  BY DEF Selection
<1>3. ASSUME NEW word \in Text, Plain(word)
      PROVE  Over(sel, word) \in Edit /\ Fits(m, Over(sel, word)) /\ Plain(Over(sel, word).with)
  BY <1>1, <1>3, OverFits
<1>4. CASE key = Backspace /\ Collapsed(sel)
  <2> DEFINE z == 0
             i == Max({z, sel.head - 1})
             f == [from |-> i, to |-> sel.head, with |-> none]
  <2>1. e = f
    <3>1. Backspace # Delete
      BY DEF Backspace, Delete
    <3> QED
      BY <1>4, <3>1 DEF EditDelta
  <2>2. i \in Nat /\ i <= sel.head
    <3> DEFINE j == sel.head - 1
               S == {z, j}
    <3>1. S \subseteq -1 .. sel.head /\ S # {}
      BY <1>2
    <3>2. sel.head \in Int /\ -1 \in Int
      BY <1>2
    <3> DEFINE x == -1
    <3> HIDE DEF S, j, z, x
    <3>3. Max(S) \in S /\ \A k \in S : k <= Max(S)
      BY <3>1, <3>2, MaxIs DEF x
    <3> QED
      BY <1>2, <3>3 DEF S, j, z
  <2> HIDE DEF i, none
  <2>3. f \in Edit /\ Fits(m, f) /\ Plain(f.with)
    BY <1>1, <1>2, <2>2 DEF Edit, Fits
  <2> QED
    BY <2>1, <2>3
<1>5. CASE key = Delete /\ Collapsed(sel)
  <2> DEFINE l == sel.head + 1
             i == Min({n, l})
             f == [from |-> sel.head, to |-> i, with |-> none]
  <2>1. e = f
    <3>1. Backspace # Delete
      BY DEF Backspace, Delete
    <3> QED
      BY <1>5, <3>1 DEF EditDelta
  <2>2. i \in Nat /\ sel.head <= i /\ i <= n
    <3> DEFINE S == {n, l}
    <3>1. S \subseteq 0 .. n + l /\ S # {} /\ n + l \in Nat
      BY <1>1, <1>2
    <3> DEFINE x == n + l
    <3> HIDE DEF S, l, x, n
    <3>2. Min(S) \in S /\ Min(S) \in 0 .. x /\ \A k \in S : Min(S) <= k
      BY <3>1, EndsIn DEF x
    <3> QED
      BY <1>1, <1>2, <3>2 DEF S, l
  <2> HIDE DEF i, none
  <2>3. f \in Edit /\ Fits(m, f) /\ Plain(f.with)
    BY <1>1, <1>2, <2>2 DEF Edit, Fits
  <2> QED
    BY <2>1, <2>3
<1>6. CASE ~ Collapsed(sel) /\ key \in {Backspace, Delete}
  <2>1. e = Over(sel, none)
    BY <1>6 DEF EditDelta
  <2> QED
    BY <1>1, <1>3, <2>1
<1>7. CASE key \notin {Backspace, Delete}
  <2>1. e = Over(sel, key)
    BY <1>7 DEF EditDelta
  <2>2. key \in Text /\ Plain(key)
    BY <1>7, PlainGiven
  <2> QED
    BY <1>3, <2>1, <2>2
<1> QED
  BY <1>4, <1>5, <1>6, <1>7

LEMMA PerformedShows ==
    ASSUME NEW w, Shows(w), NEW key \in Keys \cup {Backspace, Delete}
    PROVE  Shows(Performed(w, key))
<1> DEFINE n == Len(w.text)
           none == << >>
           x == Performed(w, key)
<1>1. /\ w \in [text : Text, sel : Selection] /\ w.text \in Text /\ n \in Nat
      /\ w.sel \in Selection /\ w.sel.anchor \in Nat /\ w.sel.head \in Nat
      /\ w.sel.anchor <= n /\ w.sel.head <= n
  BY DEF Shows, Selection, Text
<1>2. none \in Text /\ \A k \in Keys : k \in Text
  BY PlainGiven
<1>3. CASE key = Backspace /\ Collapsed(w.sel)
  <2> DEFINE z == 0
             i == Max({z, w.sel.anchor - 1})
             y == [w EXCEPT !.sel.anchor = i]
  <2>1. x = Typed(y, none)
    <3>1. Backspace # Delete
      BY DEF Backspace, Delete
    <3> QED
      BY <1>3, <3>1 DEF Performed
  <2>2. i \in Nat /\ i <= n
    <3> DEFINE j == w.sel.anchor - 1
               S == {z, j}
               h == -1
    <3>1. S \subseteq -1 .. n /\ S # {} /\ n \in Int /\ h \in Int /\ h = -1
      BY <1>1
    <3>2. z = 0 /\ j <= n
      BY <1>1
    <3> HIDE DEF S, j, z, h
    <3>3. Max(S) \in S /\ \A k \in S : k <= Max(S)
      BY <3>1, MaxIs
    <3> QED
      BY <1>1, <3>2, <3>3 DEF S, j
  <2> HIDE DEF i
  <2>3. Shows(y)
    <3>1. y.sel = [w.sel EXCEPT !.anchor = i] /\ y.text = w.text
          /\ y \in [text : Text, sel : Selection]
      BY <1>1, <2>2 DEF Selection
    <3>2. y.sel.anchor = i /\ y.sel.head = w.sel.head
      BY <1>1, <3>1 DEF Selection
    <3> HIDE DEF y
    <3> QED
      BY <1>1, <2>2, <3>1, <3>2 DEF Shows
  <2> HIDE DEF y, none
  <2> QED
    BY <1>2, <2>1, <2>3, TypedShows
<1>4. CASE key = Delete /\ Collapsed(w.sel)
  <2> DEFINE l == w.sel.head + 1
             i == Min({n, l})
             y == [w EXCEPT !.sel.head = i]
  <2>1. x = Typed(y, none)
    <3>1. Backspace # Delete
      BY DEF Backspace, Delete
    <3> QED
      BY <1>4, <3>1 DEF Performed
  <2>2. i \in Nat /\ i <= n
    <3> DEFINE S == {n, l}
               h == n + l
    <3>1. S \subseteq 0 .. h /\ S # {} /\ h \in Nat /\ n \in S
      BY <1>1
    <3> HIDE DEF S, l, h, n
    <3>2. Min(S) \in S /\ Min(S) \in 0 .. h /\ \A k \in S : Min(S) <= k
      BY <3>1, EndsIn
    <3> QED
      BY <3>1, <3>2 DEF S
  <2> HIDE DEF i
  <2>3. Shows(y)
    <3>1. y.sel = [w.sel EXCEPT !.head = i] /\ y.text = w.text
          /\ y \in [text : Text, sel : Selection]
      BY <1>1, <2>2 DEF Selection
    <3>2. y.sel.head = i /\ y.sel.anchor = w.sel.anchor
      BY <1>1, <3>1 DEF Selection
    <3> HIDE DEF y
    <3> QED
      BY <1>1, <2>2, <3>1, <3>2 DEF Shows
  <2> HIDE DEF y, none
  <2> QED
    BY <1>2, <2>1, <2>3, TypedShows
<1>5. CASE ~ Collapsed(w.sel) /\ key \in {Backspace, Delete}
  <2>1. x = Typed(w, none)
    BY <1>5 DEF Performed
  <2> QED
    BY <1>2, <2>1, TypedShows
<1>6. CASE key \notin {Backspace, Delete}
  <2>1. x = Typed(w, key)
    BY <1>6 DEF Performed
  <2> QED
    BY <1>2, <1>6, <2>1, TypedShows
<1> QED
  BY <1>3, <1>4, <1>5, <1>6

LEMMA PressKeeps ==
    ASSUME EditorInv, NEW key \in Keys \cup {Backspace, Delete}, Press(key),
           status' = "running"
    PROVE  Going(doc', widget', adapter', find')
<1> DEFINE sel == SelectionRead.sel
           e == EditDelta(key, sel)
           a == Mirrored(adapter, e)
<1>1. Going(doc, widget, adapter, find) /\ status = "running"
  BY DEF EditorInv, Press
<1>2. /\ ~ adapter.pending /\ SelectionRead.ok
      /\ widget' = Performed(widget, key)
      /\ CommitLocal(a, adapter.revision, e, "typing")
      /\ find' = find
  BY DEF Press, Fail, Crash
<1>3. sel \in Selection /\ sel.anchor <= Len(adapter.mirror) /\ sel.head <= Len(adapter.mirror)
  BY <1>1, <1>2, SelectionFits
<1> HIDE DEF sel
<1>4. e \in Edit /\ Fits(adapter.mirror, e) /\ Plain(e.with)
  <2>1. adapter.mirror \in Text
    BY <1>1, AdapterIs DEF Going
  <2> QED
    BY <1>3, <2>1, DeltaFits
<1> HIDE DEF e
<1>5. Mirrors(a) /\ a.mirror = Splice(adapter.mirror, e)
  BY <1>1, <1>4, MirroredMirrors DEF Going
<1>6. a.mirror = Splice(doc.text, e)
  BY <1>1, <1>2, <1>5 DEF Going, Agree
<1> HIDE DEF a
<1>7. Sound(doc') /\ Mirrors(adapter') /\ Agree(adapter', doc')
  <2>1. "typing" \in Kind
    BY DEF Kind
  <2> DEFINE kind == "typing"
  <2> HIDE DEF kind
  <2> QED
    BY <1>1, <1>2, <1>4, <1>5, <1>6, <2>1, CommitAgrees DEF Going, kind
<1>8. Shows(widget')
  BY <1>1, <1>2, PerformedShows DEF Going
<1> QED
  BY <1>1, <1>2, <1>7, <1>8 DEF Going

LEMMA MoveCaretKeeps ==
    ASSUME EditorInv, NEW i \in 0 .. Len(widget.text), NEW j \in i .. Len(widget.text),
           MoveCaret([anchor |-> i, head |-> j])
    PROVE  Going(doc', widget', adapter', find')
<1> DEFINE sel == [anchor |-> i, head |-> j]
           x == [widget EXCEPT !.sel = sel]
<1>1. Going(doc, widget, adapter, find)
  BY DEF EditorInv, MoveCaret
<1>2. widget' = x /\ UNCHANGED <<doc, adapter, find>>
  BY DEF MoveCaret
<1>3. /\ widget \in [text : Text, sel : Selection] /\ Len(widget.text) \in Nat
  BY <1>1 DEF Going, Shows, Text
<1>4. sel \in Selection /\ sel.anchor <= Len(widget.text) /\ sel.head <= Len(widget.text)
  BY <1>3 DEF Selection
<1> HIDE DEF sel
<1>5. x \in [text : Text, sel : Selection] /\ x.text = widget.text /\ x.sel = sel
  BY <1>3, <1>4
<1> HIDE DEF x
<1>6. Shows(x)
  BY <1>4, <1>5 DEF Shows
<1> QED
  BY <1>1, <1>2, <1>6 DEF Going

LEMMA CancelledMirrors ==
    ASSUME NEW a, Mirrors(a), NEW d, Agree(a, d)
    PROVE  Mirrors(Cancelled(a)) /\ Agree(Cancelled(a), d)
<1> DEFINE b == Cancelled(a)
<1>1. b = [a EXCEPT !.composition = NoComposition, !.tracker = NoComposition]
  BY DEF Cancelled
<1>2. a \in Adapter /\ Indexes(a.index, a.mirror) /\ NoComposition \in Composition
  BY AdapterIs DEF Composition
<1> HIDE DEF b
<1>3. /\ b \in Adapter /\ b.index = a.index /\ b.mirror = a.mirror
      /\ b.pending = a.pending /\ b.revision = a.revision
  BY <1>1, <1>2 DEF Adapter
<1>4. Mirrors(b) /\ Agree(b, d)
  BY <1>2, <1>3 DEF Mirrors, Agree
<1> QED
  BY <1>4 DEF b

LEMMA ComposingMirrors ==
    ASSUME Going(doc, widget, adapter, find), SelectionRead.ok, NEW a, Mirrors(a), Agree(a, doc)
    PROVE  Mirrors(Composing(a)) /\ Agree(Composing(a), doc)
<1> DEFINE sel == SelectionRead.sel
           c == [id |-> a.compositions + 1, base |-> a.revision,
                 from |-> From(sel), to |-> To(sel)]
           b == Composing(a)
           t == IF a.tracker = NoComposition THEN c ELSE a.tracker
<1>1. sel \in Selection
  BY SelectionFits
<1> HIDE DEF sel
<1>2. /\ a \in Adapter /\ Indexes(a.index, a.mirror) /\ a.compositions \in Nat
      /\ a.revision \in Nat /\ a.tracker \in Composition
  BY AdapterIs
<1>3. c \in Composition
  <2>1. From(sel) \in Nat /\ To(sel) \in Nat /\ From(sel) <= To(sel)
    BY <1>1, EndsOf
  <2> QED
    BY <1>2, <2>1 DEF Composition
<1> DEFINE k == a.compositions + 1
<1>4. b = [a EXCEPT !.compositions = k, !.composition = c, !.tracker = t] /\ k \in Nat
  BY <1>2 DEF Composing, sel
<1>5. t \in Composition
  BY <1>2, <1>3
<1> HIDE DEF b, c, t, k
<1>6. /\ b \in Adapter /\ b.index = a.index /\ b.mirror = a.mirror
      /\ b.pending = a.pending /\ b.revision = a.revision
  BY <1>2, <1>3, <1>4, <1>5 DEF Adapter
<1>7. Mirrors(b) /\ Agree(b, doc)
  BY <1>2, <1>6 DEF Mirrors, Agree
<1> QED
  BY <1>7 DEF b

LEMMA CompositionKeeps ==
    ASSUME Going(doc, widget, adapter, find), NEW a, Mirrors(a), Agree(a, doc),
           StartComposition(a), status' = "running"
    PROVE  Going(doc', widget', adapter', find')
<1>1. /\ SelectionRead.ok /\ adapter' = Composing(a)
      /\ UNCHANGED <<doc, widget, find>>
  BY DEF StartComposition, Fail, Crash
<1>2. Mirrors(Composing(a)) /\ Agree(Composing(a), doc)
  BY <1>1, ComposingMirrors
<1> QED
  BY <1>1, <1>2 DEF Going

LEMMA ImeStartKeeps ==
    ASSUME EditorInv, ImeOpened \/ ImePreedit, status' = "running"
    PROVE  Going(doc', widget', adapter', find')
<1>1. Going(doc, widget, adapter, find)
  BY DEF EditorInv, ImeOpened, ImePreedit
<1>2. PICK a \in {adapter, Cancelled(adapter)} : StartComposition(a)
  BY DEF ImeOpened, ImePreedit
<1>3. Mirrors(a) /\ Agree(a, doc)
  BY <1>1, CancelledMirrors DEF Going
<1> QED
  BY <1>1, <1>2, <1>3, CompositionKeeps

LEMMA ImeClosedKeeps ==
    ASSUME EditorInv, ImeClosed
    PROVE  Going(doc', widget', adapter', find')
<1>1. Going(doc, widget, adapter, find) /\ adapter' = Cancelled(adapter)
      /\ UNCHANGED <<doc, widget, find>>
  BY DEF EditorInv, ImeClosed
<1> QED
  BY <1>1, CancelledMirrors DEF Going

LEMMA ImeCommitKeeps ==
    ASSUME EditorInv, NEW word \in Keys, ImeCommit(word), status' = "running"
    PROVE  Going(doc', widget', adapter', find')
<1> DEFINE c == adapter.composition
           e == [from |-> c.from, to |-> c.to, with |-> word]
           m == Mirrored(adapter, e)
           a == [m EXCEPT !.composition = NoComposition]
           b == [a EXCEPT !.tracker = NoComposition]
<1>1. Going(doc, widget, adapter, find) /\ status = "running"
  BY DEF EditorInv, ImeCommit
<1>2. /\ ~ adapter.pending /\ c # NoComposition /\ ~ (c.to > Len(adapter.mirror))
      /\ widget' = Typed(widget, word)
      /\ find' = find
      /\ CommitLocal(b, c.base, e, "ime")
  BY DEF ImeCommit, Fail, Crash
<1>3. word \in Text /\ Plain(word)
  BY PlainGiven
<1>4. adapter.mirror \in Text /\ c \in Composition
  BY <1>1, AdapterIs DEF Going
<1>5. e \in Edit /\ Fits(adapter.mirror, e) /\ Plain(e.with)
  <2>1. c.from \in Nat /\ c.to \in Nat /\ c.from <= c.to
    BY <1>2, <1>4 DEF Composition
  <2>2. Len(adapter.mirror) \in Nat
    BY <1>4 DEF Text
  <2> HIDE DEF c
  <2> QED
    BY <1>2, <1>3, <2>1, <2>2 DEF Edit, Fits
<1> HIDE DEF e
<1>6. Mirrors(m) /\ m.mirror = Splice(adapter.mirror, e)
  BY <1>1, <1>5, MirroredMirrors DEF Going
<1> HIDE DEF m
<1>7. Mirrors(b) /\ b.mirror = m.mirror
  <2>1. m \in Adapter /\ Indexes(m.index, m.mirror) /\ NoComposition \in Composition
    BY <1>6, AdapterIs DEF Composition
  <2>2. b \in Adapter /\ b.index = m.index /\ b.mirror = m.mirror
    BY <2>1 DEF Adapter
  <2> HIDE DEF b
  <2> QED
    BY <2>1, <2>2 DEF Mirrors
<1>8. b.mirror = Splice(doc.text, e)
  BY <1>1, <1>2, <1>6, <1>7 DEF Going, Agree
<1> HIDE DEF b
<1>9. Sound(doc') /\ Mirrors(adapter') /\ Agree(adapter', doc')
  <2> DEFINE kind == "ime"
             base == c.base
  <2>1. kind \in Kind /\ CommitLocal(b, base, e, kind)
    BY <1>2 DEF Kind
  <2> HIDE DEF kind, base
  <2> QED
    BY <1>1, <1>5, <1>7, <1>8, <2>1, CommitAgrees DEF Going
<1>10. Shows(widget')
  BY <1>1, <1>2, <1>3, TypedShows DEF Going
<1> QED
  BY <1>1, <1>2, <1>9, <1>10 DEF Going

LEMMA PasteKeeps ==
    ASSUME EditorInv, NEW word \in Pastes, Paste(word), status' = "running"
    PROVE  Going(doc', widget', adapter', find')
<1> DEFINE sel == SelectionRead.sel
           e == Over(sel, word)
           one == <<e>>
           changes == <<one>>
           tx == [base |-> doc.revision, kind |-> "programmatic", edits |-> one]
           caret == CaretAt(e.from + Len(word))
           p == IF FollowsChanges THEN Followed(changes) ELSE Resynced(doc')
<1>1. Going(doc, widget, adapter, find)
  BY DEF EditorInv, Paste
<1>2. /\ SelectionRead.ok
      /\ Accepts(doc, [base |-> doc.revision, edits |-> one])
      /\ doc' = Applied(doc, tx, NoContext)
      /\ AfterSharedEdit(changes, caret)
      /\ find' = find
  BY DEF Paste, Crash
<1>3. word \in Text /\ Plain(word)
  BY PlainGiven
<1>4. e \in Edit /\ e.with = word /\ e.from \in Nat
  <2>1. sel \in Selection /\ sel.anchor <= Len(adapter.mirror) /\ sel.head <= Len(adapter.mirror)
    BY <1>1, <1>2, SelectionFits
  <2>2. adapter.mirror \in Text
    BY <1>1, AdapterIs DEF Going
  <2> HIDE DEF sel
  <2>3. e \in Edit /\ e.with = word
    BY <1>3, <2>1, <2>2, OverFits
  <2> HIDE DEF e
  <2> QED
    BY <2>3 DEF Edit
<1>5. caret \in Selection
  <2>1. Len(word) \in Nat
    BY <1>3 DEF Text
  <2>2. e.from + Len(word) \in Nat
    BY <1>4, <2>1
  <2> QED
    BY <2>2, CaretIn
<1> HIDE DEF e
<1>6. one \in Script /\ Len(one) = 1 /\ one[1] = e
  BY <1>4, OneIsScript
<1> HIDE DEF one
<1>7. Accepts(doc, tx) /\ tx \in Transaction /\ PlainScript(tx.edits) /\ tx.edits = one
  <2>1. Accepts(doc, tx)
    BY <1>2 DEF Accepts
  <2>2. tx \in Transaction
    BY <1>1, <1>6, SoundText DEF Transaction, Kind, Going
  <2>3. PlainScript(one)
    BY <1>3, <1>4, <1>6 DEF PlainScript
  <2> QED
    BY <2>1, <2>2, <2>3
<1> HIDE DEF tx
<1>8. Sound(doc') /\ doc'.text = ApplyEdits(doc.text, one) /\ Tidy(doc.text, one)
  BY <1>1, <1>2, <1>7, AppliedSound DEF Going
<1>9. doc.text \in Text /\ changes \in Seq(Script)
  BY <1>1, <1>6, SoundText DEF Going
<1>10. Chain(changes, doc.text, one)
  BY <1>6, <1>8, <1>9, ChainOne
<1> HIDE DEF changes
<1>11. AdapterAfter(changes) /\ widget' = Placed(p.w, adapter'.index, caret)
  BY <1>2 DEF AfterSharedEdit
<1>12. /\ Follows(p) /\ Mirrors(adapter') /\ Agree(adapter', doc')
  BY <1>1, <1>8, <1>9, <1>10, <1>11, Adapting
<1> HIDE DEF p, caret
<1>13. Shows(widget')
  <2>1. adapter'.mirror \in Text /\ Indexes(adapter'.index, adapter'.mirror)
    BY <1>12, AdapterIs
  <2> QED
    BY <1>5, <1>11, <1>12, <2>1, PlacedShows DEF Follows
<1> QED
  BY <1>1, <1>2, <1>8, <1>12, <1>13 DEF Going

\* Undo and redo, whose one list of edits the widget follows.
LEMMA StepsBackKeeps ==
    ASSUME Going(doc, widget, adapter, find), NEW edits \in Script, Tidy(doc.text, edits),
           Sound(doc'), doc'.text = ApplyEdits(doc.text, edits), FollowsChanges,
           FollowChanges(<<edits>>, doc'), widget' = Followed(<<edits>>).w, find' = find
    PROVE  Going(doc', widget', adapter', find')
<1> DEFINE changes == <<edits>>
<1>1. doc.text \in Text /\ changes \in Seq(Script)
  BY SoundText DEF Going
<1>2. Chain(changes, doc.text, edits)
  BY <1>1, ChainOne
<1>3. AdapterAfter(changes)
  BY DEF AdapterAfter
<1> DEFINE p == IF FollowsChanges THEN Followed(changes) ELSE Resynced(doc')
<1>4. p = Followed(changes)
  OBVIOUS
<1>5. widget' = p.w
  BY <1>4
<1> HIDE DEF changes
<1>6. /\ Follows(p) /\ Mirrors(adapter') /\ Agree(adapter', doc')
  BY <1>1, <1>2, <1>3, Adapting
<1> HIDE DEF p
<1> QED
  BY <1>5, <1>6 DEF Follows, Going

LEMMA UndoKeyKeeps ==
    ASSUME EditorInv, UndoKey, status' = "running"
    PROVE  Going(doc', widget', adapter', find')
<1> DEFINE back == Last(doc.undo).inverse
<1>1. Going(doc, widget, adapter, find) /\ CanUndo(doc)
  BY DEF EditorInv, UndoKey
<1>2. /\ doc' = Undone(doc) /\ find' = find /\ FollowsChanges
      /\ FollowChanges(<<back>>, doc') /\ widget' = Followed(<<back>>).w
  BY DEF UndoKey
<1>3. /\ Sound(Undone(doc)) /\ back \in Script /\ Tidy(doc.text, back)
      /\ Undone(doc).text = ApplyEdits(doc.text, back)
  BY <1>1, UndoneSound DEF Going
<1> HIDE DEF back
<1>4. Sound(doc') /\ doc'.text = ApplyEdits(doc.text, back)
  BY <1>2, <1>3
<1> QED
  BY <1>1, <1>2, <1>3, <1>4, StepsBackKeeps

LEMMA RedoKeyKeeps ==
    ASSUME EditorInv, RedoKey, status' = "running"
    PROVE  Going(doc', widget', adapter', find')
<1> DEFINE edits == Last(doc.redo).edits
<1>1. Going(doc, widget, adapter, find) /\ CanRedo(doc)
  BY DEF EditorInv, RedoKey
<1>2. /\ doc' = Redone(doc) /\ find' = find /\ FollowsChanges
      /\ FollowChanges(<<edits>>, doc') /\ widget' = Followed(<<edits>>).w
  BY DEF RedoKey
<1>3. /\ Sound(Redone(doc)) /\ edits \in Script /\ Tidy(doc.text, edits)
      /\ Redone(doc).text = ApplyEdits(doc.text, edits)
  BY <1>1, RedoneSound DEF Going
<1> HIDE DEF edits
<1>4. Sound(doc') /\ doc'.text = ApplyEdits(doc.text, edits)
  BY <1>2, <1>3
<1> QED
  BY <1>1, <1>2, <1>3, <1>4, StepsBackKeeps

LEMMA LocateKeeps ==
    ASSUME Going(doc, widget, adapter, find),
           NEW session \in [query : Queries, current : Found], NEW from, NEW forward,
           Locate(session, from, forward)
    PROVE  Going(doc', widget', adapter', find')
<1> DEFINE found == FindNext(doc.text, session.query, from, forward, TRUE)
<1>1. /\ find' = [session EXCEPT !.current = found]
      /\ widget' = Highlighted(widget, adapter, doc, found)
      /\ UNCHANGED <<doc, adapter>>
  BY DEF Locate
<1>2. found \in Found
  <2>1. doc.text \in Text /\ session.query \in Queries
    BY SoundText DEF Going
  <2> QED
    BY <2>1, NextFound
<1> HIDE DEF found
<1>3. find' \in Finding
  BY <1>1, <1>2 DEF Finding
<1>4. Shows(widget')
  BY <1>1, <1>2, HighlightedShows DEF Going
<1> QED
  BY <1>1, <1>3, <1>4 DEF Going

LEMMA SearchKeeps ==
    ASSUME EditorInv, NEW query \in Queries, Search(query), status' = "running"
    PROVE  Going(doc', widget', adapter', find')
<1> DEFINE session == [query |-> query, current |-> None]
           from == Caret(SelectionRead)
<1>1. Going(doc, widget, adapter, find)
  BY DEF EditorInv, Search
<1>2. Locate(session, from, TRUE)
  BY DEF Search, Crash
<1>3. session \in [query : Queries, current : Found]
  BY DEF Found
<1> HIDE DEF session, from
<1> QED
  BY <1>1, <1>2, <1>3, LocateKeeps

LEMMA FindMoveKeeps ==
    ASSUME EditorInv, NEW forward \in BOOLEAN, FindMove(forward), status' = "running"
    PROVE  Going(doc', widget', adapter', find')
<1>1. Going(doc, widget, adapter, find) /\ find # NoSession
  BY DEF EditorInv, FindMove
<1>2. find \in [query : Queries, current : Found]
  BY <1>1 DEF Going, Finding
<1>3. \E from : Locate(find, from, forward)
  BY DEF FindMove, Crash
<1> QED
  BY <1>1, <1>2, <1>3, LocateKeeps

LEMMA ReplaceCurrentKeeps ==
    ASSUME EditorInv, NEW word \in Replacements, ReplaceCurrent(word), status' = "running"
    PROVE  Going(doc', widget', adapter', find')
<1> DEFINE m == find.current
           e == [from |-> m.from, to |-> m.to, with |-> word]
           one == <<e>>
           changes == <<one>>
           p == IF FollowsChanges THEN Followed(changes) ELSE Resynced(ApplyPlans(changes))
           caret == CaretAt(e.from + Len(word))
           w == Placed(p.w, p.a.index, caret)
           found == FindNext(doc'.text, find.query, Caret(Read(w, p.a.index)), TRUE, TRUE)
<1>1. /\ Going(doc, widget, adapter, find) /\ status = "running" /\ find # NoSession
      /\ m # None /\ m.to <= Len(doc.text)
  BY DEF EditorInv, ReplaceCurrent
<1>2. find \in [query : Queries, current : Found]
  BY <1>1 DEF Going, Finding
<1>3. /\ PlansFit(changes) /\ doc.revision < LastRevision
      /\ doc' = ApplyPlans(changes)
      /\ AdapterAfter(changes)
      /\ widget' = Highlighted(w, adapter', doc', found)
      /\ find' = [find EXCEPT !.current = found]
  BY DEF ReplaceCurrent
<1>4. /\ doc.text \in Text /\ Plain(doc.text) /\ doc.revision \in Nat /\ LastRevision \in Nat
      /\ word \in Text /\ Plain(word) /\ Len(word) \in Nat
  BY <1>1, SoundText, PlainGiven, DocumentAssumption DEF Going, Text
<1>5. e \in Edit /\ Fits(doc.text, e) /\ caret \in Selection /\ e.with = word
  <2>1. m \in [from : Nat, to : Nat] /\ m.from <= m.to
    BY <1>1, <1>2 DEF Found
  <2>2. e.from + Len(word) \in Nat
    BY <1>4, <2>1
  <2> QED
    BY <1>1, <1>4, <2>1, <2>2, CaretIn DEF Edit, Fits
<1> HIDE DEF e, m
<1>6. one \in Script /\ Len(one) = 1 /\ one[1] = e /\ Tidy(doc.text, one)
  BY <1>4, <1>5, OneIsScript, TidyOne
<1> HIDE DEF one
<1>7. changes \in Seq(Script) /\ Len(changes) = 1 /\ changes[1] = one
  BY <1>6
<1>8. Chain(changes, doc.text, one)
  BY <1>4, <1>6, ChainOne
<1> HIDE DEF changes
<1>9. PlainPlans(changes)
  <2>1. PlainScript(one)
    BY <1>4, <1>5, <1>6 DEF PlainScript
  <2> QED
    BY <1>7, <2>1 DEF PlainPlans
<1>10. doc.revision + Len(changes) <= LastRevision
  BY <1>3, <1>4, <1>7
<1>11. Sound(doc') /\ doc'.text = ApplyEdits(doc.text, one)
  BY <1>1, <1>3, <1>7, <1>8, <1>9, <1>10, PlansApplied DEF Going
<1>12. p = IF FollowsChanges THEN Followed(changes) ELSE Resynced(doc')
  BY <1>3
<1> HIDE DEF p, caret
<1>13. /\ Follows(p) /\ Mirrors(adapter') /\ Agree(adapter', doc')
  BY <1>1, <1>3, <1>7, <1>8, <1>11, <1>12, Adapting
<1>14. Shows(w)
  <2>1. p.a.mirror \in Text /\ Indexes(p.a.index, p.a.mirror)
    BY <1>13, AdapterIs DEF Follows
  <2> QED
    BY <1>5, <1>13, <2>1, PlacedShows DEF Follows
<1> HIDE DEF w
<1>15. found \in Found
  <2>1. doc'.text \in Text /\ find.query \in Queries
    BY <1>2, <1>11, SoundText
  <2> QED
    BY <2>1, NextFound
<1> HIDE DEF found
<1>16. find' \in Finding
  BY <1>2, <1>3, <1>15 DEF Finding
<1>17. Shows(widget')
  BY <1>3, <1>13, <1>14, <1>15, HighlightedShows
<1> QED
  BY <1>11, <1>13, <1>16, <1>17 DEF Going

\* What replacing every match makes of the document.
LEMMA EveryReplaced ==
    ASSUME EditorInv, NEW word \in Replacements, ReplaceEvery(word)
    PROVE  LET plans == ReplaceAllPlans(doc.text, find.query, word)
               edits == Replacing(doc.text, find.query, word)
           IN  /\ Going(doc, widget, adapter, find)
               /\ find \in [query : Queries, current : Found]
               /\ plans \in Seq(Script) /\ plans # << >>
               /\ PlansFit(plans) /\ Chain(plans, doc.text, edits)
               /\ Sound(doc') /\ doc'.text = ApplyEdits(doc.text, edits)
<1> DEFINE q == find.query
           plans == ReplaceAllPlans(doc.text, q, word)
           edits == Replacing(doc.text, q, word)
<1>1. /\ Going(doc, widget, adapter, find) /\ find # NoSession
      /\ PlansFit(plans) /\ doc.revision + Len(plans) <= LastRevision
      /\ doc' = ApplyPlans(plans)
  BY DEF EditorInv, ReplaceEvery
<1>2. find \in [query : Queries, current : Found] /\ q \in Queries
  BY <1>1 DEF Going, Finding
<1>3. doc.text \in Text /\ word \in Text /\ Plain(word)
  BY <1>1, SoundText, PlainGiven DEF Going
<1>4. plans # << >>
  BY <1>1 DEF PlansFit
<1>5. plans \in Seq(Script) /\ PlainPlans(plans) /\ Chain(plans, doc.text, edits)
  BY <1>2, <1>3, <1>4, PlansChain
<1> HIDE DEF plans, edits, q
<1>6. Sound(doc') /\ doc'.text = ApplyEdits(doc.text, edits)
  BY <1>1, <1>5, PlansApplied DEF Going
<1> QED
  BY <1>1, <1>2, <1>4, <1>5, <1>6 DEF plans, edits, q

LEMMA ReplaceEveryKeeps ==
    ASSUME EditorInv, NEW word \in Replacements, ReplaceEvery(word)
    PROVE  Going(doc', widget', adapter', find')
<1> DEFINE plans == ReplaceAllPlans(doc.text, find.query, word)
           edits == Replacing(doc.text, find.query, word)
           p == IF FollowsChanges THEN Followed(plans) ELSE Resynced(doc')
           i == SelectionAfter(Last(plans))
           caret == CaretAt(i)
<1>1. /\ Going(doc, widget, adapter, find)
      /\ find \in [query : Queries, current : Found]
      /\ plans \in Seq(Script) /\ plans # << >>
      /\ PlansFit(plans) /\ Chain(plans, doc.text, edits)
      /\ Sound(doc') /\ doc'.text = ApplyEdits(doc.text, edits)
  BY EveryReplaced
<1>2. AfterSharedEdit(plans, caret) /\ find' = [find EXCEPT !.current = None]
  BY DEF ReplaceEvery
<1> HIDE DEF plans, edits
<1>3. AdapterAfter(plans) /\ widget' = Placed(p.w, adapter'.index, caret)
  BY <1>2 DEF AfterSharedEdit
<1>4. /\ Follows(p) /\ Mirrors(adapter') /\ Agree(adapter', doc')
  BY <1>1, <1>3, Adapting
<1>5. i \in Nat
  <2> DEFINE n == Len(plans)
  <2>1. n \in Nat /\ n \in 1 .. n /\ Last(plans) = plans[n] /\ plans[n] \in Script
    BY <1>1 DEF Last
  <2>2. PICK U \in [0 .. n -> Text] :
            \A j \in 1 .. n : Tidy(U[j - 1], plans[j])
    BY <1>1 DEF Chain
  <2>3. n - 1 \in 0 .. n
    BY <2>1
  <2>4. U[n - 1] \in Text /\ Tidy(U[n - 1], plans[n])
    BY <2>1, <2>2, <2>3
  <2>5. plans[n] # << >>
    <3>1. PlanFits(plans[n])
      <4>1. plans[n] \in ToSet(plans)
        BY <2>1 DEF ToSet
      <4> QED
        BY <1>1, <4>1 DEF PlansFit
    <3>2. Len(plans[n]) \in 1 .. MaxPlanEdits /\ MaxPlanEdits \in Nat
      BY <3>1, FindReplaceAssumption DEF PlanFits
    <3>3. Len(<< >>) = 0 /\ Len(plans[n]) # 0
      BY <3>2
    <3> QED
      BY <3>3
  <2> QED
    BY <2>1, <2>4, <2>5, AfterLast
<1>6. caret \in Selection
  BY <1>5, CaretIn
<1> HIDE DEF p, caret
<1>7. Shows(widget')
  <2>1. adapter'.mirror \in Text /\ Indexes(adapter'.index, adapter'.mirror)
    BY <1>4, AdapterIs
  <2> QED
    BY <1>3, <1>4, <1>6, <2>1, PlacedShows DEF Follows
<1>8. find' \in Finding
  BY <1>1, <1>2 DEF Finding, Found
<1> QED
  BY <1>1, <1>4, <1>7, <1>8 DEF Going

LEMMA ShowKeeps ==
    ASSUME Going(doc, widget, adapter, find), NEW text \in Opened,
           Show(NewDocument(text)), find' = find
    PROVE  Going(doc', widget', adapter', find')
<1> DEFINE d == NewDocument(text)
           w == [text |-> d.text, sel |-> CaretAt(Len(d.text))]
<1>1. doc' = d /\ adapter' = Installed(adapter, d) /\ widget' = w
  BY DEF Show
<1>2. Sound(d) /\ d.text \in Text
  <2>1. text \in Text /\ Plain(text)
    BY PlainGiven
  <2> QED
    BY <2>1, NewSound
<1> HIDE DEF d
<1>3. Mirrors(Installed(adapter, d)) /\ Agree(Installed(adapter, d), d)
  BY <1>2, InstalledMirrors DEF Going
<1>4. Shows(w)
  BY <1>2, EndShows
<1> HIDE DEF w
<1> QED
  BY <1>1, <1>2, <1>3, <1>4 DEF Going

LEMMA EditorInvInit == Init => EditorInv
<1> SUFFICES ASSUME Init PROVE Going(doc, widget, adapter, find)
  BY DEF EditorInv
<1>1. PICK text \in Opened : doc = NewDocument(text)
  BY DEF Init
<1>2. Sound(doc) /\ doc.text \in Text
  <2>1. text \in Text /\ Plain(text)
    BY PlainGiven
  <2> QED
    BY <1>1, <2>1, NewSound
<1>3. Mirrors(adapter) /\ Agree(adapter, doc)
  BY <1>2, NewMirrors DEF Init
<1>4. Shows(widget)
  BY <1>2, EndShows DEF Init
<1> QED
  BY <1>2, <1>3, <1>4 DEF Going, Finding, Init

LEMMA EditorInvNext == EditorInv /\ [Next]_vars => EditorInv'
<1> SUFFICES ASSUME EditorInv, [Next]_vars, status' = "running"
             PROVE  Going(doc', widget', adapter', find')
  BY DEF EditorInv
<1>1. CASE \E key \in Keys \cup {Backspace, Delete} : Press(key)
  BY <1>1, PressKeeps
<1>2. CASE \E i \in 0 .. Len(widget.text) : \E j \in i .. Len(widget.text) :
              MoveCaret([anchor |-> i, head |-> j])
  BY <1>2, MoveCaretKeeps
<1>3. CASE ImeOpened \/ ImePreedit
  BY <1>3, ImeStartKeeps
<1>4. CASE ImeClosed
  BY <1>4, ImeClosedKeeps
<1>5. CASE \E word \in Keys : ImeCommit(word)
  BY <1>5, ImeCommitKeeps
<1>6. CASE \E word \in Pastes : Paste(word)
  BY <1>6, PasteKeeps
<1>7. CASE UndoKey
  BY <1>7, UndoKeyKeeps
<1>8. CASE RedoKey
  BY <1>8, RedoKeyKeeps
<1>9. CASE \E query \in Queries : Search(query)
  BY <1>9, SearchKeeps
<1>10. CASE \E forward \in BOOLEAN : FindMove(forward)
  BY <1>10, FindMoveKeeps
<1>11. CASE CloseFind
  BY <1>11 DEF CloseFind, EditorInv, Going, Finding
<1>12. CASE \E word \in Replacements : ReplaceCurrent(word)
  BY <1>12, ReplaceCurrentKeeps
<1>13. CASE \E word \in Replacements : ReplaceEvery(word)
  BY <1>13, ReplaceEveryKeeps
<1>14. CASE \E text \in Opened : Reload(text)
  <2>1. PICK text \in Opened : Reload(text)
    BY <1>14
  <2> QED
    BY <2>1, ShowKeeps DEF Reload, EditorInv
<1>15. CASE \E text \in Opened : AdoptRecovery(text)
  <2>1. PICK text \in Opened : AdoptRecovery(text)
    BY <1>15
  <2> QED
    BY <2>1, ShowKeeps DEF AdoptRecovery, EditorInv
<1>16. CASE DismissRecovery
  BY <1>16 DEF DismissRecovery, EditorInv, Going
<1>17. CASE UNCHANGED vars
  BY <1>17 DEF vars, EditorInv, Going
<1> QED
  BY <1>1, <1>2, <1>3, <1>4, <1>5, <1>6, <1>7, <1>8, <1>9, <1>10, <1>11, <1>12, <1>13,
     <1>14, <1>15, <1>16, <1>17 DEF Next

LEMMA EditorInvariance == Spec => []EditorInv
BY EditorInvInit, EditorInvNext, PTL DEF Spec

(***************************************************************************)
(* While the program runs and the adapter waits for no answer, the text it *)
(* computes edits against and the revision it bases them on are those of   *)
(* the document, through keys, input methods, undo, redo, pastes,          *)
(* replacements in any number of plans, reloads and recoveries             *)
(* (IcedEditorAdapter of platform/macos/editor.rs).                        *)
(***************************************************************************)
THEOREM MirrorAgrees == Spec => []MirrorIsDocument
<1>1. EditorInv => MirrorIsDocument
  BY DEF EditorInv, MirrorIsDocument, Settled, Going, Agree
<1> QED
  BY <1>1, EditorInvariance, PTL

(***************************************************************************)
(* The line starts and the length that LineByteIndex::apply keeps up to    *)
(* date, edit by edit, are those from_text computes from the mirror.       *)
(***************************************************************************)
THEOREM IndexAgrees == Spec => []IndexTracks
<1>1. EditorInv => IndexTracks
  BY AdapterIs DEF EditorInv, IndexTracks, Going, Indexes
<1> QED
  BY <1>1, EditorInvariance, PTL

(***************************************************************************)
(* When replace_all changes the document, however many plans the matches   *)
(* take, the text it leaves is that before with every match replaced:      *)
(* each plan is made in the coordinates the ones before it leave, and is   *)
(* accepted at the revision they leave.                                    *)
(***************************************************************************)
THEOREM EveryMatchReplaced == Spec => ReplacesAllOrNothing
<1>1. ASSUME EditorInv, [Next]_vars
      PROVE  [\A word \in Replacements :
                 ReplaceEvery(word) => doc'.text = Replaced(doc.text, find.query, word)]_vars
  BY <1>1, EveryReplaced DEF Replaced
<1> QED
  BY <1>1, EditorInvariance, PTL DEF Spec, ReplacesAllOrNothing
================================================================================
