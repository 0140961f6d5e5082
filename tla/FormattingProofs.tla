--------------------------- MODULE FormattingProofs ----------------------------
(***************************************************************************)
(* Proofs about the formatting commands, for any texts and any markers that *)
(* are no bytes of words: where toggles of lines and of spans are undone by *)
(* a second toggle, and that Enter numbers a list on.                      *)
(***************************************************************************)
EXTENDS Formatting, FiniteSetTheorems, WellFoundedInduction, SequenceTheorems, TLAPS

-----------------------------------------------------------------------------
(* Least and greatest numbers *)

LEMMA Least ==
  ASSUME NEW S, IsFiniteSet(S), S # {}, \A j \in S : j \in Int
  PROVE  \E i \in S : \A j \in S : i <= j
<1> DEFINE Below(i) == {j \in S : j < i}
           T == {Below(i) : i \in S}
<1>1. IsWellFoundedOn(StrictSubsetOrdering(S), SUBSET S)
  <2>1. FiniteSubsetsOf(S) = SUBSET S
    BY FS_FiniteSubsetsOfFinite
  <2>2. IsWellFoundedOn(StrictSubsetOrdering(S), FiniteSubsetsOf(S))
    BY FS_StrictSubsetOrderingWellFounded
  <2> QED
    BY <2>1, <2>2
<1>2. T \subseteq SUBSET S /\ T # {}
  OBVIOUS
<1> HIDE DEF T
<1>3. \E x \in T : \A y \in T : ~ (<<y, x>> \in StrictSubsetOrdering(S))
  BY <1>1, <1>2, WFMin, Zenon
<1>4. PICK i \in S : \A y \in T : ~ (<<y, Below(i)>> \in StrictSubsetOrdering(S))
  BY <1>3 DEF T
<1>5. ASSUME NEW j \in S, j < i PROVE FALSE
  <2>1. i \in Int /\ j \in Int
    OBVIOUS
  <2>2. j \in Below(i) /\ j \notin Below(j)
    BY <1>5, <2>1
  <2>3. ASSUME NEW k \in Below(j) PROVE k \in Below(i)
    <3>1. k \in S /\ k \in Int /\ k < j
      OBVIOUS
    <3> QED
      BY <1>5, <2>1, <3>1
  <2>4. <<Below(j), Below(i)>> \in StrictSubsetOrdering(S)
    <3>1. Below(j) \subseteq S /\ Below(i) \subseteq S /\ Below(j) \subseteq Below(i)
      BY <2>3
    <3> HIDE DEF Below
    <3> QED
      BY <2>2, <3>1 DEF StrictSubsetOrdering
  <2> QED
    BY <1>4, <2>4, Zenon DEF T
<1>6. \A j \in S : j \in Int /\ i \in Int /\ ~(j < i)
  BY <1>5
<1> QED
  BY <1>6

\* A set of numbers between two is finite.
LEMMA Between ==
    ASSUME NEW m \in Int, NEW n \in Int, NEW S, S \subseteq m .. n
    PROVE  IsFiniteSet(S) /\ \A j \in S : j \in Int
<1>1. IsFiniteSet(m .. n)
  BY FS_Interval
<1>2. \A j \in S : j \in Int
  OBVIOUS
<1> QED
  BY <1>1, <1>2, FS_Subset

\* Min and Max of sets of numbers that are not empty.
LEMMA MinIs ==
    ASSUME NEW m \in Int, NEW n \in Int, NEW S, S \subseteq m .. n, S # {}
    PROVE  Min(S) \in S /\ Min(S) \in Int /\ \A j \in S : Min(S) <= j
<1>1. IsFiniteSet(S) /\ \A j \in S : j \in Int
  BY Between
<1>2. \E i \in S : \A j \in S : i <= j
  BY <1>1, Least
<1>3. Min(S) = CHOOSE i \in S : \A j \in S : i <= j
  BY DEF Min
<1> QED
  BY <1>1, <1>2, <1>3, Zenon

LEMMA MaxIs ==
    ASSUME NEW m \in Int, NEW n \in Int, NEW S, S \subseteq m .. n, S # {}
    PROVE  Max(S) \in S /\ Max(S) \in Int /\ \A j \in S : j <= Max(S)
<1> DEFINE T == {k \in 0 .. n - m : n - k \in S}
<1>1. T # {}
  <2>1. PICK j \in S : j \in m .. n
    OBVIOUS
  <2>2. n - j \in 0 .. n - m /\ n - (n - j) = j
    BY <2>1
  <2> QED
    BY <2>2
<1>2. T \subseteq 0 .. n - m /\ 0 \in Int /\ n - m \in Int
  OBVIOUS
<1> HIDE DEF T
<1>3. IsFiniteSet(T) /\ \A k \in T : k \in Int
  BY <1>2, Between
<1>4. PICK l \in T : \A k \in T : l <= k
  BY <1>1, <1>3, Least
<1>5. n - l \in S /\ l \in Int
  BY <1>3, <1>4 DEF T
<1>6. \A j \in S : j \in Int /\ n - l >= j /\ j <= n - l
  <2> TAKE j \in S
  <2>1. j \in m .. n /\ n - j \in 0 .. n - m /\ n - (n - j) = j
    OBVIOUS
  <2>2. n - j \in T
    BY <2>1 DEF T
  <2>3. l <= n - j
    BY <1>4, <2>2
  <2> QED
    BY <1>5, <2>1, <2>3
<1>7. \E i \in S : \A j \in S : i >= j
  BY <1>5, <1>6
<1>8. Max(S) = CHOOSE i \in S : \A j \in S : i >= j
  BY DEF Max
<1>9. Max(S) \in S /\ \A j \in S : Max(S) >= j
  BY <1>7, <1>8, Zenon
<1> QED
  BY <1>6, <1>9

-----------------------------------------------------------------------------
(* Parts of sequences *)

LEMMA Joined ==
    ASSUME NEW S, NEW s \in Seq(S), NEW t \in Seq(S)
    PROVE  /\ s \o t \in Seq(S) /\ Len(s) \in Nat /\ Len(t) \in Nat
           /\ Len(s \o t) = Len(s) + Len(t)
           /\ \A k \in 1 .. Len(s) + Len(t) :
                 (s \o t)[k] = IF k <= Len(s) THEN s[k] ELSE t[k - Len(s)]
BY ConcatProperties, LenProperties

LEMMA Cut ==
    ASSUME NEW S, NEW s \in Seq(S), NEW i \in Nat, NEW j \in Nat, i <= j, j <= Len(s)
    PROVE  /\ SubSeq(s, i + 1, j) \in Seq(S)
           /\ Len(SubSeq(s, i + 1, j)) = j - i
           /\ \A k \in 1 .. j - i : SubSeq(s, i + 1, j)[k] = s[i + k]
<1> DEFINE m == i + 1
<1>1. m \in Int /\ j \in Int /\ Len(s) \in Nat
  OBVIOUS
<1>2. \A k \in m .. j : s[k] \in S
  <2>1. \A k \in m .. j : k \in 1 .. Len(s)
    BY <1>1
  <2> QED
    BY <2>1
<1>3. j - m + 1 = j - i /\ (m <= j \/ (j - i = 0)) /\ \A k \in 1 .. j - i : m + k - 1 = i + k
  OBVIOUS
<1> HIDE DEF m
<1>4. /\ SubSeq(s, m, j) \in Seq(S)
      /\ Len(SubSeq(s, m, j)) = IF m <= j THEN j - m + 1 ELSE 0
      /\ \A k \in 1 .. j - m + 1 : SubSeq(s, m, j)[k] = s[m + k - 1]
  BY <1>1, <1>2, SubSeqProperties
<1>5. Len(SubSeq(s, m, j)) = j - i /\ \A k \in 1 .. j - i : SubSeq(s, m, j)[k] = s[i + k]
  BY <1>3, <1>4
<1> QED
  BY <1>4, <1>5 DEF m

LEMMA CutFront ==
    ASSUME NEW S, NEW s \in Seq(S), NEW j \in 0 .. Len(s)
    PROVE  /\ SubSeq(s, 1, j) \in Seq(S) /\ Len(SubSeq(s, 1, j)) = j
           /\ \A k \in 1 .. j : SubSeq(s, 1, j)[k] = s[k]
<1> DEFINE i == 0
<1>1. i \in Nat /\ i + 1 = 1 /\ j \in Nat /\ i <= j /\ j <= Len(s) /\ j - i = j
      /\ \A k \in 1 .. j : i + k = k
  OBVIOUS
<1> HIDE DEF i
<1>2. /\ SubSeq(s, i + 1, j) \in Seq(S) /\ Len(SubSeq(s, i + 1, j)) = j - i
      /\ \A k \in 1 .. j - i : SubSeq(s, i + 1, j)[k] = s[i + k]
  BY <1>1, Cut
<1> QED
  BY <1>1, <1>2

LEMMA Dropped ==
    ASSUME NEW S, NEW s \in Seq(S), NEW n \in 0 .. Len(s)
    PROVE  /\ Drop(s, n) \in Seq(S) /\ Len(Drop(s, n)) = Len(s) - n
           /\ \A k \in 1 .. Len(s) - n : Drop(s, n)[k] = s[n + k]
<1>1. n \in Nat /\ Len(s) \in Nat /\ n <= Len(s)
  OBVIOUS
<1> QED
  BY <1>1, Cut DEF Drop

\* What is in front of a sequence goes, and the sequence stays.
LEMMA DropFront ==
    ASSUME NEW S, NEW s \in Seq(S), NEW t \in Seq(S), NEW n, n = Len(s)
    PROVE  Drop(s \o t, n) = t
<1> DEFINE both == s \o t
<1>1. /\ both \in Seq(S) /\ n \in Nat /\ Len(t) \in Nat /\ Len(both) = n + Len(t)
      /\ \A k \in 1 .. n + Len(t) : both[k] = IF k <= n THEN s[k] ELSE t[k - n]
  BY Joined
<1> HIDE DEF both
<1>2. n \in 0 .. Len(both) /\ Len(both) - n = Len(t)
  BY <1>1
<1> DEFINE d == Drop(both, n)
<1>3. d \in Seq(S) /\ Len(d) = Len(t) /\ \A k \in 1 .. Len(t) : d[k] = both[n + k]
  <2>1. /\ d \in Seq(S) /\ Len(d) = Len(both) - n
        /\ \A k \in 1 .. Len(both) - n : d[k] = both[n + k]
    BY <1>1, <1>2, Dropped
  <2> QED
    BY <1>2, <2>1
<1> HIDE DEF d
<1>4. ASSUME NEW k \in 1 .. Len(t) PROVE d[k] = t[k]
  <2> DEFINE m == n + k
  <2>1. m \in 1 .. n + Len(t) /\ ~ (m <= n) /\ m - n = k
    BY <1>1
  <2>2. d[k] = both[m]
    BY <1>3
  <2> HIDE DEF m
  <2> QED
    BY <1>1, <2>1, <2>2
<1>5. d = t
  BY <1>3, <1>4, SeqEqual
<1> QED
  BY <1>5 DEF d, both

LEMMA DropNone == ASSUME NEW S, NEW s \in Seq(S) PROVE Drop(s, 0) = s
<1> DEFINE none == << >>
<1>1. none \in Seq(S) /\ Len(none) = 0 /\ none \o s = s
  BY ConcatEmptySeq
<1>2. Drop(none \o s, 0) = s
  <2> HIDE DEF none
  <2> QED
    BY <1>1, DropFront
<1> QED
  BY <1>1, <1>2

-----------------------------------------------------------------------------
(* Markers *)

LEMMA StartsWithOne ==
    ASSUME NEW marks \in Seq(Mark), NEW a
    PROVE  StartsWith(marks, <<a>>) <=> Len(marks) >= 1 /\ marks[1].kind = a
<1> DEFINE K == {m.kind : m \in Mark} \cup {a}
           one == <<a>>
           kinds == Kinds(marks)
           l == 1
<1>1. one \in Seq(K) /\ Len(one) = l /\ one[l] = a /\ l = 1 /\ l \in 1 .. 1
  <2>1. a \in K
    OBVIOUS
  <2> HIDE DEF K
  <2> QED
    BY <2>1
<1>2. DOMAIN marks = 1 .. Len(marks) /\ Len(marks) \in Nat
      /\ \A k \in 1 .. Len(marks) : marks[k] \in Mark
  OBVIOUS
<1>3. kinds = [k \in 1 .. Len(marks) |-> marks[k].kind]
  BY <1>2 DEF Kinds
<1>4. /\ kinds \in Seq(K) /\ Len(kinds) = Len(marks)
      /\ \A k \in 1 .. Len(marks) : kinds[k] = marks[k].kind
  <2>1. ASSUME NEW k \in 1 .. Len(marks) PROVE marks[k].kind \in K
    BY <1>2
  <2> HIDE DEF K, kinds
  <2> QED
    BY <1>2, <1>3, <2>1
<1> HIDE DEF one, kinds, K
<1>5. StartsWith(marks, one) <=> l <= Len(kinds) /\ SubSeq(one, 1, l) = SubSeq(kinds, 1, l)
  BY <1>1 DEF StartsWith, IsPrefix, kinds
<1>6. SubSeq(one, 1, l) = one
  BY <1>1, SubSeqFull
<1>7. CASE Len(marks) >= 1
  <2>1. l \in 0 .. Len(kinds)
    BY <1>1, <1>2, <1>4, <1>7
  <2> DEFINE s == SubSeq(kinds, 1, l)
  <2>2. s \in Seq(K) /\ Len(s) = l /\ s[l] = kinds[l]
    BY <1>1, <1>4, <2>1, CutFront
  <2> HIDE DEF s
  <2>3. one = s <=> kinds[l] = a
    <3>1. ASSUME kinds[l] = a PROVE one = s
      <4>1. \A k \in 1 .. Len(one) : k = l
        BY <1>1
      <4>2. \A k \in 1 .. Len(one) : one[k] = s[k]
        BY <1>1, <2>2, <3>1, <4>1
      <4> QED
        BY <1>1, <2>2, <4>2, SeqEqual
    <3> QED
      BY <1>1, <2>2, <3>1
  <2>4. kinds[l] = marks[1].kind
    BY <1>1, <1>2, <1>4, <1>7
  <2> QED
    BY <1>1, <1>4, <1>5, <1>6, <1>7, <2>3, <2>4 DEF s, one
<1>8. CASE ~ (Len(marks) >= 1)
  <2>1. ~ (l <= Len(kinds))
    BY <1>1, <1>2, <1>4, <1>8
  <2> QED
    BY <1>5, <1>8, <2>1 DEF one
<1> QED
  BY <1>7, <1>8

LEMMA StartsWithTwo ==
    ASSUME NEW marks \in Seq(Mark), NEW a, NEW b
    PROVE  StartsWith(marks, <<a, b>>) <=>
              Len(marks) >= 2 /\ marks[1].kind = a /\ marks[2].kind = b
<1> DEFINE K == {m.kind : m \in Mark} \cup {a, b}
           two == <<a, b>>
           kinds == Kinds(marks)
           l == 2
<1>1. /\ two \in Seq(K) /\ Len(two) = l /\ two[1] = a /\ two[2] = b /\ l = 2
  <2>1. a \in K /\ b \in K
    OBVIOUS
  <2> HIDE DEF K
  <2> QED
    BY <2>1
<1>2. DOMAIN marks = 1 .. Len(marks) /\ Len(marks) \in Nat
      /\ \A k \in 1 .. Len(marks) : marks[k] \in Mark
  OBVIOUS
<1>3. kinds = [k \in 1 .. Len(marks) |-> marks[k].kind]
  BY <1>2 DEF Kinds
<1>4. /\ kinds \in Seq(K) /\ Len(kinds) = Len(marks)
      /\ \A k \in 1 .. Len(marks) : kinds[k] = marks[k].kind
  <2>1. ASSUME NEW k \in 1 .. Len(marks) PROVE marks[k].kind \in K
    BY <1>2
  <2> HIDE DEF K, kinds
  <2> QED
    BY <1>2, <1>3, <2>1
<1> HIDE DEF two, kinds, K
<1>5. StartsWith(marks, two) <=> l <= Len(kinds) /\ SubSeq(two, 1, l) = SubSeq(kinds, 1, l)
  BY <1>1 DEF StartsWith, IsPrefix, kinds
<1>6. SubSeq(two, 1, l) = two
  BY <1>1, SubSeqFull
<1>7. CASE Len(marks) >= 2
  <2>1. l \in 0 .. Len(kinds)
    BY <1>1, <1>2, <1>4, <1>7
  <2> DEFINE s == SubSeq(kinds, 1, l)
  <2>2. s \in Seq(K) /\ Len(s) = l /\ \A k \in 1 .. l : s[k] = kinds[k]
    BY <1>1, <1>4, <2>1, CutFront
  <2>3. 1 \in 1 .. l /\ 2 \in 1 .. l /\ \A k \in 1 .. l : k = 1 \/ k = 2
    BY <1>1
  <2> HIDE DEF s
  <2>4. two = s <=> kinds[1] = a /\ kinds[2] = b
    <3>1. ASSUME kinds[1] = a, kinds[2] = b PROVE two = s
      <4>1. \A k \in 1 .. Len(two) : two[k] = s[k]
        BY <1>1, <2>2, <2>3, <3>1
      <4> QED
        BY <1>1, <2>2, <4>1, SeqEqual
    <3> QED
      BY <1>1, <2>2, <2>3, <3>1
  <2>5. kinds[1] = marks[1].kind /\ kinds[2] = marks[2].kind
    BY <1>2, <1>4, <1>7
  <2> QED
    BY <1>1, <1>4, <1>5, <1>6, <1>7, <2>4, <2>5 DEF s, two
<1>8. CASE ~ (Len(marks) >= 2)
  <2>1. ~ (l <= Len(kinds))
    BY <1>1, <1>2, <1>4, <1>8
  <2> QED
    BY <1>5, <1>8, <2>1 DEF two
<1> QED
  BY <1>7, <1>8

-----------------------------------------------------------------------------
(* Toggles of whole lines *)

Size(toggle) == IF toggle = "checklist" THEN 2 ELSE 1

LEMMA One == ASSUME NEW S, NEW a \in S PROVE <<a>> \in Seq(S) /\ Len(<<a>>) = 1 /\ <<a>>[1] = a
OBVIOUS

LEMMA Two ==
    ASSUME NEW S, NEW a \in S, NEW b \in S
    PROVE  <<a, b>> \in Seq(S) /\ Len(<<a, b>>) = 2 /\ <<a, b>>[1] = a /\ <<a, b>>[2] = b
OBVIOUS

LEMMA MarksAre ==
    ASSUME NEW toggle \in Toggles, NEW n \in Nat
    PROVE  /\ Marks(toggle, n) \in Seq(Mark) /\ Len(Marks(toggle, n)) = Size(toggle)
           /\ toggle = "checklist" => /\ Marks(toggle, n)[1].kind = "bullet"
                                      /\ Marks(toggle, n)[2].kind = "box"
           /\ toggle # "checklist" => Marks(toggle, n)[1].kind = toggle
<1> DEFINE s == Marks(toggle, n)
<1>1. Quote \in Mark /\ Bullet \in Mark /\ Box \in Mark /\ Ordered(n) \in Mark
  BY DEF Mark, Ordered
<1>2. /\ Quote.kind = "quote" /\ Bullet.kind = "bullet" /\ Box.kind = "box"
      /\ Ordered(n).kind = "ordered"
  BY DEF Quote, Bullet, Box, Ordered
<1>3. /\ toggle = "quote" => s = <<Quote>>
      /\ toggle = "bullet" => s = <<Bullet>>
      /\ toggle = "ordered" => s = <<Ordered(n)>>
      /\ toggle = "checklist" => s = <<Bullet, Box>>
  BY DEF Marks
<1> HIDE DEF s
<1>4. ASSUME NEW a \in Mark, s = <<a>>, a.kind = toggle, toggle # "checklist"
      PROVE  s \in Seq(Mark) /\ Len(s) = Size(toggle) /\ s[1].kind = toggle
  <2>1. s \in Seq(Mark) /\ Len(s) = 1 /\ s[1] = a
    BY <1>4, One
  <2> QED
    BY <1>4, <2>1 DEF Size
<1>5. CASE toggle = "checklist"
  <2>1. s = <<Bullet, Box>>
    BY <1>3, <1>5
  <2>2. s \in Seq(Mark) /\ Len(s) = 2 /\ s[1] = Bullet /\ s[2] = Box
    BY <1>1, <2>1, Two
  <2>3. s[1].kind = "bullet" /\ s[2].kind = "box"
    BY <1>2, <2>2
  <2> QED
    BY <1>5, <2>2, <2>3 DEF Size, s
<1>6. CASE toggle # "checklist"
  <2>1. PICK a \in Mark : s = <<a>> /\ a.kind = toggle
    BY <1>1, <1>2, <1>3, <1>6 DEF Toggles
  <2>2. s \in Seq(Mark) /\ Len(s) = Size(toggle) /\ s[1].kind = toggle
    BY <1>4, <1>6, <2>1
  <2> QED
    BY <1>6, <2>2 DEF s
<1> QED
  BY <1>5, <1>6

LEMMA ExistingIs ==
    ASSUME NEW line \in Line, NEW toggle \in Toggles
    PROVE  /\ Existing(line, toggle) \in Nat /\ Existing(line, toggle) <= Len(line.marks)
           /\ line.indent = 0 =>
                /\ toggle = "quote" /\ Len(line.marks) >= 1 /\ line.marks[1].kind = "quote"
                     => Existing(line, toggle) = 1
                /\ toggle \in {"bullet", "ordered"} /\ Len(line.marks) >= 1
                     /\ line.marks[1].kind = toggle => Existing(line, toggle) = 1
                /\ toggle = "checklist" /\ Len(line.marks) >= 2 /\ line.marks[1].kind = "bullet"
                     /\ line.marks[2].kind = "box" => Existing(line, toggle) = 2
<1> DEFINE none == << >>
           marks == IF line.indent = 0 THEN line.marks ELSE none
           x == Existing(line, toggle)
<1>1. none \in Seq(Mark) /\ Len(none) = 0 /\ line.marks \in Seq(Mark) /\ Len(line.marks) \in Nat
  BY DEF Line
<1>2. marks \in Seq(Mark) /\ Len(marks) \in Nat /\ Len(marks) <= Len(line.marks)
      /\ (line.indent = 0 => marks = line.marks)
  BY <1>1
<1>3. x = CASE toggle = "quote" /\ (StartsWith(marks, <<"quote">>) \/ StartsWith(marks, <<"tight">>)) -> 1
            [] toggle = "bullet" /\ StartsWith(marks, <<"bullet">>) -> 1
            [] toggle = "ordered" /\ StartsWith(marks, <<"ordered">>) -> 1
            [] toggle = "checklist" /\ StartsWith(marks, <<"bullet", "box">>) -> 2
            [] OTHER -> 0
  BY DEF Existing
<1> HIDE DEF marks, none, x
<1>4. /\ \A a : StartsWith(marks, <<a>>) <=> Len(marks) >= 1 /\ marks[1].kind = a
      /\ StartsWith(marks, <<"bullet", "box">>) <=>
            Len(marks) >= 2 /\ marks[1].kind = "bullet" /\ marks[2].kind = "box"
  BY <1>2, StartsWithOne, StartsWithTwo
<1>5. CASE toggle = "quote"
  <2>1. x = IF StartsWith(marks, <<"quote">>) \/ StartsWith(marks, <<"tight">>) THEN 1 ELSE 0
    BY <1>3, <1>5
  <2> QED
    BY <1>1, <1>2, <1>4, <1>5, <2>1 DEF x
<1>6. CASE toggle = "bullet"
  <2>1. x = IF StartsWith(marks, <<"bullet">>) THEN 1 ELSE 0
    BY <1>3, <1>6
  <2> QED
    BY <1>1, <1>2, <1>4, <1>6, <2>1 DEF x
<1>7. CASE toggle = "ordered"
  <2>1. x = IF StartsWith(marks, <<"ordered">>) THEN 1 ELSE 0
    BY <1>3, <1>7
  <2> QED
    BY <1>1, <1>2, <1>4, <1>7, <2>1 DEF x
<1>8. CASE toggle = "checklist"
  <2>1. x = IF StartsWith(marks, <<"bullet", "box">>) THEN 2 ELSE 0
    BY <1>3, <1>8
  <2> QED
    BY <1>1, <1>2, <1>4, <1>8, <2>1 DEF x
<1> QED
  BY <1>5, <1>6, <1>7, <1>8 DEF Toggles

\* A line that has got the markers of a toggle has them.
LEMMA MarkedHas ==
    ASSUME NEW line \in Line, line.indent = 0, NEW toggle \in Toggles, NEW n \in Nat,
           NEW rest \in Seq(Mark), line.marks = Marks(toggle, n) \o rest
    PROVE  Existing(line, toggle) = Size(toggle)
<1> DEFINE front == Marks(toggle, n)
           both == front \o rest
           s == Size(toggle)
<1>1. /\ front \in Seq(Mark) /\ Len(front) = s
      /\ toggle = "checklist" => front[1].kind = "bullet" /\ front[2].kind = "box"
      /\ toggle # "checklist" => front[1].kind = toggle
  BY MarksAre
<1>2. s \in {1, 2} /\ (toggle = "checklist" => s = 2) /\ (toggle # "checklist" => s = 1)
  BY DEF Size
<1> HIDE DEF front, s
<1>3. /\ Len(rest) \in Nat /\ Len(both) = s + Len(rest)
      /\ \A k \in 1 .. s + Len(rest) : both[k] = IF k <= s THEN front[k] ELSE rest[k - s]
  <2>1. front \in Seq(Mark) /\ Len(front) = s
    BY <1>1
  <2>2. /\ Len(rest) \in Nat /\ Len(both) = Len(front) + Len(rest)
        /\ \A k \in 1 .. Len(front) + Len(rest) :
              both[k] = IF k <= Len(front) THEN front[k] ELSE rest[k - Len(front)]
    BY <2>1, Joined
  <2> HIDE DEF both
  <2> QED
    BY <2>1, <2>2
<1> HIDE DEF both
<1>4. /\ Len(both) >= s /\ both[1] = front[1]
      /\ s = 2 => both[2] = front[2]
  <2>1. 1 \in 1 .. s + Len(rest) /\ 1 <= s /\ (s = 2 => 2 \in 1 .. s + Len(rest) /\ 2 <= s)
    BY <1>2, <1>3
  <2> QED
    BY <1>2, <1>3, <2>1
<1>5. line.marks = both
  BY DEF both, front
<1>6. CASE toggle = "checklist"
  <2>1. s = 2 /\ Len(both) >= 2
    BY <1>2, <1>3, <1>4, <1>6
  <2>2. both[1].kind = "bullet" /\ both[2].kind = "box"
    BY <1>1, <1>4, <1>6, <2>1
  <2> QED
    BY <1>5, <1>6, <2>1, <2>2, ExistingIs DEF s
<1>7. CASE toggle # "checklist"
  <2>1. s = 1 /\ Len(both) >= 1 /\ both[1].kind = toggle
    BY <1>1, <1>2, <1>3, <1>4, <1>7
  <2>2. toggle = "quote" \/ toggle \in {"bullet", "ordered"}
    BY <1>7 DEF Toggles
  <2> QED
    BY <1>5, <2>1, <2>2, ExistingIs DEF s
<1> QED
  BY <1>6, <1>7

LEMMA MarkedLine ==
    ASSUME NEW line \in Line, NEW toggle \in Toggles, NEW n \in Nat
    PROVE  LET new == Marked(line, toggle, n)
               gone == IF toggle = "ordered" THEN Existing(line, toggle) ELSE 0
           IN  /\ new \in Line /\ new.indent = line.indent /\ new.words = line.words
               /\ new.marks = Marks(toggle, n) \o Drop(line.marks, gone)
               /\ Drop(line.marks, gone) \in Seq(Mark)
<1> DEFINE gone == IF toggle = "ordered" THEN Existing(line, toggle) ELSE 0
           rest == Drop(line.marks, gone)
           all == Marks(toggle, n) \o rest
           new == [line EXCEPT !.marks = all]
<1>1. line.marks \in Seq(Mark) /\ Len(line.marks) \in Nat
  BY DEF Line
<1>2. gone \in 0 .. Len(line.marks)
  BY <1>1, ExistingIs
<1>3. Marked(line, toggle, n) = new
  BY DEF Marked
<1> HIDE DEF gone
<1>4. rest \in Seq(Mark)
  BY <1>1, <1>2, Dropped
<1> HIDE DEF rest
<1>5. all \in Seq(Mark)
  BY <1>4, MarksAre, ConcatProperties
<1> HIDE DEF all
<1>6. new \in Line /\ new.indent = line.indent /\ new.words = line.words /\ new.marks = all
  BY <1>5 DEF Line
<1> QED
  BY <1>3, <1>4, <1>6 DEF all, rest, gone

LEMMA UnmarkedLine ==
    ASSUME NEW line \in Line, NEW toggle \in Toggles
    PROVE  LET new == Unmarked(line, toggle) IN
           /\ new \in Line /\ new.indent = line.indent /\ new.words = line.words
           /\ new.marks = Drop(line.marks, Existing(line, toggle))
<1> DEFINE rest == Drop(line.marks, Existing(line, toggle))
           new == [line EXCEPT !.marks = rest]
<1>1. line.marks \in Seq(Mark) /\ Existing(line, toggle) \in 0 .. Len(line.marks)
  BY ExistingIs DEF Line
<1>2. rest \in Seq(Mark)
  BY <1>1, Dropped
<1>3. Unmarked(line, toggle) = new
  BY DEF Unmarked
<1> HIDE DEF rest
<1>4. new \in Line /\ new.indent = line.indent /\ new.words = line.words /\ new.marks = rest
  BY <1>2 DEF Line
<1> QED
  BY <1>3, <1>4 DEF rest

Touched(text, first, last, toggle) == {i \in first .. last : Participates(text[i], toggle)}

Number(text, first, last, toggle, k) ==
    Cardinality({j \in Touched(text, first, last, toggle) : j <= k})

\* A toggle, line by line.
LEMMA ToggledLines ==
    ASSUME NEW text \in Seq(Line), NEW first \in DOMAIN text, NEW last \in DOMAIN text,
           NEW toggle \in Toggles
    PROVE  LET T == Touched(text, first, last, toggle)
               removes == \A i \in T : Existing(text[i], toggle) > 0
               new == Toggled(text, first, last, toggle)
           IN  /\ T \subseteq first .. last /\ T \subseteq 1 .. Len(text)
               /\ DOMAIN new = 1 .. Len(text) /\ new = [k \in 1 .. Len(text) |-> new[k]]
               /\ \A k \in 1 .. Len(text) :
                    /\ text[k] \in Line /\ Number(text, first, last, toggle, k) \in Nat
                    /\ k \notin T => new[k] = text[k]
                    /\ k \in T /\ removes => new[k] = Unmarked(text[k], toggle)
                    /\ k \in T /\ ~ removes =>
                         new[k] = IF toggle = "ordered" \/ Existing(text[k], toggle) = 0
                                    THEN Marked(text[k], toggle,
                                                Number(text, first, last, toggle, k))
                                  ELSE text[k]
<1> DEFINE T == Touched(text, first, last, toggle)
           removes == \A i \in T : Existing(text[i], toggle) > 0
           N(k) == Number(text, first, last, toggle, k)
           F(k) == IF k \notin T THEN text[k]
                   ELSE IF removes THEN Unmarked(text[k], toggle)
                   ELSE IF toggle = "ordered" \/ Existing(text[k], toggle) = 0
                     THEN Marked(text[k], toggle, N(k))
                   ELSE text[k]
           new == Toggled(text, first, last, toggle)
<1>1. DOMAIN text = 1 .. Len(text) /\ first \in Int /\ last \in Int
      /\ \A k \in first .. last : k \in 1 .. Len(text)
  OBVIOUS
<1>2. T \subseteq first .. last /\ T \subseteq 1 .. Len(text)
  BY <1>1 DEF Touched
<1>3. new = [k \in 1 .. Len(text) |-> F(k)]
  BY <1>1 DEF Toggled, Touched, Number
<1>4. ASSUME NEW k \in 1 .. Len(text) PROVE N(k) \in Nat
  <2>1. {j \in T : j <= k} \subseteq first .. last
    BY <1>2
  <2>2. IsFiniteSet({j \in T : j <= k})
    BY <1>1, <2>1, Between
  <2> QED
    BY <2>2, FS_CardinalityType DEF Number
<1> HIDE DEF T, removes, N, new
<1>5. \A k \in 1 .. Len(text) : text[k] \in Line
  OBVIOUS
<1>6. /\ DOMAIN new = 1 .. Len(text) /\ \A k \in 1 .. Len(text) : new[k] = F(k)
      /\ new = [k \in 1 .. Len(text) |-> new[k]]
  BY <1>3, Zenon
<1> QED
  BY <1>2, <1>4, <1>5, <1>6, Zenon DEF T, removes, N, new

LEMMA ToggledSeq ==
    ASSUME NEW text \in Seq(Line), NEW first \in DOMAIN text, NEW last \in DOMAIN text,
           NEW toggle \in Toggles
    PROVE  LET new == Toggled(text, first, last, toggle)
           IN  /\ new \in Seq(Line) /\ Len(new) = Len(text) /\ DOMAIN new = DOMAIN text
               /\ \A k \in 1 .. Len(text) : new[k] \in Line /\ new[k].indent = text[k].indent
                                            /\ new[k].words = text[k].words
<1> DEFINE T == Touched(text, first, last, toggle)
           removes == \A i \in T : Existing(text[i], toggle) > 0
           new == Toggled(text, first, last, toggle)
<1>1. /\ new = [k \in 1 .. Len(text) |-> new[k]]
      /\ \A k \in 1 .. Len(text) :
            /\ text[k] \in Line /\ Number(text, first, last, toggle, k) \in Nat
            /\ k \notin T => new[k] = text[k]
            /\ k \in T /\ removes => new[k] = Unmarked(text[k], toggle)
            /\ k \in T /\ ~ removes =>
                 new[k] = IF toggle = "ordered" \/ Existing(text[k], toggle) = 0
                            THEN Marked(text[k], toggle, Number(text, first, last, toggle, k))
                          ELSE text[k]
  BY ToggledLines
<1> HIDE DEF T, removes, new
<1>2. ASSUME NEW k \in 1 .. Len(text)
      PROVE  new[k] \in Line /\ new[k].indent = text[k].indent /\ new[k].words = text[k].words
  <2>1. \/ new[k] = text[k] \/ new[k] = Unmarked(text[k], toggle)
        \/ new[k] = Marked(text[k], toggle, Number(text, first, last, toggle, k))
    BY <1>1
  <2>2. text[k] \in Line /\ Number(text, first, last, toggle, k) \in Nat
    BY <1>1
  <2>3. \A n \in Nat : /\ Marked(text[k], toggle, n) \in Line
                       /\ Marked(text[k], toggle, n).indent = text[k].indent
                       /\ Marked(text[k], toggle, n).words = text[k].words
    BY <2>2, MarkedLine
  <2>4. /\ Unmarked(text[k], toggle) \in Line
        /\ Unmarked(text[k], toggle).indent = text[k].indent
        /\ Unmarked(text[k], toggle).words = text[k].words
    BY <2>2, UnmarkedLine
  <2> QED
    BY <2>1, <2>2, <2>3, <2>4
<1>3. Len(text) \in Nat /\ DOMAIN text = 1 .. Len(text)
  OBVIOUS
<1>4. new \in Seq(Line) /\ Len(new) = Len(text) /\ DOMAIN new = 1 .. Len(text)
  BY <1>1, <1>2, <1>3
<1> QED
  BY <1>2, <1>3, <1>4 DEF new

\* Of lines of which one has no marker, all have one after the toggle.
LEMMA MarksAll ==
    ASSUME NEW text \in Seq(Line), NEW first \in DOMAIN text, NEW last \in DOMAIN text,
           NEW toggle \in Toggles, \A k \in first .. last : text[k].indent = 0,
           NEW k \in Touched(text, first, last, toggle),
           NEW l \in Touched(text, first, last, toggle), Existing(text[l], toggle) = 0
    PROVE  Existing(Toggled(text, first, last, toggle)[k], toggle) > 0
<1> DEFINE T == Touched(text, first, last, toggle)
           removes == \A i \in T : Existing(text[i], toggle) > 0
           n == Number(text, first, last, toggle, k)
           new == Toggled(text, first, last, toggle)
           line == Marked(text[k], toggle, n)
<1>1. /\ T \subseteq first .. last /\ T \subseteq 1 .. Len(text)
      /\ DOMAIN new = 1 .. Len(text) /\ new = [i \in 1 .. Len(text) |-> new[i]]
      /\ \A i \in 1 .. Len(text) :
           /\ text[i] \in Line /\ Number(text, first, last, toggle, i) \in Nat
           /\ i \notin T => new[i] = text[i]
           /\ i \in T /\ removes => new[i] = Unmarked(text[i], toggle)
           /\ i \in T /\ ~ removes =>
                new[i] = IF toggle = "ordered" \/ Existing(text[i], toggle) = 0
                           THEN Marked(text[i], toggle,
                                       Number(text, first, last, toggle, i))
                         ELSE text[i]
  BY ToggledLines
<1>2. ~ removes /\ k \in T
  <2>1. ~ (Existing(text[l], toggle) > 0)
    OBVIOUS
  <2> QED
    BY <2>1
<1> HIDE DEF T, removes, new
<1>3. /\ k \in 1 .. Len(text) /\ k \in first .. last /\ text[k] \in Line /\ n \in Nat
      /\ new[k] = IF toggle = "ordered" \/ Existing(text[k], toggle) = 0 THEN line ELSE text[k]
  BY <1>1, <1>2
<1>4. text[k].indent = 0
  BY <1>3
<1> HIDE DEF n
<1> DEFINE rest == Drop(text[k].marks, IF toggle = "ordered" THEN Existing(text[k], toggle) ELSE 0)
<1>5. line \in Line /\ line.indent = 0 /\ line.marks = Marks(toggle, n) \o rest
      /\ rest \in Seq(Mark)
  BY <1>3, <1>4, MarkedLine
<1> HIDE DEF line, rest
<1>6. Existing(line, toggle) = Size(toggle)
  BY <1>3, <1>5, MarkedHas
<1>7. Size(toggle) > 0
  BY DEF Size
<1>8. Existing(text[k], toggle) \in Nat
  BY <1>3, ExistingIs
<1> QED
  BY <1>3, <1>6, <1>7, <1>8 DEF new

LEMMA SameLine ==
    ASSUME NEW a \in Line, NEW b \in Line, a.indent = b.indent, a.marks = b.marks,
           a.words = b.words
    PROVE  a = b
BY DEF Line

\* Lines none of which has a marker are what they were after the second toggle.
LEMMA TogglesTwice ==
    ASSUME NEW text \in Seq(Line), NEW first \in DOMAIN text, NEW last \in DOMAIN text,
           NEW toggle \in Toggles, \A k \in first .. last : text[k].indent = 0,
           \A k \in Touched(text, first, last, toggle) : Existing(text[k], toggle) = 0
    PROVE  Toggled(Toggled(text, first, last, toggle), first, last, toggle) = text
<1> DEFINE T == Touched(text, first, last, toggle)
           new == Toggled(text, first, last, toggle)
           U == Touched(new, first, last, toggle)
           old == Toggled(new, first, last, toggle)
           removes == \A i \in T : Existing(text[i], toggle) > 0
           back == \A i \in U : Existing(new[i], toggle) > 0
<1>1. /\ T \subseteq first .. last /\ T \subseteq 1 .. Len(text)
      /\ \A i \in 1 .. Len(text) :
            /\ text[i] \in Line /\ Number(text, first, last, toggle, i) \in Nat
            /\ i \notin T => new[i] = text[i]
            /\ i \in T /\ ~ removes =>
                 new[i] = IF toggle = "ordered" \/ Existing(text[i], toggle) = 0
                            THEN Marked(text[i], toggle, Number(text, first, last, toggle, i))
                          ELSE text[i]
  BY ToggledLines
<1>2. /\ new \in Seq(Line) /\ Len(new) = Len(text) /\ DOMAIN new = DOMAIN text
      /\ \A i \in 1 .. Len(text) : new[i] \in Line
  BY ToggledSeq
<1> HIDE DEF new
<1>3. /\ U \subseteq first .. last /\ U \subseteq 1 .. Len(new)
      /\ DOMAIN old = 1 .. Len(new) /\ old = [i \in 1 .. Len(new) |-> old[i]]
      /\ \A i \in 1 .. Len(new) :
           /\ new[i] \in Line /\ Number(new, first, last, toggle, i) \in Nat
           /\ i \notin U => old[i] = new[i]
           /\ i \in U /\ back => old[i] = Unmarked(new[i], toggle)
           /\ i \in U /\ ~ back =>
                old[i] = IF toggle = "ordered" \/ Existing(new[i], toggle) = 0
                           THEN Marked(new[i], toggle,
                                       Number(new, first, last, toggle, i))
                         ELSE new[i]
  <2>1. first \in DOMAIN new /\ last \in DOMAIN new /\ new \in Seq(Line)
    BY <1>2
  <2> QED
    BY <2>1, ToggledLines
<1>4. DOMAIN text = 1 .. Len(text) /\ text = [i \in 1 .. Len(text) |-> text[i]]
      /\ \A i \in first .. last : i \in 1 .. Len(text)
  OBVIOUS
<1> HIDE DEF T, U, old, removes, back
<1>5. \A k \in T : Existing(text[k], toggle) = 0 /\ ~ (Existing(text[k], toggle) > 0)
  BY DEF T
<1>6. ASSUME NEW k \in T
      PROVE  /\ k \in 1 .. Len(text) /\ k \in first .. last
             /\ new[k].indent = 0 /\ new[k].words = text[k].words
             /\ \E n \in Nat : new[k].marks = Marks(toggle, n) \o text[k].marks
             /\ text[k] \in Line /\ text[k].marks \in Seq(Mark)
  <2>1. /\ k \in 1 .. Len(text) /\ k \in first .. last /\ text[k] \in Line
        /\ Number(text, first, last, toggle, k) \in Nat
        /\ Existing(text[k], toggle) = 0
    BY <1>1, <1>5
  <2>2. ~ removes
    BY <1>5 DEF removes
  <2> DEFINE n == Number(text, first, last, toggle, k)
             line == Marked(text[k], toggle, n)
  <2>3. new[k] = line /\ n \in Nat
    BY <1>1, <2>1, <2>2
  <2> HIDE DEF n
  <2>4. (IF toggle = "ordered" THEN Existing(text[k], toggle) ELSE 0) = 0
    BY <2>1
  <2>5. /\ line.indent = text[k].indent /\ line.words = text[k].words
        /\ line.marks = Marks(toggle, n)
                          \o Drop(text[k].marks, IF toggle = "ordered"
                                                   THEN Existing(text[k], toggle) ELSE 0)
    <3>1. text[k] \in Line /\ n \in Nat
      BY <2>1, <2>3
    <3>2. line.indent = text[k].indent /\ line.words = text[k].words
      BY <3>1, MarkedLine
    <3>3. line.marks = Marks(toggle, n)
                         \o Drop(text[k].marks, IF toggle = "ordered"
                                                  THEN Existing(text[k], toggle) ELSE 0)
      BY <3>1, MarkedLine
    <3> QED
      BY <3>2, <3>3
  <2>6. text[k].marks \in Seq(Mark)
    BY <2>1 DEF Line
  <2>7. Drop(text[k].marks, 0) = text[k].marks
    BY <2>6, DropNone
  <2>8. line.marks = Marks(toggle, n) \o text[k].marks
    BY <2>4, <2>5, <2>7
  <2>9. text[k].indent = 0
    BY <2>1
  <2> HIDE DEF line
  <2> QED
    BY <2>1, <2>3, <2>5, <2>6, <2>8, <2>9
<1>7. ASSUME NEW k \in T
      PROVE  /\ Existing(new[k], toggle) = Size(toggle) /\ Existing(new[k], toggle) > 0
             /\ ~ Blank(new[k]) /\ Unmarked(new[k], toggle) = text[k]
  <2>1. /\ k \in 1 .. Len(text) /\ new[k] \in Line /\ text[k] \in Line
        /\ new[k].indent = 0 /\ text[k].indent = 0 /\ new[k].words = text[k].words
        /\ text[k].marks \in Seq(Mark)
    BY <1>2, <1>6
  <2>2. PICK n \in Nat : new[k].marks = Marks(toggle, n) \o text[k].marks
    BY <1>6
  <2>3. Existing(new[k], toggle) = Size(toggle)
    BY <2>1, <2>2, MarkedHas
  <2>4. Size(toggle) > 0 /\ Size(toggle) \in Nat
    BY DEF Size
  <2>5. Marks(toggle, n) \in Seq(Mark) /\ Len(Marks(toggle, n)) = Size(toggle)
    BY MarksAre
  <2>6. Drop(new[k].marks, Size(toggle)) = text[k].marks
    BY <2>1, <2>2, <2>5, DropFront
  <2>7. ~ Blank(new[k])
    <3>1. Len(new[k].marks) = Size(toggle) + Len(text[k].marks) /\ Len(text[k].marks) \in Nat
      <4> DEFINE front == Marks(toggle, n)
                 rest == text[k].marks
      <4>1. front \in Seq(Mark) /\ rest \in Seq(Mark) /\ new[k].marks = front \o rest
            /\ Len(front) = Size(toggle)
        BY <2>1, <2>2, <2>5
      <4> HIDE DEF front, rest
      <4>2. Len(front \o rest) = Len(front) + Len(rest) /\ Len(rest) \in Nat
        BY <4>1, Joined
      <4> QED
        BY <4>1, <4>2 DEF rest
    <3>2. Len(new[k].marks) # 0
      BY <2>4, <3>1
    <3>3. Len(<< >>) = 0
      OBVIOUS
    <3> QED
      BY <3>2, <3>3 DEF Blank
  <2> DEFINE line == Unmarked(new[k], toggle)
  <2>8. /\ line \in Line /\ line.indent = 0 /\ line.words = text[k].words
        /\ line.marks = text[k].marks
    BY <2>1, <2>3, <2>6, UnmarkedLine
  <2> HIDE DEF line
  <2>9. line = text[k]
    BY <2>1, <2>8, SameLine
  <2> QED
    BY <2>3, <2>4, <2>7, <2>9 DEF line
<1>8. U = T
  <2>1. ASSUME NEW k \in first .. last PROVE Participates(new[k], toggle) <=> k \in T
    <3>1. k \in T => Participates(new[k], toggle)
      BY <1>7 DEF Participates
    <3>2. k \notin T => new[k] = text[k]
      BY <1>1, <1>4
    <3>3. k \notin T => ~ Participates(text[k], toggle)
      BY DEF T, Touched
    <3> QED
      BY <3>1, <3>2, <3>3
  <2> QED
    BY <1>1, <1>3, <2>1 DEF U, Touched
<1>9. back
  BY <1>7, <1>8 DEF back
<1>10. ASSUME NEW k \in 1 .. Len(text) PROVE old[k] = text[k]
  <2>1. CASE k \in T
    BY <1>2, <1>3, <1>7, <1>8, <1>9, <2>1
  <2>2. CASE k \notin T
    BY <1>1, <1>2, <1>3, <1>8, <2>2
  <2> QED
    BY <2>1, <2>2
<1>11. old = text
  <2>1. Len(new) = Len(text)
    BY <1>2
  <2>2. old = [i \in 1 .. Len(text) |-> old[i]]
    BY <1>3, <2>1
  <2>3. [i \in 1 .. Len(text) |-> old[i]] = [i \in 1 .. Len(text) |-> text[i]]
    BY <1>10
  <2> QED
    BY <1>4, <2>2, <2>3, Zenon
<1> QED
  BY <1>11 DEF old, new

-----------------------------------------------------------------------------
(* Enter *)

\* The quotes in front are counted: there is a first mark that is none.
LEMMA QuotesEnd ==
    ASSUME NEW marks \in Seq(Mark)
    PROVE  \E d \in 0 .. Len(marks) :
              /\ \A k \in 1 .. d : marks[k] = Quote
              /\ d < Len(marks) => marks[d + 1] # Quote
<1> DEFINE n == Len(marks)
           D == {d \in 0 .. n : d < n => marks[d + 1] # Quote}
<1>1. n \in Nat /\ 0 \in Int /\ n \in Int
  OBVIOUS
<1> HIDE DEF n
<1>2. n \in D /\ D \subseteq 0 .. n
  BY <1>1
<1>3. IsFiniteSet(D) /\ \A d \in D : d \in Int
  BY <1>1, <1>2, Between
<1> HIDE DEF D
<1>4. PICK d \in D : \A j \in D : d <= j
  BY <1>2, <1>3, Least
<1>5. d \in 0 .. n
  BY <1>2
<1>6. ASSUME NEW k \in 1 .. d PROVE marks[k] = Quote
  <2> DEFINE p == k - 1
  <2>1. p \in 0 .. n /\ p < n /\ p + 1 = k /\ ~ (d <= p)
    BY <1>1, <1>5
  <2>2. p \notin D
    BY <1>4, <2>1
  <2>3. ~ (p < n => marks[p + 1] # Quote)
    BY <2>1, <2>2 DEF D
  <2> HIDE DEF p
  <2> QED
    BY <2>1, <2>3
<1>7. d < n => marks[d + 1] # Quote
  BY DEF D
<1> QED
  BY <1>5, <1>6, <1>7 DEF n

\* What makes the line an item is a piece of the front of its marks.
LEMMA PrefixIs ==
    ASSUME NEW line \in Line
    PROVE  \E d \in 0 .. Len(line.marks) : Prefix(line) = SubSeq(line.marks, 1, d)
<1> DEFINE marks == line.marks
           Good(d) == /\ \A k \in 1 .. d : marks[k] = Quote
                      /\ d < Len(marks) => marks[d + 1] # Quote
           depth == CHOOSE d \in 0 .. Len(marks) : Good(d)
           two == 2
           one == 1
           zero == 0
<1>1. marks \in Seq(Mark) /\ Len(marks) \in Nat
  BY DEF Line
<1>2. \E d \in 0 .. Len(marks) : Good(d)
  BY <1>1, QuotesEnd
<1>3. depth \in 0 .. Len(marks)
  <2> HIDE DEF Good
  <2> QED
    BY <1>2
<1>4. Prefix(line) = IF depth > 0 THEN SubSeq(marks, 1, depth)
                     ELSE IF StartsWith(marks, <<"bullet", "box">>) THEN SubSeq(marks, 1, two)
                     ELSE IF StartsWith(marks, <<"bullet">>) \/ StartsWith(marks, <<"ordered">>)
                       THEN SubSeq(marks, 1, one)
                     ELSE << >>
  BY DEF Prefix
<1> HIDE DEF marks, depth
<1>5. StartsWith(marks, <<"bullet", "box">>) => two \in 0 .. Len(marks)
  BY <1>1, StartsWithTwo
<1>6. StartsWith(marks, <<"bullet">>) \/ StartsWith(marks, <<"ordered">>) => one \in 0 .. Len(marks)
  BY <1>1, StartsWithOne
<1>7. SubSeq(marks, 1, zero) = << >> /\ zero \in 0 .. Len(marks)
  <2>1. zero \in 0 .. Len(marks)
    BY <1>1
  <2> HIDE DEF zero
  <2>2. SubSeq(marks, 1, zero) \in Seq(Mark) /\ Len(SubSeq(marks, 1, zero)) = zero
    BY <1>1, <2>1, CutFront
  <2> QED
    BY <2>1, <2>2, EmptySeq DEF zero
<1> HIDE DEF two, one, zero
<1> QED
  BY <1>3, <1>4, <1>5, <1>6, <1>7 DEF marks

LEMMA PrefixSeq ==
    ASSUME NEW line \in Line
    PROVE  /\ Prefix(line) \in Seq(Mark) /\ Len(Prefix(line)) \in 0 .. Len(line.marks)
           /\ \A k \in 1 .. Len(Prefix(line)) : Prefix(line)[k] = line.marks[k]
<1> DEFINE marks == line.marks
           P == Prefix(line)
<1>1. marks \in Seq(Mark)
  BY DEF Line
<1>2. PICK d \in 0 .. Len(marks) : P = SubSeq(marks, 1, d)
  BY PrefixIs
<1> HIDE DEF marks, P
<1>3. P \in Seq(Mark) /\ Len(P) = d /\ \A k \in 1 .. d : P[k] = marks[k]
  BY <1>1, <1>2, CutFront
<1> QED
  BY <1>2, <1>3 DEF marks, P

\* A numbered item is one because its first mark is a number.
LEMMA OrderedMark ==
    ASSUME NEW m \in Mark, m.kind = "ordered" PROVE m.n \in Nat /\ m = Ordered(m.n)
<1>1. m.kind # "quote" /\ m.kind # "tight" /\ m.kind # "bullet" /\ m.kind # "box"
  OBVIOUS
<1>2. /\ Quote.kind = "quote" /\ Tight.kind = "tight" /\ Bullet.kind = "bullet" /\ Box.kind = "box"
  BY DEF Quote, Tight, Bullet, Box
<1>3. m \in [kind : {"ordered", "heading"}, n : Nat]
  BY <1>1, <1>2 DEF Mark
<1>4. m = [kind |-> m.kind, n |-> m.n] /\ m.n \in Nat
  BY <1>3
<1> QED
  BY <1>4 DEF Ordered

LEMMA OrderedPrefix ==
    ASSUME NEW line \in Line, StartsWith(Prefix(line), <<"ordered">>)
    PROVE  /\ Len(line.marks) >= 1 /\ line.marks[1].kind = "ordered"
           /\ Prefix(line)[1] = line.marks[1] /\ line.marks[1].n \in Nat
           /\ Prefix(line) # << >> /\ Prefix(line)[1] # Quote
<1> DEFINE marks == line.marks
           P == Prefix(line)
           l == 1
<1>1. /\ P \in Seq(Mark) /\ Len(P) \in 0 .. Len(marks) /\ \A k \in 1 .. Len(P) : P[k] = marks[k]
      /\ marks \in Seq(Mark) /\ Len(marks) \in Nat /\ l = 1
  BY PrefixSeq DEF Line
<1> HIDE DEF marks, P, l
<1>2. Len(P) >= 1 /\ P[1].kind = "ordered"
  BY <1>1, StartsWithOne DEF P
<1>3. l \in 1 .. Len(P) /\ l \in 1 .. Len(marks)
  BY <1>1, <1>2
<1>4. P[l] = marks[l] /\ marks[l] \in Mark
  BY <1>1, <1>3
<1>5. marks[l].kind = "ordered"
  BY <1>1, <1>2, <1>4
<1>6. marks[l].n \in Nat
  BY <1>4, <1>5, OrderedMark
<1>7. P # << >>
  <2>1. Len(<< >>) = 0
    OBVIOUS
  <2> QED
    BY <1>2, <2>1
<1>8. P[l] # Quote
  <2>1. Quote.kind = "quote"
    BY DEF Quote
  <2> QED
    BY <1>4, <1>5, <2>1
<1>9. Len(marks) >= 1
  BY <1>1, <1>3
<1> QED
  BY <1>1, <1>4, <1>5, <1>6, <1>7, <1>8, <1>9 DEF marks, P

LEMMA InsertAtIs ==
    ASSUME NEW S, NEW s \in Seq(S), NEW p \in 1 .. Len(s) + 1, NEW e \in S
    PROVE  /\ InsertAt(s, p, e) \in Seq(S) /\ Len(InsertAt(s, p, e)) = Len(s) + 1
           /\ \A k \in 1 .. Len(s) + 1 :
                 InsertAt(s, p, e)[k] = IF k < p THEN s[k] ELSE IF k = p THEN e ELSE s[k - 1]
<1> DEFINE q == p - 1
           n == Len(s)
           front == SubSeq(s, 1, q)
           mid == <<e>>
           back == SubSeq(s, q + 1, n)
           a == front \o mid
           all == a \o back
<1>1. n \in Nat /\ p \in Int /\ q \in 0 .. n /\ q \in Nat /\ q <= n /\ q + 1 = p
  OBVIOUS
<1>2. InsertAt(s, p, e) = all
  BY <1>1 DEF InsertAt
<1> HIDE DEF q
<1>3. front \in Seq(S) /\ Len(front) = q /\ \A k \in 1 .. q : front[k] = s[k]
  BY <1>1, CutFront DEF n
<1>4. back \in Seq(S) /\ Len(back) = n - q /\ \A k \in 1 .. n - q : back[k] = s[q + k]
  BY <1>1, Cut DEF n
<1>5. mid \in Seq(S) /\ Len(mid) = 1 /\ mid[1] = e
  BY One
<1> HIDE DEF front, mid, back, n
<1>6. /\ a \in Seq(S) /\ Len(a) = q + 1
      /\ \A k \in 1 .. q + 1 : a[k] = IF k <= q THEN front[k] ELSE mid[k - q]
  <2>1. /\ a \in Seq(S) /\ Len(a) = Len(front) + Len(mid)
        /\ \A k \in 1 .. Len(front) + Len(mid) :
              a[k] = IF k <= Len(front) THEN front[k] ELSE mid[k - Len(front)]
    BY <1>3, <1>5, Joined
  <2> HIDE DEF a
  <2> QED
    BY <1>3, <1>5, <2>1
<1> HIDE DEF a
<1>7. /\ all \in Seq(S) /\ Len(all) = (q + 1) + (n - q)
      /\ \A k \in 1 .. (q + 1) + (n - q) : all[k] = IF k <= q + 1 THEN a[k] ELSE back[k - (q + 1)]
  <2>1. /\ all \in Seq(S) /\ Len(all) = Len(a) + Len(back)
        /\ \A k \in 1 .. Len(a) + Len(back) :
              all[k] = IF k <= Len(a) THEN a[k] ELSE back[k - Len(a)]
    BY <1>4, <1>6, Joined
  <2> HIDE DEF all
  <2> QED
    BY <1>4, <1>6, <2>1
<1> HIDE DEF all
<1>8. (q + 1) + (n - q) = n + 1
  BY <1>1
<1>9. ASSUME NEW k \in 1 .. n + 1
      PROVE  all[k] = IF k < p THEN s[k] ELSE IF k = p THEN e ELSE s[k - 1]
  <2>1. CASE k < p
    <3>1. k \in 1 .. q /\ k <= q + 1 /\ k \in 1 .. q + 1 /\ k <= q
      BY <1>1, <2>1
    <3> QED
      BY <1>3, <1>6, <1>7, <1>8, <2>1, <3>1
  <2>2. CASE k = p
    <3>1. k \in 1 .. q + 1 /\ k <= q + 1 /\ ~ (k <= q) /\ k - q = 1 /\ ~ (k < p)
      BY <1>1, <2>2
    <3> QED
      BY <1>5, <1>6, <1>7, <1>8, <2>2, <3>1
  <2>3. CASE k > p
    <3> DEFINE m == k - (q + 1)
               l == k - 1
    <3>1. m \in 1 .. n - q /\ ~ (k <= q + 1) /\ q + m = l /\ ~ (k < p) /\ k # p
      BY <1>1, <2>3
    <3>2. all[k] = back[m]
      BY <1>7, <1>8, <3>1
    <3> HIDE DEF m
    <3>3. back[m] = s[l]
      BY <1>4, <3>1
    <3> QED
      BY <3>1, <3>2, <3>3
  <2> QED
    BY <1>1, <2>1, <2>2, <2>3
<1>10. Len(all) = n + 1
  BY <1>7, <1>8
<1> QED
  BY <1>2, <1>7, <1>9, <1>10 DEF n

LEMMA ContinuedIs ==
    ASSUME NEW line \in Line
    PROVE  /\ Continued(line).indent \in Nat /\ Continued(line).marks \in Seq(Mark)
           /\ StartsWith(Prefix(line), <<"ordered">>) =>
                /\ Continued(line).indent = line.indent
                /\ line.marks[1].n \in Nat
                /\ Continued(line).marks = <<Ordered(line.marks[1].n + 1)>>
                /\ Continued(line).marks[1].n = line.marks[1].n + 1
<1> DEFINE P == Prefix(line)
           n == line.marks[1].n
           number == n + 1
           i == IF P = << >> \/ P[1] = Quote THEN 0 ELSE line.indent
           m == IF StartsWith(P, <<"ordered">>) THEN <<Ordered(P[1].n + 1)>> ELSE P
<1>1. Continued(line).indent = i /\ Continued(line).marks = m
  BY DEF Continued
<1>2. i \in Nat /\ P \in Seq(Mark)
  BY PrefixSeq DEF Line
<1>3. ASSUME StartsWith(P, <<"ordered">>)
      PROVE  /\ i = line.indent /\ n \in Nat /\ m = <<Ordered(number)>> /\ m \in Seq(Mark)
             /\ m[1].n = number
  <2>1. /\ P[1] = line.marks[1] /\ n \in Nat /\ P # << >> /\ P[1] # Quote
    BY <1>3, OrderedPrefix
  <2>2. number \in Nat /\ P[1].n + 1 = number
    BY <2>1
  <2>3. i = line.indent /\ m = <<Ordered(number)>>
    BY <1>3, <2>1, <2>2
  <2> HIDE DEF number, m
  <2>4. Ordered(number) \in Mark /\ Ordered(number).n = number
    BY <2>2 DEF Ordered, Mark
  <2>5. m \in Seq(Mark) /\ m[1] = Ordered(number)
    BY <2>3, <2>4, One
  <2> QED
    BY <2>1, <2>3, <2>4, <2>5
<1>4. m \in Seq(Mark)
  BY <1>2, <1>3
<1> HIDE DEF i, m
<1> QED
  BY <1>1, <1>2, <1>3, <1>4

LEMMA RenumberedLine ==
    ASSUME NEW line \in Line, Len(line.marks) >= 1, line.marks[1].kind = "ordered", NEW v \in Nat
    PROVE  LET new == [line EXCEPT !.marks[1].n = v] IN
           /\ new \in Line /\ new.indent = line.indent /\ new.words = line.words
           /\ new.marks[1].n = v /\ Len(new.marks) >= 1
<1> DEFINE marks == line.marks
           m == [marks[1] EXCEPT !.n = v]
           ms == [marks EXCEPT ![1] = m]
           new == [line EXCEPT !.marks = ms]
<1>1. marks \in Seq(Mark) /\ Len(marks) \in Nat /\ 1 \in 1 .. Len(marks)
      /\ marks[1] \in Mark
  BY DEF Line
<1>2. m \in Mark /\ m.n = v
  <2>1. marks[1] = Ordered(marks[1].n)
    BY <1>1, OrderedMark
  <2>2. m = Ordered(v)
    BY <2>1 DEF Ordered
  <2>3. Ordered(v) \in Mark /\ Ordered(v).n = v
    BY DEF Ordered, Mark
  <2> QED
    BY <2>2, <2>3
<1>3. [line EXCEPT !.marks[1].n = v] = new
  OBVIOUS
<1> HIDE DEF m, marks
<1>4. ms \in Seq(Mark) /\ Len(ms) = Len(marks) /\ ms[1] = m
  BY <1>1, <1>2
<1> HIDE DEF ms
<1>5. new \in Line /\ new.indent = line.indent /\ new.words = line.words /\ new.marks = ms
  BY <1>4 DEF Line
<1> HIDE DEF new
<1> QED
  BY <1>2, <1>3, <1>4, <1>5 DEF marks

\* The items below an item are numbered items of its indentation.
LEMMA FollowingIs ==
    ASSUME NEW text \in Seq(Line), NEW i \in DOMAIN text, NEW j \in Following(text, i)
    PROVE  /\ j \in Int /\ i \in Int /\ 1 <= i /\ i < j /\ j <= Len(text) /\ j \in 1 .. Len(text)
           /\ text[j] \in Line /\ text[j].indent = text[i].indent
           /\ Len(text[j].marks) >= 1 /\ text[j].marks[1].kind = "ordered"
<1>1. DOMAIN text = 1 .. Len(text) /\ i \in 1 .. Len(text) /\ Len(text) \in Nat
  OBVIOUS
<1>2. j \in i + 1 .. Len(text) /\ \A k \in i + 1 .. j : OrderedAt(text[k], text[i].indent)
  BY DEF Following
<1>3. j \in i + 1 .. j /\ j \in 1 .. Len(text)
  BY <1>1, <1>2
<1>4. OrderedAt(text[j], text[i].indent)
  BY <1>2, <1>3
<1>5. text[j] \in Line /\ text[j].marks \in Seq(Mark)
  <2>1. text[j] \in Line
    BY <1>3
  <2> QED
    BY <2>1 DEF Line
<1>6. text[j].indent = text[i].indent /\ StartsWith(text[j].marks, <<"ordered">>)
  BY <1>4 DEF OrderedAt
<1>7. Len(text[j].marks) >= 1 /\ text[j].marks[1].kind = "ordered"
  BY <1>5, <1>6, StartsWithOne
<1> QED
  BY <1>1, <1>2, <1>3, <1>5, <1>6, <1>7

LEMMA RenumberedSeq ==
    ASSUME NEW text \in Seq(Line), NEW i \in DOMAIN text, NEW number \in Nat
    PROVE  LET r == Renumbered(text, i, number) IN
           /\ r \in Seq(Line) /\ Len(r) = Len(text)
           /\ \A j \in 1 .. Len(text) :
                /\ j \notin Following(text, i) => r[j] = text[j]
                /\ j \in Following(text, i) => r[j].marks[1].n = number + j - i
                /\ r[j] \in Line /\ r[j].indent = text[j].indent /\ r[j].words = text[j].words
<1> DEFINE F == Following(text, i)
           new(j) == [text[j] EXCEPT !.marks[1].n = number + j - i]
           r == Renumbered(text, i, number)
<1>1. DOMAIN text = 1 .. Len(text) /\ Len(text) \in Nat /\ \A j \in 1 .. Len(text) : text[j] \in Line
  OBVIOUS
<1>2. r = [j \in 1 .. Len(text) |-> IF j \in F THEN new(j) ELSE text[j]]
  BY <1>1 DEF Renumbered
<1>3. ASSUME NEW j \in F
      PROVE  /\ new(j) \in Line /\ new(j).indent = text[j].indent /\ new(j).words = text[j].words
             /\ new(j).marks[1].n = number + j - i
  <2>1. /\ j \in Int /\ i \in Int /\ i < j /\ text[j] \in Line
        /\ Len(text[j].marks) >= 1 /\ text[j].marks[1].kind = "ordered"
    BY FollowingIs
  <2> DEFINE v == number + j - i
  <2>2. v \in Nat
    BY <2>1
  <2> HIDE DEF v
  <2>3. LET n == [text[j] EXCEPT !.marks[1].n = v] IN
        /\ n \in Line /\ n.indent = text[j].indent /\ n.words = text[j].words /\ n.marks[1].n = v
    BY <2>1, <2>2, RenumberedLine
  <2> QED
    BY <2>3 DEF v
<1> HIDE DEF F, new, r
<1>4. \A j \in 1 .. Len(text) :
         /\ j \notin F => r[j] = text[j]
         /\ j \in F => r[j].marks[1].n = number + j - i
         /\ r[j] \in Line /\ r[j].indent = text[j].indent /\ r[j].words = text[j].words
  BY <1>1, <1>2, <1>3, Zenon
<1>5. r \in Seq(Line) /\ Len(r) = Len(text)
  <2>1. r = [j \in 1 .. Len(text) |-> r[j]]
    BY <1>2, Zenon
  <2> QED
    BY <1>1, <1>4, <2>1
<1> QED
  BY <1>4, <1>5 DEF F, r

\* The line Enter is pressed on, cut before its k+1-st word.
CutLine(text, i, k, prefix) ==
    [text EXCEPT ![i].words = SubSeq(@, 1, k), ![i].marks = IF k = 0 THEN prefix ELSE @]

LEMMA CutLineIs ==
    ASSUME NEW text \in Seq(Line), NEW i \in DOMAIN text, NEW k \in 0 .. Len(text[i].words),
           NEW prefix \in Seq(Mark)
    PROVE  LET cut == CutLine(text, i, k, prefix) IN
           /\ cut \in Seq(Line) /\ Len(cut) = Len(text)
           /\ \A j \in 1 .. Len(text) : j # i => cut[j] = text[j]
           /\ cut[i].indent = text[i].indent
<1> DEFINE ws == SubSeq(text[i].words, 1, k)
           ms == IF k = 0 THEN prefix ELSE text[i].marks
           line == [text[i] EXCEPT !.words = ws, !.marks = ms]
           cut == [text EXCEPT ![i] = line]
<1>1. i \in 1 .. Len(text) /\ Len(text) \in Nat
  OBVIOUS
<1>2. text[i] \in Line
  OBVIOUS
<1>3. text[i].words \in Seq(Word) /\ text[i].marks \in Seq(Mark)
  BY <1>2 DEF Line
<1>4. ws \in Seq(Word) /\ ms \in Seq(Mark)
  BY <1>3, CutFront
<1>5. CutLine(text, i, k, prefix) = cut
  <2>1. i \in DOMAIN text
    OBVIOUS
  <2>2. "words" # "marks"
    OBVIOUS
  <2> QED
    BY <1>1, <2>1, <2>2 DEF CutLine
<1> HIDE DEF ws, ms
<1>6. line \in Line /\ line.indent = text[i].indent
  BY <1>2, <1>4 DEF Line
<1> HIDE DEF line
<1>7. /\ cut \in Seq(Line) /\ Len(cut) = Len(text) /\ cut[i] = line
      /\ \A j \in 1 .. Len(text) : j # i => cut[j] = text[j]
  BY <1>1, <1>6
<1> HIDE DEF cut
<1> QED
  BY <1>5, <1>6, <1>7

\* The lines that are left stand where they stood, or later ones do.
LEMMA SplicedIs ==
    ASSUME NEW text \in Seq(Line), NEW i \in DOMAIN text, NEW j \in DOMAIN text, i <= j
    PROVE  LET all == Spliced(text, i, j) IN
           /\ all \in Seq(Line) /\ i \in DOMAIN all /\ all[i] = text[i]
           /\ j = i => all = text
<1> DEFINE l == Len(text)
           front == SubSeq(text, 1, i)
           back == Drop(text, j)
           all == front \o back
<1>1. l \in Nat /\ i \in 1 .. l /\ j \in 1 .. l /\ i \in 0 .. l /\ j \in 0 .. l
  OBVIOUS
<1>2. front \in Seq(Line) /\ Len(front) = i /\ \A k \in 1 .. i : front[k] = text[k]
  BY <1>1, CutFront
<1>3. back \in Seq(Line) /\ Len(back) = l - j /\ \A k \in 1 .. l - j : back[k] = text[j + k]
  BY <1>1, Dropped
<1>4. Spliced(text, i, j) = all
  BY DEF Spliced
<1> HIDE DEF front, back
<1>5. /\ all \in Seq(Line) /\ Len(all) = Len(front) + Len(back)
      /\ \A k \in 1 .. Len(front) + Len(back) :
            all[k] = IF k <= Len(front) THEN front[k] ELSE back[k - Len(front)]
  <2>1. front \in Seq(Line) /\ back \in Seq(Line)
    BY <1>2, <1>3
  <2> QED
    BY <2>1, Joined
<1> HIDE DEF all, l
<1>6. Len(all) = i + (l - j) /\ i \in 1 .. i + (l - j)
  BY <1>1, <1>2, <1>3, <1>5
<1>7. i \in DOMAIN all /\ all[i] = text[i]
  <2>1. i \in 1 .. i /\ i <= i
    BY <1>1
  <2> QED
    BY <1>1, <1>2, <1>3, <1>5, <1>6, <2>1
<1>8. ASSUME j = i PROVE all = text
  <2>1. Len(all) = Len(text)
    BY <1>1, <1>6, <1>8 DEF l
  <2>2. ASSUME NEW k \in 1 .. Len(text) PROVE all[k] = text[k]
    <3>1. k \in 1 .. l /\ k \in 1 .. i + (l - j)
      BY <1>1, <1>8 DEF l
    <3>2. CASE k <= i
      <4>1. k \in 1 .. i
        BY <1>1, <3>1, <3>2
      <4> QED
        BY <1>2, <1>3, <1>5, <3>1, <3>2, <4>1
    <3>3. CASE ~ (k <= i)
      <4> DEFINE m == k - i
      <4>1. m \in 1 .. l - j /\ j + m = k
        BY <1>1, <1>8, <3>1, <3>3
      <4>2. all[k] = back[m]
        BY <1>2, <1>3, <1>5, <3>1, <3>3
      <4> HIDE DEF m
      <4> QED
        BY <1>3, <4>1, <4>2
    <3> QED
      BY <3>2, <3>3
  <2> QED
    BY <1>5, <2>1, <2>2, SeqEqual
<1> QED
  BY <1>4, <1>5, <1>7, <1>8

\* What Enter leaves of an item that is not emptied: a line more below it.
LEMMA EnterIs ==
    ASSUME NEW i \in DOMAIN lines, NEW j \in DOMAIN lines, i <= j,
           NEW k \in 0 .. Len(lines[i].words), NEW l \in 0 .. Len(lines[j].words),
           lines \in Seq(Line), NewItem(i, k, j, l)
    PROVE  LET line == lines[i]
               next == Continued(line)
               rest == IF StartsWith(Prefix(line), <<"ordered">>)
                         THEN Renumbered(lines, i, next.marks[1].n) ELSE lines
               marks == IF l = 0 THEN next.marks \o Drop(lines[j].marks, Len(Prefix(lines[j])))
                                 ELSE next.marks
               new == [indent |-> next.indent, marks |-> marks, words |-> Drop(lines[j].words, l)]
               left == Spliced(rest, i, j)
               cut == CutLine(left, i, k, Prefix(line))
           IN  /\ rest \in Seq(Line) /\ Len(rest) = Len(lines) /\ rest[i] = line
               /\ j = i => left = rest
               /\ cut \in Seq(Line) /\ i \in 1 .. Len(cut) /\ cut[i].indent = line.indent
               /\ Len(cut) = Len(left)
               /\ \A m \in 1 .. Len(left) : m # i => cut[m] = left[m]
               /\ new \in Line
               /\ lines' = InsertAt(cut, i + 1, new)
               /\ \E c \in Seq(Line), e \in Line :
                     i \in 1 .. Len(c) /\ lines' = InsertAt(c, i + 1, e)
<1> DEFINE line == lines[i]
           last == lines[j]
           next == Continued(line)
           isOrdered == StartsWith(Prefix(line), <<"ordered">>)
           rest == IF isOrdered THEN Renumbered(lines, i, next.marks[1].n) ELSE lines
           marks == IF l = 0 THEN next.marks \o Drop(last.marks, Len(Prefix(last)))
                             ELSE next.marks
           words == Drop(last.words, l)
           new == [indent |-> next.indent, marks |-> marks, words |-> words]
           left == Spliced(rest, i, j)
           cut == CutLine(left, i, k, Prefix(line))
<1>1. /\ i \in 1 .. Len(lines) /\ Len(lines) \in Nat /\ line \in Line
      /\ j \in 1 .. Len(lines) /\ last \in Line /\ DOMAIN lines = 1 .. Len(lines)
  OBVIOUS
<1>2. last.marks \in Seq(Mark) /\ last.words \in Seq(Word)
  BY <1>1 DEF Line
<1>3. /\ next.indent \in Nat /\ next.marks \in Seq(Mark)
      /\ isOrdered => line.marks[1].n \in Nat /\ next.marks[1].n = line.marks[1].n + 1
  BY <1>1, ContinuedIs
<1>4. /\ Prefix(line) \in Seq(Mark)
      /\ Prefix(last) \in Seq(Mark) /\ Len(Prefix(last)) \in 0 .. Len(last.marks)
  BY <1>1, PrefixSeq
<1>5. i \notin Following(lines, i)
  <2>1. i \notin i + 1 .. Len(lines)
    BY <1>1
  <2> QED
    BY <2>1 DEF Following
<1>6. lines' = InsertAt(cut, i + 1, new)
  BY DEF NewItem, CutLine
<1>7. /\ rest \in Seq(Line) /\ Len(rest) = Len(lines) /\ rest[i] = line
  <2>1. CASE isOrdered
    <3> DEFINE number == next.marks[1].n
    <3>1. number \in Nat
      <4> DEFINE n == line.marks[1].n
      <4>1. n \in Nat /\ number = n + 1
        BY <1>3, <2>1
      <4> HIDE DEF n, number
      <4> QED
        BY <4>1
    <3> HIDE DEF number
    <3>2. LET r == Renumbered(lines, i, number) IN
          /\ r \in Seq(Line) /\ Len(r) = Len(lines)
          /\ \A m \in 1 .. Len(lines) : m \notin Following(lines, i) => r[m] = lines[m]
      BY <1>1, <3>1, RenumberedSeq
    <3>3. rest = Renumbered(lines, i, number)
      BY <2>1 DEF number
    <3> HIDE DEF rest
    <3> QED
      BY <1>1, <1>5, <3>2, <3>3
  <2>2. CASE ~ isOrdered
    BY <2>2
  <2> QED
    BY <2>1, <2>2
<1> HIDE DEF rest
<1>8. /\ left \in Seq(Line) /\ i \in DOMAIN left /\ left[i] = line
      /\ j = i => left = rest
  <2>1. rest \in Seq(Line) /\ i \in DOMAIN rest /\ j \in DOMAIN rest
    BY <1>1, <1>7
  <2> QED
    BY <1>7, <2>1, SplicedIs
<1> HIDE DEF line, last, isOrdered, left
<1>9. /\ cut \in Seq(Line) /\ Len(cut) = Len(left) /\ cut[i].indent = line.indent
      /\ i \in 1 .. Len(cut)
      /\ \A m \in 1 .. Len(left) : m # i => cut[m] = left[m]
  <2> HIDE DEF cut
  <2>1. k \in 0 .. Len(left[i].words)
    BY <1>8 DEF line
  <2>2. LET c == CutLine(left, i, k, Prefix(line)) IN
           /\ c \in Seq(Line) /\ Len(c) = Len(left)
           /\ \A m \in 1 .. Len(left) : m # i => c[m] = left[m]
           /\ c[i].indent = left[i].indent
    BY <1>4, <1>8, <2>1, CutLineIs
  <2>3. i \in 1 .. Len(left)
    BY <1>8
  <2> QED
    BY <1>8, <2>2, <2>3 DEF cut
<1>10. new \in Line
  <2>1. marks \in Seq(Mark)
    <3> DEFINE d == Drop(last.marks, Len(Prefix(last)))
    <3>1. d \in Seq(Mark)
      BY <1>2, <1>4, Dropped
    <3> HIDE DEF d, next
    <3>2. next.marks \o d \in Seq(Mark)
      BY <1>3, <3>1, ConcatProperties
    <3> QED
      BY <1>3, <3>2 DEF d, next
  <2>2. words \in Seq(Word)
    <3>1. l \in 0 .. Len(last.words)
      BY DEF last
    <3> QED
      BY <1>2, <3>1, Dropped
  <2> HIDE DEF marks, words, next
  <2> QED
    BY <1>3, <2>1, <2>2 DEF Line, next
<1> HIDE DEF marks, words, new, cut, next
<1>11. \E c \in Seq(Line), e \in Line : i \in 1 .. Len(c) /\ lines' = InsertAt(c, i + 1, e)
  BY <1>6, <1>9, <1>10
<1> QED
  BY <1>6, <1>7, <1>8, <1>9, <1>10, <1>11 DEF line, last, rest, isOrdered, marks, words, new, cut, next, left

LEMMA EnterSeq ==
    ASSUME NEW i \in DOMAIN lines, NEW j \in DOMAIN lines,
           NEW k \in 0 .. Len(lines[i].words), NEW l \in 0 .. Len(lines[j].words),
           lines \in Seq(Line), SmartEnter(i, k, j, l)
    PROVE  lines' \in Seq(Line)
<1>1. i \in 1 .. Len(lines) /\ j \in 1 .. Len(lines) /\ Len(lines) \in Nat
  OBVIOUS
<1>2. i <= j /\ (ExitItem(i) \/ NewItem(i, k, j, l))
  BY <1>1 DEF SmartEnter
<1>3. CASE ExitItem(i)
  <2> DEFINE e == [indent |-> 0, marks |-> << >>, words |-> << >>]
  <2>1. e \in Line
    BY DEF Line
  <2>2. lines' = [lines EXCEPT ![i] = e]
    BY <1>3 DEF ExitItem
  <2> HIDE DEF e
  <2> QED
    BY <1>1, <2>1, <2>2
<1>4. CASE NewItem(i, k, j, l)
  <2>1. PICK cut \in Seq(Line), new \in Line :
           i \in 1 .. Len(cut) /\ lines' = InsertAt(cut, i + 1, new)
    BY <1>2, <1>4, EnterIs
  <2> DEFINE p == i + 1
  <2>2. p \in 1 .. Len(cut) + 1
    BY <1>1, <2>1
  <2> HIDE DEF p
  <2>3. InsertAt(cut, p, new) \in Seq(Line)
    BY <2>1, <2>2, InsertAtIs
  <2> QED
    BY <2>1, <2>3 DEF p
<1> QED
  BY <1>2, <1>3, <1>4

\* Items below the new one are items that followed the old one, a number on.
LEMMA NumbersOn ==
    ASSUME NEW i \in DOMAIN lines, NEW k \in 0 .. Len(lines[i].words),
           NEW l \in 0 .. Len(lines[i].words), lines \in Seq(Line), NewItem(i, k, i, l),
           StartsWith(Prefix(lines[i]), <<"ordered">>), NEW j \in Following(lines', i)
    PROVE  lines'[j].marks[1].n = lines[i].marks[1].n + j - i
<1> DEFINE line == lines[i]
           next == Continued(line)
           n == line.marks[1].n
           number == n + 1
           rest == Renumbered(lines, i, number)
           marks == IF l = 0 THEN next.marks \o Drop(line.marks, Len(Prefix(line)))
                             ELSE next.marks
           new == [indent |-> next.indent, marks |-> marks, words |-> Drop(line.words, l)]
           cut == CutLine(rest, i, k, Prefix(line))
           p == i + 1
<1>1. /\ i \in 1 .. Len(lines) /\ i \in Int /\ Len(lines) \in Nat /\ line \in Line
      /\ p \in 1 .. Len(lines) + 1 /\ p = i + 1
  OBVIOUS
<1>2. /\ n \in Nat /\ next.indent = line.indent /\ next.marks = <<Ordered(number)>>
      /\ next.marks[1].n = number /\ next.marks \in Seq(Mark)
  BY <1>1, ContinuedIs
<1>3. number \in Nat /\ number = n + 1
  BY <1>2
<1>4. /\ cut \in Seq(Line) /\ Len(cut) = Len(lines) /\ cut[i].indent = line.indent
      /\ \A m \in 1 .. Len(lines) : m # i => cut[m] = rest[m]
      /\ new \in Line
      /\ lines' = InsertAt(cut, p, new)
  <2> DEFINE aRest == IF StartsWith(Prefix(line), <<"ordered">>)
                        THEN Renumbered(lines, i, next.marks[1].n) ELSE lines
             left == Spliced(aRest, i, i)
             aCut == CutLine(left, i, k, Prefix(line))
  <2>1. aRest = rest
    BY <1>2
  <2>2. i <= i
    BY <1>1
  <2>3. /\ aRest \in Seq(Line) /\ Len(aRest) = Len(lines)
        /\ left = aRest
        /\ aCut \in Seq(Line) /\ Len(aCut) = Len(left) /\ aCut[i].indent = line.indent
        /\ \A m \in 1 .. Len(left) : m # i => aCut[m] = left[m]
        /\ new \in Line
        /\ lines' = InsertAt(aCut, i + 1, new)
    BY <2>2, EnterIs
  <2> HIDE DEF aRest, rest, left
  <2> QED
    BY <2>1, <2>3
<1>5. /\ rest \in Seq(Line) /\ Len(rest) = Len(lines)
      /\ \A m \in 1 .. Len(lines) :
           /\ m \notin Following(lines, i) => rest[m] = lines[m]
           /\ m \in Following(lines, i) => rest[m].marks[1].n = number + m - i
           /\ rest[m] \in Line /\ rest[m].indent = lines[m].indent
  BY <1>1, <1>3, RenumberedSeq
<1>6. new.indent = line.indent /\ new.marks = marks
  BY <1>2
<1>7. marks[1].n = number
  <2>1. CASE l = 0
    <3> DEFINE d == Drop(line.marks, Len(Prefix(line)))
               f == next.marks
    <3>1. Prefix(line) \in Seq(Mark) /\ Len(Prefix(line)) \in 0 .. Len(line.marks)
          /\ line.marks \in Seq(Mark)
      BY <1>1, PrefixSeq DEF Line
    <3>2. d \in Seq(Mark)
      BY <3>1, Dropped
    <3>3. f \in Seq(Mark) /\ Len(f) = 1 /\ f[1].n = number
      <4>1. Ordered(number) \in Mark
        BY <1>3 DEF Ordered, Mark
      <4> QED
        BY <1>2, <4>1, One
    <3> HIDE DEF d, f, number
    <3>4. /\ Len(d) \in Nat
          /\ \A m \in 1 .. Len(f) + Len(d) : (f \o d)[m] = IF m <= Len(f) THEN f[m] ELSE d[m - Len(f)]
      BY <3>2, <3>3, Joined
    <3>5. 1 \in 1 .. Len(f) + Len(d) /\ 1 <= Len(f)
      BY <3>3, <3>4
    <3>6. (f \o d)[1] = f[1]
      BY <3>4, <3>5
    <3>7. marks = f \o d
      BY <2>1 DEF d, f
    <3> QED
      BY <3>3, <3>6, <3>7
  <2>2. CASE l # 0
    BY <1>2, <2>2
  <2> QED
    BY <2>1, <2>2
<1> HIDE DEF marks, new, cut, rest, next
<1> HIDE DEF p
<1>9. /\ lines' \in Seq(Line) /\ Len(lines') = Len(lines) + 1
      /\ \A m \in 1 .. Len(lines) + 1 :
            lines'[m] = IF m < p THEN cut[m] ELSE IF m = p THEN new ELSE cut[m - 1]
  <2> DEFINE all == InsertAt(cut, p, new)
  <2>1. p \in 1 .. Len(cut) + 1 /\ cut \in Seq(Line) /\ new \in Line
    BY <1>1, <1>4
  <2>2. /\ all \in Seq(Line) /\ Len(all) = Len(cut) + 1
        /\ \A m \in 1 .. Len(cut) + 1 :
              all[m] = IF m < p THEN cut[m] ELSE IF m = p THEN new ELSE cut[m - 1]
    <3> HIDE DEF number, n
    <3>1. all \in Seq(Line) /\ Len(all) = Len(cut) + 1
      BY <2>1, InsertAtIs
    <3>2. ASSUME NEW m \in 1 .. Len(cut) + 1
          PROVE  all[m] = IF m < p THEN cut[m] ELSE IF m = p THEN new ELSE cut[m - 1]
      BY <2>1, InsertAtIs
    <3> QED
      BY <3>1, <3>2
  <2> HIDE DEF all
  <2>3. lines' = all
    BY <1>4 DEF all
  <2> QED
    BY <1>4, <2>2, <2>3
<1>10. lines'[i] = cut[i] /\ lines'[i].indent = line.indent
  <2>1. i \in 1 .. Len(lines) + 1 /\ i < p
    BY <1>1
  <2> QED
    BY <1>4, <1>9, <2>1
<1>11. /\ j \in i + 1 .. Len(lines) + 1 /\ j \in Int /\ j \in 1 .. Len(lines) + 1
       /\ \A m \in i + 1 .. j : OrderedAt(lines'[m], line.indent)
  <2>1. j \in i + 1 .. Len(lines') /\ \A m \in i + 1 .. j : OrderedAt(lines'[m], lines'[i].indent)
    BY DEF Following
  <2>2. j \in i + 1 .. Len(lines) + 1
    BY <1>9, <2>1
  <2>3. j \in Int /\ j \in 1 .. Len(lines) + 1
    BY <1>1, <2>2
  <2> QED
    BY <1>10, <2>1, <2>2, <2>3
<1>12. CASE j = p
  <2>1. lines'[j] = new
    <3>1. ~ (j < p)
      BY <1>1, <1>12
    <3> QED
      BY <1>9, <1>11, <1>12, <3>1
  <2>2. lines'[j].marks[1].n = number
    BY <1>6, <1>7, <2>1
  <2> HIDE DEF number, n
  <2>3. number = n + j - i
    <3>1. j = i + 1
      BY <1>1, <1>12
    <3> QED
      BY <1>1, <1>2, <1>3, <3>1
  <2> QED
    BY <2>2, <2>3 DEF n, line
<1>13. CASE j # p
  <2> DEFINE q == j - 1
  <2>1. q \in Int /\ q \in i + 1 .. Len(lines) /\ q \in 1 .. Len(lines) /\ q # i /\ ~ (j < p)
        /\ q + 1 = j
    BY <1>1, <1>11, <1>13
  <2>2. lines'[j] = rest[q]
    BY <1>4, <1>9, <1>11, <1>13, <2>1
  <2>3. ASSUME NEW m \in i + 1 .. q PROVE OrderedAt(lines[m], line.indent)
    <3> DEFINE h == m + 1
    <3>1. /\ h \in i + 1 .. j /\ h \in 1 .. Len(lines) + 1 /\ ~ (h < p) /\ h # p /\ h - 1 = m
          /\ m \in 1 .. Len(lines) /\ m # i
      BY <1>1, <1>11, <2>1
    <3> HIDE DEF h
    <3>2. lines'[h] = rest[m]
      BY <1>4, <1>9, <3>1
    <3>3. OrderedAt(rest[m], line.indent)
      BY <1>11, <3>1, <3>2
    <3>4. CASE m \in Following(lines, i)
      <4>1. i + 1 \in Int /\ m \in i + 1 .. m
        BY <1>1
      <4>2. OrderedAt(lines[m], lines[i].indent)
        BY <3>4, <4>1 DEF Following
      <4> QED
        BY <4>2
    <3>5. CASE m \notin Following(lines, i)
      <4>1. rest[m] = lines[m]
        BY <1>5, <3>1, <3>5
      <4> QED
        BY <3>3, <4>1
    <3> QED
      BY <3>4, <3>5
  <2>4. q \in Following(lines, i)
    BY <2>1, <2>3 DEF Following
  <2>5. rest[q].marks[1].n = number + q - i
    BY <1>5, <2>1, <2>4
  <2> HIDE DEF number, n, q
  <2>6. number + q - i = n + j - i
    <3>1. q \in Int /\ j \in Int /\ q + 1 = j /\ i \in Int /\ n \in Int /\ number = n + 1
      BY <1>1, <1>2, <1>3, <1>11, <2>1
    <3>2. n \in Int /\ q \in Int /\ i \in Int
      BY ONLY <3>1
    <3>3. number = n + 1
      BY ONLY <3>1
    <3>4. j = q + 1
      BY ONLY <3>1
    <3>5. (n + 1) + q - i = n + (q + 1) - i
      BY ONLY <3>2
    <3> QED
      BY ONLY <3>3, <3>4, <3>5
  <2> QED
    BY <2>2, <2>5, <2>6 DEF n, line
<1> QED
  BY <1>12, <1>13

-----------------------------------------------------------------------------
(* Bytes taken out of a text and put into it *)

LEMMA WithoutIs ==
    ASSUME NEW S, NEW s \in Seq(S), NEW i \in Nat, NEW n \in Nat, i + n <= Len(s)
    PROVE  /\ Without(s, i, n) \in Seq(S) /\ Len(Without(s, i, n)) = Len(s) - n
           /\ \A k \in 1 .. Len(s) - n :
                 Without(s, i, n)[k] = IF k <= i THEN s[k] ELSE s[k + n]
<1> DEFINE l == Len(s)
           e == i + n
           front == SubSeq(s, 1, i)
           back == Drop(s, e)
           all == front \o back
<1>1. l \in Nat /\ i \in Nat /\ n \in Nat /\ e = i + n /\ e \in 0 .. l /\ i \in 0 .. l
  OBVIOUS
<1>2. Without(s, i, n) = all
  BY DEF Without
<1> HIDE DEF e
<1>3. front \in Seq(S) /\ Len(front) = i /\ \A k \in 1 .. i : front[k] = s[k]
  BY <1>1, CutFront
<1>4. back \in Seq(S) /\ Len(back) = l - e /\ \A k \in 1 .. l - e : back[k] = s[e + k]
  BY <1>1, Dropped
<1> HIDE DEF front, back
<1>5. /\ all \in Seq(S) /\ Len(all) = Len(front) + Len(back)
      /\ \A k \in 1 .. Len(front) + Len(back) :
            all[k] = IF k <= Len(front) THEN front[k] ELSE back[k - Len(front)]
  <2>1. front \in Seq(S) /\ back \in Seq(S)
    BY <1>3, <1>4
  <2> QED
    BY <2>1, Joined
<1> HIDE DEF all, l
<1>6. /\ Len(all) = l - n
      /\ \A k \in 1 .. l - n : all[k] = IF k <= i THEN front[k] ELSE back[k - i]
  <2>1. Len(front) + Len(back) = l - n
    <3>1. Len(front) = i /\ Len(back) = l - e
      BY <1>3, <1>4
    <3> QED
      BY <1>1, <3>1
  <2> QED
    BY <1>3, <1>5, <2>1
<1>7. ASSUME NEW k \in 1 .. l - n PROVE all[k] = IF k <= i THEN s[k] ELSE s[k + n]
  <2>1. CASE k <= i
    <3>1. k \in 1 .. i
      BY <1>1, <2>1
    <3> QED
      BY <1>3, <1>6, <2>1, <3>1
  <2>2. CASE ~ (k <= i)
    <3> DEFINE m == k - i
               p == k + n
    <3>1. m \in 1 .. l - e /\ e + m = p
      BY <1>1, <2>2
    <3>2. all[k] = back[m]
      BY <1>6, <2>2
    <3> HIDE DEF m, p
    <3>3. back[m] = s[p]
      BY <1>4, <3>1
    <3> QED
      BY <2>2, <3>2, <3>3 DEF p
  <2> QED
    BY <2>1, <2>2
<1> QED
  BY <1>2, <1>5, <1>6, <1>7 DEF l

LEMMA WithoutAt ==
    ASSUME NEW S, NEW s \in Seq(S), NEW i \in Nat, NEW n \in Nat, i + n <= Len(s),
           NEW k \in 1 .. Len(s) - n
    PROVE  Without(s, i, n)[k] = IF k <= i THEN s[k] ELSE s[k + n]
BY WithoutIs

LEMMA InsertedIs ==
    ASSUME NEW S, NEW s \in Seq(S), NEW t \in Seq(S), NEW i \in 0 .. Len(s)
    PROVE  /\ Inserted(s, i, t) \in Seq(S) /\ Len(Inserted(s, i, t)) = Len(s) + Len(t)
           /\ \A k \in 1 .. Len(s) + Len(t) :
                 Inserted(s, i, t)[k] = IF k <= i THEN s[k]
                                        ELSE IF k <= i + Len(t) THEN t[k - i] ELSE s[k - Len(t)]
<1> DEFINE l == Len(s)
           w == Len(t)
           front == SubSeq(s, 1, i)
           back == Drop(s, i)
           a == front \o t
           all == a \o back
<1>1. l \in Nat /\ w \in Nat /\ i \in Nat /\ i <= l /\ i \in 0 .. l
  OBVIOUS
<1>2. Inserted(s, i, t) = all
  BY DEF Inserted
<1>3. front \in Seq(S) /\ Len(front) = i /\ \A k \in 1 .. i : front[k] = s[k]
  BY <1>1, CutFront
<1>4. back \in Seq(S) /\ Len(back) = l - i /\ \A k \in 1 .. l - i : back[k] = s[i + k]
  BY <1>1, Dropped
<1> HIDE DEF front, back
<1>5. /\ a \in Seq(S) /\ Len(a) = Len(front) + Len(t)
      /\ \A k \in 1 .. Len(front) + Len(t) :
            a[k] = IF k <= Len(front) THEN front[k] ELSE t[k - Len(front)]
  BY <1>3, Joined
<1> HIDE DEF a
<1>6. /\ all \in Seq(S) /\ Len(all) = Len(a) + Len(back)
      /\ \A k \in 1 .. Len(a) + Len(back) :
            all[k] = IF k <= Len(a) THEN a[k] ELSE back[k - Len(a)]
  <2>1. a \in Seq(S) /\ back \in Seq(S)
    BY <1>4, <1>5
  <2> QED
    BY <2>1, Joined
<1> HIDE DEF all, l, w
<1>7. Len(front) + Len(t) = i + w /\ Len(a) = i + w /\ Len(a) + Len(back) = l + w
  BY <1>1, <1>3, <1>4, <1>5 DEF w
<1>8. /\ Len(all) = l + w
      /\ \A k \in 1 .. i + w : a[k] = IF k <= i THEN front[k] ELSE t[k - i]
      /\ \A k \in 1 .. l + w : all[k] = IF k <= i + w THEN a[k] ELSE back[k - (i + w)]
  BY <1>3, <1>5, <1>6, <1>7
<1>9. ASSUME NEW k \in 1 .. l + w
      PROVE  all[k] = IF k <= i THEN s[k] ELSE IF k <= i + w THEN t[k - i] ELSE s[k - w]
  <2>1. CASE k <= i
    <3>1. k \in 1 .. i /\ k \in 1 .. i + w /\ k <= i + w
      BY <1>1, <2>1
    <3> QED
      BY <1>3, <1>8, <2>1, <3>1
  <2>2. CASE ~ (k <= i) /\ k <= i + w
    <3>1. k \in 1 .. i + w
      BY <1>1, <2>2
    <3> QED
      BY <1>8, <2>2, <3>1
  <2>3. CASE ~ (k <= i + w)
    <3> DEFINE m == k - (i + w)
               p == k - w
    <3>1. m \in 1 .. l - i /\ i + m = p /\ ~ (k <= i)
      BY <1>1, <2>3
    <3>2. all[k] = back[m]
      BY <1>8, <2>3
    <3> HIDE DEF m, p
    <3>3. back[m] = s[p]
      BY <1>4, <3>1
    <3> QED
      BY <2>3, <3>1, <3>2, <3>3 DEF p
  <2> QED
    BY <1>1, <2>1, <2>2, <2>3
<1> QED
  BY <1>2, <1>6, <1>8, <1>9 DEF l, w

\* What was put in is taken out again.
LEMMA InsertedTakenOut ==
    ASSUME NEW S, NEW s \in Seq(S), NEW t \in Seq(S), NEW i \in 0 .. Len(s)
    PROVE  Without(Inserted(s, i, t), i, Len(t)) = s
<1> DEFINE l == Len(s)
           w == Len(t)
           in == Inserted(s, i, t)
           out == Without(in, i, w)
<1>1. l \in Nat /\ w \in Nat /\ i \in Nat /\ i <= l
  OBVIOUS
<1>2. /\ in \in Seq(S) /\ Len(in) = l + w
      /\ \A k \in 1 .. l + w :
            in[k] = IF k <= i THEN s[k] ELSE IF k <= i + w THEN t[k - i] ELSE s[k - w]
  BY InsertedIs
<1> HIDE DEF l, w, in
<1>3. i + w <= Len(in)
  BY <1>1, <1>2
<1>4. /\ out \in Seq(S) /\ Len(out) = Len(in) - w
      /\ \A k \in 1 .. Len(in) - w : out[k] = IF k <= i THEN in[k] ELSE in[k + w]
  <2>1. in \in Seq(S) /\ i \in Nat /\ w \in Nat /\ i + w <= Len(in)
    BY <1>1, <1>2, <1>3
  <2>2. out \in Seq(S) /\ Len(out) = Len(in) - w
    BY <2>1, WithoutIs
  <2>3. ASSUME NEW k \in 1 .. Len(in) - w
        PROVE  out[k] = IF k <= i THEN in[k] ELSE in[k + w]
    <3>1. k \in 1 .. Len(in) - w
      OBVIOUS
    <3> QED
      BY ONLY <2>1, <3>1, WithoutAt
  <2> HIDE DEF out
  <2> QED
    BY <2>2, <2>3
<1>5. Len(in) - w = l
  BY <1>1, <1>2
<1> HIDE DEF out
<1>6. ASSUME NEW k \in 1 .. l PROVE out[k] = s[k]
  <2>1. out[k] = IF k <= i THEN in[k] ELSE in[k + w]
    BY <1>4, <1>5
  <2>2. CASE k <= i
    <3>1. k \in 1 .. l + w
      BY <1>1
    <3> QED
      BY <1>2, <2>1, <2>2, <3>1
  <2>3. CASE ~ (k <= i)
    <3> DEFINE m == k + w
    <3>1. m \in 1 .. l + w /\ ~ (m <= i) /\ ~ (m <= i + w) /\ m - w = k
      BY <1>1, <2>3
    <3>2. out[k] = in[m]
      BY <2>1, <2>3
    <3> HIDE DEF m
    <3>3. in[m] = s[k]
      BY <1>2, <3>1
    <3> QED
      BY <3>2, <3>3
  <2> QED
    BY <2>2, <2>3
<1>7. Len(s) = l /\ Len(out) = l /\ s \in Seq(S) /\ out \in Seq(S)
  BY <1>4, <1>5 DEF l
<1>8. out = s
  BY <1>6, <1>7, SeqEqual
<1> QED
  BY <1>8 DEF out, in, w

\* Of a marker put in on both sides, the one behind goes first.
LEMMA BackTakenOut ==
    ASSUME NEW S, NEW s \in Seq(S), NEW t \in Seq(S), NEW i \in Nat, NEW j \in Nat,
           i <= j, j <= Len(s)
    PROVE  Without(Inserted(Inserted(s, j, t), i, t), j + Len(t), Len(t)) = Inserted(s, i, t)
<1> DEFINE l == Len(s)
           w == Len(t)
           inner == Inserted(s, j, t)
           outer == Inserted(inner, i, t)
           e == j + w
           out == Without(outer, e, w)
           in == Inserted(s, i, t)
<1>1. l \in Nat /\ w \in Nat /\ i \in Nat /\ j \in Nat /\ i <= j /\ j <= l /\ e = j + w /\ e \in Nat
      /\ i \in 0 .. l /\ j \in 0 .. l
  OBVIOUS
<1>2. /\ inner \in Seq(S) /\ Len(inner) = l + w
      /\ \A k \in 1 .. l + w :
            inner[k] = IF k <= j THEN s[k] ELSE IF k <= j + w THEN t[k - j] ELSE s[k - w]
  BY <1>1, InsertedIs
<1>3. /\ in \in Seq(S) /\ Len(in) = l + w
      /\ \A k \in 1 .. l + w :
            in[k] = IF k <= i THEN s[k] ELSE IF k <= i + w THEN t[k - i] ELSE s[k - w]
  BY <1>1, InsertedIs
<1> HIDE DEF inner, in, l
<1>4. i \in 0 .. Len(inner)
  BY <1>1, <1>2
<1>5. /\ outer \in Seq(S) /\ Len(outer) = Len(inner) + w
      /\ \A k \in 1 .. Len(inner) + w :
            outer[k] = IF k <= i THEN inner[k] ELSE IF k <= i + w THEN t[k - i] ELSE inner[k - w]
  <2>1. inner \in Seq(S) /\ t \in Seq(S) /\ i \in 0 .. Len(inner)
    BY <1>2, <1>4
  <2> QED
    <3> HIDE DEF w, e
    <3>1. outer \in Seq(S) /\ Len(outer) = Len(inner) + w
      BY <2>1, InsertedIs DEF w
    <3>2. ASSUME NEW k \in 1 .. Len(inner) + w
          PROVE  outer[k] = IF k <= i THEN inner[k] ELSE IF k <= i + w THEN t[k - i]
                            ELSE inner[k - w]
      BY <2>1, InsertedIs DEF w
    <3> HIDE DEF outer
    <3> QED
      BY <3>1, <3>2
<1> HIDE DEF outer, w, e
<1>6. e + w <= Len(outer)
  BY <1>1, <1>2, <1>5
<1>7. /\ out \in Seq(S) /\ Len(out) = Len(outer) - w
      /\ \A k \in 1 .. Len(outer) - w : out[k] = IF k <= e THEN outer[k] ELSE outer[k + w]
  <2>1. outer \in Seq(S) /\ e \in Nat /\ w \in Nat /\ e + w <= Len(outer)
    BY <1>1, <1>5, <1>6
  <2> QED
    <3>1. out \in Seq(S) /\ Len(out) = Len(outer) - w
      BY <2>1, WithoutIs
    <3>2. ASSUME NEW k \in 1 .. Len(outer) - w
          PROVE  out[k] = IF k <= e THEN outer[k] ELSE outer[k + w]
      <4>1. k \in 1 .. Len(outer) - w
        OBVIOUS
      <4> QED
        BY ONLY <2>1, <4>1, WithoutAt
    <3> HIDE DEF out
    <3> QED
      BY <3>1, <3>2
<1>8. Len(outer) - w = l + w /\ Len(inner) + w = l + w + w
  BY <1>1, <1>2, <1>5
<1> HIDE DEF out
<1>9. ASSUME NEW k \in 1 .. l + w PROVE out[k] = in[k]
  <2>0. out[k] = IF k <= e THEN outer[k] ELSE outer[k + w]
    BY <1>7, <1>8
  <2>1. CASE k <= i
    <3>1. k <= e /\ k <= j /\ k \in 1 .. l + w + w
      BY <1>1, <2>1
    <3>2. outer[k] = inner[k]
      BY <1>5, <1>8, <2>1, <3>1
    <3> QED
      BY <1>2, <1>3, <2>0, <2>1, <3>1, <3>2
  <2>2. CASE ~ (k <= i) /\ k <= i + w
    <3>1. k <= e /\ k \in 1 .. l + w + w
      BY <1>1, <2>2
    <3>2. outer[k] = t[k - i]
      BY <1>5, <1>8, <2>2, <3>1
    <3> QED
      BY <1>3, <2>0, <2>2, <3>1, <3>2
  <2>3. CASE ~ (k <= i + w) /\ k <= e
    <3> DEFINE m == k - w
    <3>1. k \in 1 .. l + w + w /\ m \in 1 .. l + w /\ m <= j /\ ~ (k <= i)
      BY <1>1, <2>3
    <3>2. outer[k] = inner[m]
      BY <1>5, <1>8, <2>3, <3>1
    <3>3. in[k] = s[m]
      BY <1>3, <2>3, <3>1
    <3> HIDE DEF m
    <3>4. inner[m] = s[m]
      BY <1>2, <3>1
    <3> QED
      BY <2>0, <2>3, <3>2, <3>3, <3>4
  <2>4. CASE ~ (k <= e)
    <3> DEFINE m == k + w
    <3>1. /\ m \in 1 .. l + w + w /\ ~ (m <= i) /\ ~ (m <= i + w) /\ m - w = k
          /\ ~ (k <= j) /\ ~ (k <= j + w) /\ ~ (k <= i) /\ ~ (k <= i + w)
      BY <1>1, <2>4
    <3>2. out[k] = outer[m]
      BY <2>0, <2>4
    <3> HIDE DEF m
    <3>3. outer[m] = inner[k]
      BY <1>5, <1>8, <3>1
    <3>4. inner[k] = s[k - w] /\ in[k] = s[k - w]
      BY <1>2, <1>3, <3>1
    <3> QED
      BY <3>2, <3>3, <3>4
  <2> QED
    BY <1>1, <2>1, <2>2, <2>3, <2>4
<1>10. Len(out) = l + w /\ out \in Seq(S)
  BY <1>7, <1>8
<1>11. out = in
  BY <1>3, <1>9, <1>10, SeqEqual
<1> QED
  BY <1>11 DEF out, outer, inner, in, e, w

-----------------------------------------------------------------------------
(* Toggles of spans *)

Byte == UNION {ToSet(text) : text \in StartInline \cup Stars}

LEMMA BytesAre ==
    ASSUME NEW text \in StartInline \cup Stars PROVE text \in Seq(Byte)
<1>1. text \in Seq(ToSet(text))
  BY FormattingAssumption
<1>2. text = [k \in 1 .. Len(text) |-> text[k]] /\ Len(text) \in Nat
      /\ \A k \in 1 .. Len(text) : text[k] \in ToSet(text)
  BY <1>1
<1>3. ToSet(text) \subseteq Byte
  BY DEF Byte
<1> HIDE DEF Byte
<1>4. \A k \in 1 .. Len(text) : text[k] \in Byte
  BY <1>2, <1>3
<1> QED
  BY <1>2, <1>4

LEMMA MarkerIs ==
    ASSUME NEW marker \in Stars
    PROVE  /\ marker \in Seq(Byte) /\ Len(marker) \in Nat /\ Len(marker) >= 1
           /\ \A k \in 1 .. Len(marker) : marker[k] \notin WordBytes
<1>1. marker \in Seq(Byte)
  BY BytesAre
<1>2. marker # << >> /\ ToSet(marker) \cap WordBytes = {}
  BY FormattingAssumption
<1>3. Len(marker) \in Nat /\ Len(marker) # 0
  BY <1>1, <1>2, EmptySeq
<1>4. \A k \in 1 .. Len(marker) : marker[k] \in ToSet(marker)
  BY <1>1 DEF ToSet
<1> QED
  BY <1>1, <1>2, <1>3, <1>4

LEMMA AtIs ==
    ASSUME NEW S, NEW text \in Seq(S), NEW i \in Int, NEW marker \in Seq(S)
    PROVE  At(text, i, marker) <=>
              /\ i >= 0 /\ i + Len(marker) <= Len(text)
              /\ \A k \in 1 .. Len(marker) : text[i + k] = marker[k]
<1> DEFINE w == Len(marker)
           e == i + w
           s == SubSeq(text, i + 1, e)
<1>1. w \in Nat /\ e = i + w /\ Len(text) \in Nat
  OBVIOUS
<1>2. At(text, i, marker) <=> i >= 0 /\ e <= Len(text) /\ s = marker
  BY DEF At
<1> HIDE DEF e
<1>3. ASSUME i >= 0, e <= Len(text)
      PROVE  s = marker <=> \A k \in 1 .. w : text[i + k] = marker[k]
  <2>1. i \in Nat /\ e \in Nat /\ i <= e /\ e <= Len(text) /\ e - i = w
    BY <1>1, <1>3
  <2>2. s \in Seq(S) /\ Len(s) = e - i /\ \A k \in 1 .. e - i : s[k] = text[i + k]
    BY <2>1, Cut
  <2>3. Len(s) = w /\ \A k \in 1 .. w : s[k] = text[i + k]
    BY <2>1, <2>2
  <2> HIDE DEF s
  <2>4. ASSUME s = marker PROVE \A k \in 1 .. w : text[i + k] = marker[k]
    BY <2>3, <2>4
  <2>5. ASSUME \A k \in 1 .. w : text[i + k] = marker[k] PROVE s = marker
    <3>1. \A k \in 1 .. Len(s) : s[k] = marker[k]
      BY <2>3, <2>5
    <3>2. Len(s) = Len(marker)
      BY <2>3
    <3> QED
      BY <2>2, <3>1, <3>2, SeqEqual
  <2> QED
    BY <2>4, <2>5
<1> HIDE DEF s, w
<1> QED
  BY <1>2, <1>3 DEF e, w

LEMMA WordAroundIs ==
    ASSUME NEW S, NEW text \in Seq(S), NEW i \in 0 .. Len(text)
    PROVE  LET around == WordAround(text, i) IN
           /\ around.from \in 0 .. i /\ around.to \in i .. Len(text)
           /\ i > 0 /\ text[i] \notin WordBytes => around.from = i
           /\ i < Len(text) /\ text[i + 1] \notin WordBytes => around.to = i
<1> DEFINE l == Len(text)
           A == {s \in 0 .. i : \A k \in s + 1 .. i : text[k] \in WordBytes}
           B == {e \in i .. l : \A k \in i + 1 .. e : text[k] \in WordBytes}
<1>1. l \in Nat /\ i \in Nat /\ i <= l /\ 0 \in Int /\ i \in Int /\ l \in Int
  OBVIOUS
<1>2. WordAround(text, i).from = Min(A) /\ WordAround(text, i).to = Max(B)
  BY DEF WordAround
<1> HIDE DEF l
<1>3. i \in A /\ A \subseteq 0 .. i
  <2>1. i \in 0 .. i /\ \A k \in i + 1 .. i : FALSE
    BY <1>1
  <2> QED
    BY <2>1
<1>4. i \in B /\ B \subseteq i .. l
  <2>1. i \in i .. l /\ \A k \in i + 1 .. i : FALSE
    BY <1>1
  <2> QED
    BY <2>1
<1>5. Min(A) \in A
  <2> HIDE DEF A
  <2> QED
    BY <1>1, <1>3, MinIs
<1>6. Max(B) \in B
  <2> HIDE DEF B
  <2> QED
    BY <1>1, <1>4, MaxIs
<1>7. ASSUME i > 0, text[i] \notin WordBytes, NEW s \in A PROVE s = i
  <2>1. s \in 0 .. i /\ \A k \in s + 1 .. i : text[k] \in WordBytes
    OBVIOUS
  <2>2. s # i => i \in s + 1 .. i
    BY <1>1, <2>1
  <2> QED
    BY <1>7, <2>1, <2>2
<1>8. ASSUME i < l, text[i + 1] \notin WordBytes, NEW e \in B PROVE e = i
  <2>1. e \in i .. l /\ \A k \in i + 1 .. e : text[k] \in WordBytes
    OBVIOUS
  <2> DEFINE m == i + 1
  <2>2. e # i => m \in i + 1 .. e
    BY <1>1, <2>1
  <2>3. text[m] \notin WordBytes
    BY <1>8
  <2> HIDE DEF m
  <2> QED
    BY <2>1, <2>2, <2>3
<1>9. Min(A) \in 0 .. i /\ Max(B) \in i .. l
  BY <1>3, <1>4, <1>5, <1>6
<1> HIDE DEF A, B
<1> QED
  BY <1>2, <1>5, <1>6, <1>7, <1>8, <1>9 DEF l

\* What a command is about: the selection, or the word around the caret.
Target(text, sel) == IF sel.from = sel.to THEN WordAround(text, sel.from) ELSE sel

LEMMA TargetIs ==
    ASSUME NEW S, NEW text \in Seq(S), NEW i \in 0 .. Len(text), NEW j \in 0 .. Len(text), i <= j
    PROVE  LET t == Target(text, [from |-> i, to |-> j]) IN
           t.from \in Nat /\ t.to \in Nat /\ t.from <= t.to /\ t.to <= Len(text)
<1> DEFINE sel == [from |-> i, to |-> j]
           t == Target(text, sel)
<1>1. i \in Nat /\ j \in Nat /\ Len(text) \in Nat /\ j <= Len(text)
  OBVIOUS
<1>2. sel.from = i /\ sel.to = j
  OBVIOUS
<1> HIDE DEF sel
<1>3. t = IF i = j THEN WordAround(text, i) ELSE sel
  BY <1>2 DEF Target
<1>4. CASE i = j
  <2>1. t.from \in 0 .. i /\ t.to \in i .. Len(text)
    BY <1>3, <1>4, WordAroundIs
  <2> QED
    BY <1>1, <2>1 DEF sel
<1>5. CASE i # j
  BY <1>1, <1>2, <1>3, <1>5 DEF sel
<1> QED
  BY <1>4, <1>5

\* A toggle of a span, with what it is about given by its ends.
ToggledBetween(text, i, j, marker) ==
    LET w == Len(marker) IN
    IF Before(text, i, marker) /\ After(text, j, marker)
      THEN [text |-> Without(Without(text, j, w), i - w, w),
            sel |-> [from |-> i - w, to |-> j - w]]
    ELSE IF j >= i + 2 * w /\ At(text, i, marker) /\ At(text, j - w, marker)
      THEN [text |-> Without(Without(text, j - w, w), i, w),
            sel |-> [from |-> i, to |-> j - 2 * w]]
    ELSE [text |-> Inserted(Inserted(text, j, marker), i, marker),
          sel |-> [from |-> i + w, to |-> j + w]]

LEMMA ToggledSpan ==
    ASSUME NEW text, NEW sel, NEW marker
    PROVE  ToggledInline(text, sel, marker) =
             ToggledBetween(text, Target(text, sel).from, Target(text, sel).to, marker)
BY Zenon DEF ToggledInline, ToggledBetween, Target

LEMMA TextOf == ASSUME NEW a, NEW b PROVE /\ [text |-> a, sel |-> b].text = a
                                          /\ [text |-> a, sel |-> b].sel = b
OBVIOUS

LEMMA EndsOf == ASSUME NEW a, NEW b PROVE /\ [from |-> a, to |-> b].from = a
                                          /\ [from |-> a, to |-> b].to = b
OBVIOUS

\* A toggle of a span leaves bytes.
LEMMA SpanSeq ==
    ASSUME NEW text \in Seq(Byte), NEW sel, NEW marker \in Stars,
           Target(text, sel).from \in Nat, Target(text, sel).to \in Nat,
           Target(text, sel).from <= Target(text, sel).to, Target(text, sel).to <= Len(text)
    PROVE  ToggledInline(text, sel, marker).text \in Seq(Byte)
<1> DEFINE i == Target(text, sel).from
           j == Target(text, sel).to
           w == Len(marker)
           l == Len(text)
           b == j - w
           a == i - w
           new == ToggledInline(text, sel, marker)
<1>1. i \in Nat /\ j \in Nat /\ i <= j /\ j <= l /\ l \in Nat
  OBVIOUS
<1>2. marker \in Seq(Byte) /\ w \in Nat /\ w >= 1
  BY MarkerIs
<1>3. new = IF Before(text, i, marker) /\ After(text, j, marker)
               THEN [text |-> Without(Without(text, j, w), a, w),
                     sel |-> [from |-> a, to |-> j - w]]
             ELSE IF j >= i + 2 * w /\ At(text, i, marker) /\ At(text, b, marker)
               THEN [text |-> Without(Without(text, b, w), i, w),
                     sel |-> [from |-> i, to |-> j - 2 * w]]
             ELSE [text |-> Inserted(Inserted(text, j, marker), i, marker),
                   sel |-> [from |-> i + w, to |-> j + w]]
  <2>1. new = ToggledBetween(text, i, j, marker)
    BY ToggledSpan
  <2> HIDE DEF i, j, new
  <2> QED
    BY <2>1, Zenon DEF ToggledBetween
<1>4. a = i - w /\ b = j - w
  OBVIOUS
<1> HIDE DEF i, j, w, l, a, b, new
<1>5. CASE Before(text, i, marker) /\ After(text, j, marker)
  <2>1. At(text, a, marker) /\ At(text, j, marker)
    BY <1>5 DEF Before, After, a, w
  <2>2. a >= 0 /\ j + w <= l
    BY <2>1 DEF At, w, l
  <2> DEFINE s == Without(text, j, w)
  <2>3. s \in Seq(Byte) /\ Len(s) = l - w
    <3>1. j \in Nat /\ w \in Nat /\ j + w <= Len(text)
      BY <1>1, <1>2, <2>2 DEF l
    <3> QED
      BY <3>1, WithoutIs DEF l
  <2> HIDE DEF s
  <2>4. a \in Nat /\ a + w <= Len(s)
    BY <1>1, <1>2, <1>4, <2>2, <2>3
  <2>5. Without(s, a, w) \in Seq(Byte)
    BY <1>2, <2>3, <2>4, WithoutIs
  <2>6. new.text = Without(s, a, w)
    BY <1>3, <1>5, TextOf DEF s
  <2> QED
    BY <2>5, <2>6 DEF new
<1>6. CASE /\ ~ (Before(text, i, marker) /\ After(text, j, marker))
           /\ j >= i + 2 * w /\ At(text, i, marker) /\ At(text, b, marker)
  <2>1. b \in Nat /\ b + w <= l /\ i + w <= l - w
    BY <1>1, <1>2, <1>4, <1>6
  <2> DEFINE s == Without(text, b, w)
  <2>2. s \in Seq(Byte) /\ Len(s) = l - w
    <3>1. b \in Nat /\ w \in Nat /\ b + w <= Len(text)
      BY <1>2, <2>1 DEF l
    <3> QED
      BY <3>1, WithoutIs DEF l
  <2> HIDE DEF s
  <2>3. i + w <= Len(s)
    BY <2>1, <2>2
  <2>4. Without(s, i, w) \in Seq(Byte)
    BY <1>1, <1>2, <2>2, <2>3, WithoutIs
  <2>5. new.text = Without(s, i, w)
    BY <1>3, <1>6, TextOf DEF s
  <2> QED
    BY <2>4, <2>5 DEF new
<1>7. CASE /\ ~ (Before(text, i, marker) /\ After(text, j, marker))
           /\ ~ (j >= i + 2 * w /\ At(text, i, marker) /\ At(text, b, marker))
  <2>1. j \in 0 .. Len(text)
    BY <1>1 DEF l
  <2> DEFINE s == Inserted(text, j, marker)
  <2>2. s \in Seq(Byte) /\ Len(s) = l + w
    BY <1>2, <2>1, InsertedIs DEF l, w
  <2> HIDE DEF s
  <2>3. i \in 0 .. Len(s)
    BY <1>1, <1>2, <2>2
  <2>4. Inserted(s, i, marker) \in Seq(Byte)
    BY <1>2, <2>2, <2>3, InsertedIs
  <2>5. new.text = Inserted(s, i, marker)
    BY <1>3, <1>7, TextOf DEF s
  <2> QED
    BY <2>4, <2>5 DEF new
<1> QED
  BY <1>5, <1>6, <1>7

Free(text, k) == k \notin DOMAIN text \/ text[k] \in WordBytes

\* A span that no marker touches is marked, and what is marked is selected.
LEMMA SpanMarked ==
    ASSUME NEW text \in Seq(Byte), NEW sel, NEW marker \in Stars,
           NEW i \in Nat, NEW j \in Nat, i <= j, j <= Len(text),
           i = Target(text, sel).from, j = Target(text, sel).to,
           Free(text, i), Free(text, i + 1)
    PROVE  LET w == Len(marker) IN
           ToggledInline(text, sel, marker) =
              [text |-> Inserted(Inserted(text, j, marker), i, marker),
               sel |-> [from |-> i + w, to |-> j + w]]
<1> DEFINE w == Len(marker)
           a == i - w
           n == i + 1
<1>1. /\ marker \in Seq(Byte) /\ w \in Nat /\ w >= 1 /\ w \in 1 .. w /\ 1 \in 1 .. w
      /\ \A k \in 1 .. w : marker[k] \notin WordBytes
  BY MarkerIs
<1>2. i \in Int /\ Len(text) \in Nat /\ DOMAIN text = 1 .. Len(text) /\ a = i - w /\ a \in Int
      /\ n = i + 1
  BY <1>1
<1> HIDE DEF w, a, n
<1>3. ~ Before(text, i, marker)
  <2>1. SUFFICES ASSUME At(text, a, marker) PROVE FALSE
    BY DEF Before, a, w
  <2>2. a >= 0 /\ a + w <= Len(text) /\ \A k \in 1 .. w : text[a + k] = marker[k]
    <3>1. a \in Int /\ marker \in Seq(Byte)
      BY <1>1, <1>2
    <3> QED
      BY <2>1, <3>1, AtIs DEF w
  <2>3. text[a + w] = marker[w]
    BY <1>1, <2>2
  <2>4. a + w = i /\ i \in 1 .. Len(text)
    <3>1. a \in Int /\ a = i - w /\ a >= 0 /\ a + w <= Len(text)
      BY <1>2, <2>2
    <3>2. w \in Nat /\ w >= 1 /\ i \in Nat /\ Len(text) \in Nat
      BY <1>1, <1>2
    <3> QED
      BY ONLY <3>1, <3>2
  <2>5. text[i] \notin WordBytes
    BY <1>1, <2>3, <2>4
  <2> QED
    BY <1>2, <2>4, <2>5 DEF Free
<1>4. ~ At(text, i, marker)
  <2>1. SUFFICES ASSUME At(text, i, marker) PROVE FALSE
    OBVIOUS
  <2>2. i + w <= Len(text) /\ \A k \in 1 .. w : text[i + k] = marker[k]
    <3>1. i \in Int /\ marker \in Seq(Byte)
      BY <1>1, <1>2
    <3> QED
      BY <2>1, <3>1, AtIs DEF w
  <2>3. text[i + 1] = marker[1]
    BY <1>1, <2>2
  <2>4. n \in 1 .. Len(text)
    <3>1. n = i + 1 /\ i + w <= Len(text)
      BY <1>2, <2>2
    <3>2. w \in Nat /\ w >= 1 /\ i \in Nat /\ Len(text) \in Nat
      BY <1>1, <1>2
    <3> QED
      BY ONLY <3>1, <3>2
  <2>5. text[n] \notin WordBytes
    BY <1>1, <2>3 DEF n
  <2>6. Free(text, n)
    BY DEF n
  <2> QED
    BY <1>2, <2>4, <2>5, <2>6 DEF Free
<1>5. ToggledInline(text, sel, marker) =
             IF Before(text, i, marker) /\ After(text, j, marker)
               THEN [text |-> Without(Without(text, j, w), i - w, w),
                     sel |-> [from |-> i - w, to |-> j - w]]
             ELSE IF j >= i + 2 * w /\ At(text, i, marker) /\ At(text, j - w, marker)
               THEN [text |-> Without(Without(text, j - w, w), i, w),
                     sel |-> [from |-> i, to |-> j - 2 * w]]
             ELSE [text |-> Inserted(Inserted(text, j, marker), i, marker),
                   sel |-> [from |-> i + w, to |-> j + w]]
  <2>1. ToggledInline(text, sel, marker) = ToggledBetween(text, i, j, marker)
    BY ToggledSpan
  <2> QED
    BY <2>1, Zenon DEF ToggledBetween, w
<1> QED
  BY <1>3, <1>4, <1>5, Zenon DEF w

\* A marked span that is selected, and that no other star touches, is unmarked.
LEMMA SpanUnmarked ==
    ASSUME NEW text \in Seq(Byte), NEW marker \in Stars,
           NEW i \in Nat, NEW j \in Nat, i <= j, j <= Len(text),
           Free(text, i), Free(text, j + 1)
    PROVE  LET w == Len(marker)
               marked == Inserted(Inserted(text, j, marker), i, marker)
           IN  ToggledInline(marked, [from |-> i + w, to |-> j + w], marker).text = text
<1> DEFINE w == Len(marker)
           l == Len(text)
           inner == Inserted(text, j, marker)
           new == Inserted(inner, i, marker)
           a == i + w
           b == j + w
           sel == [from |-> a, to |-> b]
<1>1. /\ marker \in Seq(Byte) /\ w \in Nat /\ w >= 1 /\ w \in 1 .. w /\ 1 \in 1 .. w
      /\ \A k \in 1 .. w : marker[k] \notin WordBytes
  BY MarkerIs
<1>2. /\ i \in Int /\ j \in Int /\ i <= j /\ j <= l /\ l \in Nat /\ a \in Nat /\ b \in Nat
      /\ a = i + w /\ b = j + w /\ j \in 0 .. l /\ DOMAIN text = 1 .. l
  BY <1>1
<1>3. /\ inner \in Seq(Byte) /\ Len(inner) = l + w
      /\ \A k \in 1 .. l + w :
            inner[k] = IF k <= j THEN text[k] ELSE IF k <= j + w THEN marker[k - j] ELSE text[k - w]
  <2>1. j \in 0 .. Len(text) /\ marker \in Seq(Byte)
    BY <1>1, <1>2
  <2> QED
    BY <2>1, InsertedIs
<1> HIDE DEF inner, l
<1>4. /\ new \in Seq(Byte) /\ Len(new) = l + w + w
      /\ \A k \in 1 .. l + w + w :
            new[k] = IF k <= i THEN inner[k] ELSE IF k <= i + w THEN marker[k - i] ELSE inner[k - w]
  <2>1. i \in 0 .. Len(inner) /\ inner \in Seq(Byte) /\ marker \in Seq(Byte)
    BY <1>1, <1>2, <1>3
  <2>2. /\ new \in Seq(Byte) /\ Len(new) = Len(inner) + w
        /\ \A k \in 1 .. Len(inner) + w :
              new[k] = IF k <= i THEN inner[k] ELSE IF k <= i + w THEN marker[k - i]
                       ELSE inner[k - w]
    BY <2>1, InsertedIs
  <2>3. Len(inner) + w = l + w + w
    BY <1>1, <1>2, <1>3
  <2> HIDE DEF new, w
  <2> QED
    BY <2>2, <2>3
<1> HIDE DEF new, w, a, b
<1>5. ASSUME NEW k \in 1 .. w
      PROVE  new[i + k] = marker[k] /\ new[b + k] = marker[k]
  <2> DEFINE p == i + k
             q == b + k
             r == j + k
  <2>1. p \in 1 .. l + w + w /\ ~ (p <= i) /\ p <= i + w /\ p - i = k
    BY <1>1, <1>2
  <2>2. q \in 1 .. l + w + w /\ ~ (q <= i) /\ ~ (q <= i + w) /\ q - w = r
    BY <1>1, <1>2
  <2>3. r \in 1 .. l + w /\ ~ (r <= j) /\ r <= j + w /\ r - j = k
    BY <1>1, <1>2
  <2> HIDE DEF p, q, r
  <2>4. new[p] = marker[k]
    BY <1>4, <2>1
  <2>5. new[q] = inner[r]
    BY <1>4, <2>2
  <2>6. inner[r] = marker[k]
    BY <1>3, <2>3
  <2> QED
    BY <2>4, <2>5, <2>6 DEF p, q
<1>6. At(new, i, marker) /\ At(new, b, marker)
  <2>1. i >= 0 /\ b >= 0 /\ i + w <= Len(new) /\ b + w <= Len(new) /\ b \in Int
    BY <1>1, <1>2, <1>4
  <2> QED
    BY <1>1, <1>2, <1>4, <1>5, <2>1, AtIs DEF w
<1>7. marker = Single => ~ At(new, a - 2, Single) /\ ~ At(new, b + 1, Single)
  <2>1. SUFFICES ASSUME marker = Single PROVE ~ At(new, a - 2, Single) /\ ~ At(new, b + 1, Single)
    OBVIOUS
  <2>2. w = 1 /\ Single \in Seq(Byte) /\ Len(Single) = 1 /\ Single[1] \notin WordBytes
        /\ 1 \in 1 .. Len(Single)
    BY <1>1, <2>1 DEF Single, w
  <2> DEFINE one == 1
             c == a - 2
             d == b + one
             e == j + one
             f == d + one
             g == e + one
  <2>3. /\ c \in Int /\ d \in Int /\ c + 1 = i /\ f = d + 1 /\ e = j + 1 /\ f - 1 = g /\ g - 1 = e
        /\ f \in Int /\ g \in Int /\ e \in Int /\ f = j + 3 /\ g = j + 2
    BY <1>2, <2>2
  <2> HIDE DEF one, c, d, e, f, g
  <2>4. ASSUME At(new, c, Single) PROVE FALSE
    <3>1. c >= 0 /\ \A k \in 1 .. Len(Single) : new[c + k] = Single[k]
      <4>1. new \in Seq(Byte) /\ c \in Int /\ Single \in Seq(Byte)
        BY <1>4, <2>2, <2>3
      <4> QED
        BY <2>4, <4>1, AtIs
    <3>2. new[c + 1] = Single[1]
      BY <2>2, <3>1
    <3>3. i \in 1 .. l /\ i \in 1 .. l + w + w /\ i <= i /\ i \in 1 .. l + w /\ i <= j
      BY <1>2, <2>2, <2>3, <3>1
    <3>4. new[i] = text[i]
      BY <1>3, <1>4, <3>3
    <3>5. text[i] \in WordBytes
      BY <1>2, <3>3 DEF Free
    <3>6. new[i] = Single[1]
      BY <2>3, <3>2
    <3> QED
      BY <2>2, <3>4, <3>5, <3>6
  <2>5. ASSUME At(new, d, Single) PROVE FALSE
    <3>0. d + Len(Single) <= Len(new) /\ \A k \in 1 .. Len(Single) : new[d + k] = Single[k]
      <4>1. new \in Seq(Byte) /\ d \in Int /\ Single \in Seq(Byte)
        BY <1>4, <2>2, <2>3
      <4> QED
        BY <2>5, <4>1, AtIs
    <3>1. d + 1 <= Len(new) /\ \A k \in 1 .. Len(Single) : new[d + k] = Single[k]
      BY <2>2, <3>0
    <3>2. new[f] = Single[1]
      BY <2>2, <2>3, <3>1
    <3>3. f \in 1 .. l + w + w /\ ~ (f <= i) /\ ~ (f <= i + w) /\ f - w = g
      BY <1>2, <1>4, <2>2, <2>3, <3>1
    <3>4. g \in 1 .. l + w /\ ~ (g <= j) /\ ~ (g <= j + w) /\ g - w = e /\ e \in 1 .. l
      BY <1>2, <1>4, <2>2, <2>3, <3>1
    <3>5. new[f] = inner[g]
      BY <1>4, <3>3
    <3>6. inner[g] = text[e]
      BY <1>3, <3>4
    <3>7. text[e] \in WordBytes
      BY <1>2, <2>3, <3>4 DEF Free
    <3> QED
      BY <2>2, <3>2, <3>5, <3>6, <3>7
  <2>6. d = b + 1
    BY DEF d, one
  <2> QED
    BY <2>4, <2>5, <2>6 DEF c
<1>8. Before(new, a, marker) /\ After(new, b, marker)
  <2>1. a - Len(marker) = i
    BY <1>1, <1>2 DEF w
  <2> QED
    BY <1>6, <1>7, <2>1 DEF Before, After
<1>9. Target(new, sel).from = a /\ Target(new, sel).to = b
  <2>1. CASE a = b
    <3> DEFINE n == a + 1
    <3>1. i = j /\ a \in 0 .. Len(new) /\ a > 0 /\ a < Len(new) /\ b = a /\ n = b + 1 /\ i + w = a
      BY <1>1, <1>2, <1>4, <2>1
    <3>2. new[i + w] = marker[w] /\ new[b + 1] = marker[1]
      BY <1>1, <1>5
    <3>3. new[a] \notin WordBytes /\ new[n] \notin WordBytes
      BY <1>1, <3>1, <3>2
    <3>4. WordAround(new, a).from = a /\ WordAround(new, a).to = a
      <4>1. new[a + 1] \notin WordBytes
        BY <3>3
      <4> QED
        BY <1>4, <3>1, <3>3, <4>1, WordAroundIs
    <3>5. Target(new, sel) = WordAround(new, a)
      BY <2>1, EndsOf DEF Target
    <3> QED
      BY <2>1, <3>4, <3>5
  <2>2. CASE a # b
    BY <2>2, EndsOf DEF Target
  <2> QED
    BY <2>1, <2>2
<1> DEFINE out == Without(Without(new, b, w), a - w, w)
<1>10. ToggledInline(new, sel, marker) = [text |-> out, sel |-> [from |-> a - w, to |-> b - w]]
  <2> HIDE DEF sel
  <2> QED
    BY <1>8, <1>9, ToggledSpan DEF ToggledBetween, w
<1>11. out = text
  <2>1. a - w = i
    BY <1>1, <1>2
  <2>2. Without(new, b, w) = Inserted(text, i, marker)
    <3>1. marker \in Seq(Byte) /\ j <= Len(text)
      BY <1>1
    <3> QED
      BY <3>1, BackTakenOut DEF new, inner, b, w
  <2>3. Without(Inserted(text, i, marker), i, w) = text
    <3>1. i \in 0 .. Len(text)
      BY <1>2 DEF l
    <3> QED
      BY <1>1, <3>1, InsertedTakenOut DEF w
  <2> QED
    BY <2>1, <2>2, <2>3
<1>12. ToggledInline(new, sel, marker).text = text
  BY <1>10, <1>11, TextOf
<1> QED
  BY <1>12 DEF new, inner, a, b, w

-----------------------------------------------------------------------------
(* The invariant and the theorems *)

FormattingInv == lines \in Seq(Line) /\ inline \in Seq(Byte)

LEMMA HeadingSeq ==
    ASSUME lines \in Seq(Line), NEW i \in DOMAIN lines, CycleHeading(i)
    PROVE  lines' \in Seq(Line)
<1> DEFINE line == lines[i]
           level == HeadingLevel(line)
           gone == IF level > 0 THEN 1 ELSE 0
           rest == Drop(line.marks, gone)
           top == Heading(level + 1)
           one == <<top>>
           marks == IF level >= MaxHeading THEN rest ELSE one \o rest
           new == [line EXCEPT !.marks = marks]
<1>1. i \in 1 .. Len(lines) /\ Len(lines) \in Nat /\ line \in Line
  OBVIOUS
<1>2. lines' = [lines EXCEPT ![i] = new]
  BY DEF CycleHeading
<1> HIDE DEF line
<1>3. line.marks \in Seq(Mark) /\ Len(line.marks) \in Nat
  BY <1>1 DEF Line
<1>4. level \in Nat /\ (level > 0 => Len(line.marks) >= 1)
  <2>1. CASE StartsWith(line.marks, <<"heading">>)
    <3> DEFINE m == line.marks[1]
    <3>1. Len(line.marks) >= 1 /\ m.kind = "heading"
      BY <1>3, <2>1, StartsWithOne
    <3>2. m \in Mark
      <4>1. 1 \in 1 .. Len(line.marks)
        BY <1>3, <3>1
      <4> QED
        BY <1>3, <4>1
    <3>3. m.n \in Nat
      <4> HIDE DEF m
      <4>1. /\ Quote.kind = "quote" /\ Tight.kind = "tight" /\ Bullet.kind = "bullet"
            /\ Box.kind = "box"
        BY DEF Quote, Tight, Bullet, Box
      <4>2. m \in [kind : {"ordered", "heading"}, n : Nat]
        BY <3>1, <3>2, <4>1 DEF Mark
      <4> QED
        BY <4>2
    <3>4. level = m.n \/ level = 0
      BY DEF HeadingLevel
    <3> QED
      BY <3>1, <3>3, <3>4
  <2>2. CASE ~ StartsWith(line.marks, <<"heading">>)
    <3>1. level = 0
      BY <2>2 DEF HeadingLevel
    <3> QED
      BY <3>1
  <2> QED
    BY <2>1, <2>2
<1> HIDE DEF level
<1>5. gone \in 0 .. Len(line.marks)
  BY <1>3, <1>4
<1> HIDE DEF gone
<1>6. rest \in Seq(Mark)
  BY <1>3, <1>5, Dropped
<1>7. top \in Mark
  <2> DEFINE v == level + 1
  <2>1. v \in Nat
    BY <1>4
  <2> HIDE DEF v
  <2>2. Heading(v) \in Mark
    BY <2>1 DEF Heading, Mark
  <2> QED
    BY <2>2 DEF v
<1> HIDE DEF rest, top
<1>8. one \in Seq(Mark)
  BY <1>7, One
<1> HIDE DEF one
<1>9. one \o rest \in Seq(Mark)
  BY <1>6, <1>8, Joined
<1>10. marks \in Seq(Mark)
  BY <1>6, <1>9
<1> HIDE DEF marks
<1>11. new \in Line
  BY <1>1, <1>10 DEF Line
<1> HIDE DEF new
<1> QED
  BY <1>1, <1>2, <1>11

LEMMA FormattingInvInit == Init => FormattingInv
<1>1. \A text \in StartLines : text \in Seq(Line)
  BY FormattingAssumption
<1>2. \A text \in StartInline : text \in Seq(Byte)
  BY BytesAre
<1>3. << >> \in Seq(Line) /\ << >> \in Seq(Byte)
  OBVIOUS
<1> QED
  BY <1>1, <1>2, <1>3 DEF Init, FormattingInv

LEMMA FormattingInvNext == FormattingInv /\ [Next]_vars => FormattingInv'
<1> SUFFICES ASSUME FormattingInv, [Next]_vars PROVE FormattingInv'
  OBVIOUS
<1>1. lines \in Seq(Line) /\ inline \in Seq(Byte)
  BY DEF FormattingInv
<1>2. ASSUME NEW i \in DOMAIN lines, NEW j \in DOMAIN lines, NEW toggle \in Toggles,
             ToggleLines(i, j, toggle)
      PROVE  lines' \in Seq(Line) /\ inline' = inline
  <2>1. lines' = Toggled(lines, i, j, toggle) /\ inline' = inline
    BY <1>2 DEF ToggleLines
  <2>2. Toggled(lines, i, j, toggle) \in Seq(Line)
    BY <1>1, ToggledSeq
  <2> QED
    BY <2>1, <2>2
<1>3. ASSUME NEW i \in DOMAIN lines, CycleHeading(i)
      PROVE  lines' \in Seq(Line) /\ inline' = inline
  <2>1. lines' \in Seq(Line)
    BY <1>1, <1>3, HeadingSeq
  <2> QED
    BY <1>3, <2>1 DEF CycleHeading
<1>4. ASSUME NEW i \in DOMAIN lines, NEW j \in DOMAIN lines,
             NEW k \in 0 .. Len(lines[i].words), NEW l \in 0 .. Len(lines[j].words),
             SmartEnter(i, k, j, l)
      PROVE  lines' \in Seq(Line) /\ inline' = inline
  <2>1. lines' \in Seq(Line)
    BY <1>1, <1>4, EnterSeq
  <2> QED
    BY <1>4, <2>1 DEF SmartEnter, ExitItem, NewItem
<1>5. ASSUME NEW i \in 0 .. Len(inline), NEW j \in 0 .. Len(inline), NEW marker \in Stars,
             ToggleInline([from |-> i, to |-> j], marker)
      PROVE  inline' \in Seq(Byte) /\ lines' = lines
  <2> DEFINE sel == [from |-> i, to |-> j]
  <2>1. i <= j /\ lines' = lines /\ inline' = ToggledInline(inline, sel, marker).text
    BY <1>5, EndsOf DEF ToggleInline
  <2>2. /\ Target(inline, sel).from \in Nat /\ Target(inline, sel).to \in Nat
        /\ Target(inline, sel).from <= Target(inline, sel).to
        /\ Target(inline, sel).to <= Len(inline)
    BY <1>1, <2>1, TargetIs
  <2> HIDE DEF sel
  <2>3. ToggledInline(inline, sel, marker).text \in Seq(Byte)
    BY <1>1, <2>2, SpanSeq
  <2> QED
    BY <2>1, <2>3
<1>6. CASE Next
  <2>1. \/ \E i, j \in DOMAIN lines, toggle \in Toggles : ToggleLines(i, j, toggle)
        \/ \E i \in DOMAIN lines : CycleHeading(i)
        \/ \E i, j \in DOMAIN lines :
              \E k \in 0 .. Len(lines[i].words), l \in 0 .. Len(lines[j].words) :
                 SmartEnter(i, k, j, l)
        \/ \E i, j \in 0 .. Len(inline), marker \in Stars :
              ToggleInline([from |-> i, to |-> j], marker)
    BY <1>6 DEF Next
  <2> QED
    BY <1>1, <1>2, <1>3, <1>4, <1>5, <2>1 DEF FormattingInv
<1>7. CASE UNCHANGED vars
  BY <1>1, <1>7 DEF vars, FormattingInv
<1> QED
  BY <1>6, <1>7

LEMMA FormattingInvariance == Spec => []FormattingInv
<1> QED
  BY FormattingInvInit, FormattingInvNext, PTL DEF Spec

\* A toggle of lines of which some have no marker marks them all, and of
\* which none has one is undone by a second toggle.
THEOREM TogglesMarkAndReturn == Spec => []TogglesCycle
<1>1. FormattingInv => TogglesCycle
  <2> SUFFICES ASSUME FormattingInv, NEW i \in DOMAIN lines, NEW j \in DOMAIN lines,
                      NEW toggle \in Toggles, \A k \in i .. j : lines[k].indent = 0
               PROVE  LET touched == {k \in i .. j : Participates(lines[k], toggle)}
                          without == {k \in touched : Existing(lines[k], toggle) = 0}
                          once == Toggled(lines, i, j, toggle)
                      IN  /\ without # {} => \A k \in touched : Existing(once[k], toggle) > 0
                          /\ without = touched => Toggled(once, i, j, toggle) = lines
    BY DEF TogglesCycle
  <2> DEFINE touched == Touched(lines, i, j, toggle)
             without == {k \in touched : Existing(lines[k], toggle) = 0}
             once == Toggled(lines, i, j, toggle)
  <2>1. lines \in Seq(Line)
    BY DEF FormattingInv
  <2>2. ASSUME without # {}, NEW k \in touched PROVE Existing(once[k], toggle) > 0
    <3>1. PICK l \in touched : Existing(lines[l], toggle) = 0
      BY <2>2
    <3> QED
      BY <2>1, <3>1, MarksAll
  <2>3. ASSUME without = touched PROVE Toggled(once, i, j, toggle) = lines
    <3>1. \A k \in touched : Existing(lines[k], toggle) = 0
      BY <2>3
    <3> QED
      BY <2>1, <3>1, TogglesTwice
  <2> QED
    BY <2>2, <2>3 DEF Touched
<1> QED
  BY <1>1, FormattingInvariance, PTL

\* Enter in a numbered list, with a caret or with words of one line selected,
\* leaves the items below the new one numbered on from it.
THEOREM NumbersGoOn == Spec => EnterNumbersOn
<1>1. ASSUME FormattingInv, [Next]_vars
      PROVE  [\A i \in DOMAIN lines : \A k, l \in 0 .. Len(lines[i].words) :
                k <= l /\ NewItem(i, k, i, l) /\ StartsWith(Prefix(lines[i]), <<"ordered">>)
                => \A j \in Following(lines', i) :
                      lines'[j].marks[1].n = lines[i].marks[1].n + j - i]_vars
  <2>1. lines \in Seq(Line)
    BY <1>1 DEF FormattingInv
  <2>2. ASSUME NEW i \in DOMAIN lines, NEW k \in 0 .. Len(lines[i].words),
               NEW l \in 0 .. Len(lines[i].words), NewItem(i, k, i, l),
               StartsWith(Prefix(lines[i]), <<"ordered">>), NEW j \in Following(lines', i)
        PROVE  lines'[j].marks[1].n = lines[i].marks[1].n + j - i
    BY <2>1, <2>2, NumbersOn
  <2> QED
    BY <2>2
<1> QED
  BY <1>1, FormattingInvariance, PTL DEF Spec, EnterNumbersOn

\* Where no marker touches a span, a second toggle of what the first one
\* leaves selected gives the text back.
THEOREM SpansReturn == Spec => []InlineReturns
<1>1. FormattingInv => InlineReturns
  <2> SUFFICES ASSUME FormattingInv, NEW i \in 0 .. Len(inline), NEW j \in 0 .. Len(inline),
                      NEW marker \in Stars, i <= j,
                      LET around == WordAround(inline, i)
                          target == IF i = j THEN around ELSE [from |-> i, to |-> j]
                      IN  \A k \in {target.from, target.from + 1, target.to, target.to + 1} :
                              k \notin DOMAIN inline \/ inline[k] \in WordBytes
               PROVE  LET once == ToggledInline(inline, [from |-> i, to |-> j], marker)
                      IN  ToggledInline(once.text, once.sel, marker).text = inline
    BY DEF InlineReturns
  <2> DEFINE sel == [from |-> i, to |-> j]
             a == Target(inline, sel).from
             b == Target(inline, sel).to
             w == Len(marker)
             marked == Inserted(Inserted(inline, b, marker), a, marker)
             after == [from |-> a + w, to |-> b + w]
             once == ToggledInline(inline, sel, marker)
  <2>1. inline \in Seq(Byte)
    BY DEF FormattingInv
  <2>2. a \in Nat /\ b \in Nat /\ a <= b /\ b <= Len(inline)
    BY <2>1, TargetIs
  <2>3. Target(inline, sel) = IF i = j THEN WordAround(inline, i) ELSE sel
    BY EndsOf DEF Target
  <2>4. Free(inline, a) /\ Free(inline, a + 1) /\ Free(inline, b) /\ Free(inline, b + 1)
    <3>1. \A k \in {a, a + 1, b, b + 1} : k \notin DOMAIN inline \/ inline[k] \in WordBytes
      BY <2>3, Zenon
    <3> HIDE DEF a, b
    <3> QED
      BY <3>1 DEF Free
  <2>5. once = [text |-> marked, sel |-> after]
    <3> HIDE DEF sel
    <3>1. a = Target(inline, sel).from /\ b = Target(inline, sel).to
      OBVIOUS
    <3> HIDE DEF a, b
    <3> QED
      BY <2>1, <2>2, <2>4, <3>1, SpanMarked
  <2>6. ToggledInline(marked, after, marker).text = inline
    <3> HIDE DEF a, b
    <3> QED
      BY <2>1, <2>2, <2>4, SpanUnmarked
  <2> HIDE DEF marked, after, once
  <2>7. ToggledInline(once.text, once.sel, marker).text = inline
    BY <2>5, <2>6, TextOf
  <2> QED
    BY <2>7 DEF once
<1> QED
  BY <1>1, FormattingInvariance, PTL
================================================================================
