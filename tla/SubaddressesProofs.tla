------------------------- MODULE SubaddressesProofs -------------------------
(***************************************************************************)
(* Proofs about Subaddresses for any width of the indexes, any limit, any  *)
(* accounts and payments, and whatever wallets ask for.                    *)
(***************************************************************************)
EXTENDS Subaddresses, TLAPS, FiniteSetTheorems, SequenceTheorems,
        WellFoundedInduction

-----------------------------------------------------------------------------
(* Ranges *)

\* A range of minor indexes.
Span == {r \in Index \X Index : r[1] <= r[2]}

\* A set of naturals that is not empty has a least element.
LEMMA LeastIndex ==
    ASSUME NEW T, T \subseteq Nat, T # {}
    PROVE  \E x \in T : \A y \in T : x <= y
<1> DEFINE R == OpToRel(<, Nat)
<1>1. IsWellFoundedOn(R, Nat)
  BY NatLessThanWellFounded
<1>2. \A x, y \in Nat : <<y, x>> \in R <=> y < x
  BY DEF OpToRel
<1> HIDE DEF R
<1>3. PICK x \in T : \A y \in T : ~ (<<y, x>> \in R)
  BY <1>1, WFMin
<1>4. \A y \in T : y \in Nat /\ x \in Nat /\ ~(y < x)
  BY <1>2, <1>3
<1>5. \A y \in T : x <= y
  BY <1>4
<1> QED
  BY <1>5

\* The numbers among the constants.
LEMMA Bounds ==
    UInt32Max \in Nat /\ MaxSubaddresses \in Nat /\ MaxHeight \in Nat /\ MaxHeight >= 1
  BY BoundsAssumption

\* Indexes are naturals.
LEMMA IndexNat == Index \subseteq Nat /\ 0 \in Index
  BY Bounds DEF Index

\* The bounds of a range.
LEMMA SpanBounds ==
    ASSUME NEW r \in Span
    PROVE  r[1] \in Index /\ r[2] \in Index /\ r[1] \in Nat /\ r[2] \in Nat
           /\ r[1] <= r[2] /\ r = <<r[1], r[2]>>
<1>1. PICK x \in Index, y \in Index : r = <<x, y>>
  BY DEF Span
<1>2. r[1] = x /\ r[2] = y
  BY <1>1
<1>3. r[1] <= r[2]
  BY DEF Span
<1> QED
  BY <1>1, <1>2, <1>3, IndexNat

\* What is in a row of ranges.
LEMMA InMinors ==
    \A row, x : x \in Minors(row) <=>
                   \E i \in DOMAIN row : x \in row[i][1]..row[i][2]
  BY DEF Minors

\* The minor indexes of a row are indexes.
LEMMA MinorsType ==
    ASSUME NEW row \in Seq(Span)
    PROVE  Minors(row) \subseteq Index
<1> SUFFICES ASSUME NEW x \in Minors(row) PROVE x \in Index
  OBVIOUS
<1>1. PICK i \in DOMAIN row : x \in row[i][1]..row[i][2]
  BY InMinors
<1>2. row[i] \in Span
  BY <1>1
<1> QED
  BY <1>1, <1>2, SpanBounds, Bounds DEF Index

\* Two rows, one behind the other.
LEMMA MinorsConcat ==
    ASSUME NEW s \in Seq(Span), NEW t \in Seq(Span)
    PROVE  Minors(s \o t) = Minors(s) \cup Minors(t)
<1>1. /\ DOMAIN s = 1..Len(s) /\ DOMAIN t = 1..Len(t)
      /\ Len(s) \in Nat /\ Len(t) \in Nat
      /\ DOMAIN (s \o t) = 1..(Len(s) + Len(t))
      /\ \A i \in 1..Len(s) : (s \o t)[i] = s[i]
      /\ \A i \in 1..Len(t) : (s \o t)[i + Len(s)] = t[i]
  OBVIOUS
<1>2. ASSUME NEW x \in Minors(s \o t)
      PROVE  x \in Minors(s) \cup Minors(t)
  <2>1. PICK i \in DOMAIN (s \o t) : x \in (s \o t)[i][1]..(s \o t)[i][2]
    BY InMinors
  <2>2. CASE i <= Len(s)
    <3>1. i \in DOMAIN s /\ (s \o t)[i] = s[i]
      BY <1>1, <2>1, <2>2
    <3> QED
      BY <2>1, <3>1, InMinors
  <2>3. CASE ~(i <= Len(s))
    <3>1. i - Len(s) \in DOMAIN t /\ (i - Len(s)) + Len(s) = i
      BY <1>1, <2>1, <2>3
    <3>2. (s \o t)[i] = t[i - Len(s)]
      BY <1>1, <3>1
    <3> QED
      BY <2>1, <3>1, <3>2, InMinors
  <2> QED
    BY <2>2, <2>3
<1>3. ASSUME NEW x \in Minors(s)
      PROVE  x \in Minors(s \o t)
  <2>1. PICK i \in DOMAIN s : x \in s[i][1]..s[i][2]
    BY InMinors
  <2>2. i \in DOMAIN (s \o t) /\ (s \o t)[i] = s[i]
    BY <1>1, <2>1
  <2> QED
    BY <2>1, <2>2, InMinors
<1>4. ASSUME NEW x \in Minors(t)
      PROVE  x \in Minors(s \o t)
  <2>1. PICK i \in DOMAIN t : x \in t[i][1]..t[i][2]
    BY InMinors
  <2>2. i + Len(s) \in DOMAIN (s \o t) /\ (s \o t)[i + Len(s)] = t[i]
    BY <1>1, <2>1
  <2> QED
    BY <2>1, <2>2, InMinors
<1> QED
  BY <1>2, <1>3, <1>4

\* A row of one range, and an empty one.
LEMMA MinorsOne ==
    /\ \A r : Minors(<<r>>) = r[1]..r[2]
    /\ Minors(<<>>) = {}
<1>1. ASSUME NEW r
      PROVE  Minors(<<r>>) = r[1]..r[2]
  <2>1. DOMAIN <<r>> = {1} /\ <<r>>[1] = r
    OBVIOUS
  <2> QED
    BY <2>1, InMinors
<1>2. Minors(<<>>) = {}
  BY InMinors
<1> QED
  BY <1>1, <1>2

\* A row is split in two.
LEMMA SplitRow ==
    ASSUME NEW s \in Seq(Span), NEW k \in 0..Len(s)
    PROVE  /\ SubSeq(s, 1, k) \in Seq(Span)
           /\ SubSeq(s, k + 1, Len(s)) \in Seq(Span)
           /\ SubSeq(s, k + 1, Len(s)) = <<>> <=> k = Len(s)
           /\ Minors(s) = Minors(SubSeq(s, 1, k)) \cup
                          Minors(SubSeq(s, k + 1, Len(s)))
<1> DEFINE f == SubSeq(s, 1, k) b == SubSeq(s, k + 1, Len(s))
<1>1. Len(s) \in Nat /\ k \in Nat /\ \A i \in 1..Len(s) : s[i] \in Span
  OBVIOUS
<1>2. f \in Seq(Span)
  <2>1. \A i \in 1..k : s[i] \in Span
    BY <1>1
  <2> QED
    BY <1>1, <2>1, SubSeqProperties
<1>3. b \in Seq(Span) /\ Len(b) = Len(s) - k
  <2>1. \A i \in (k + 1)..Len(s) : s[i] \in Span
    BY <1>1
  <2>2. b \in Seq(Span) /\ Len(b) = IF k + 1 <= Len(s) THEN Len(s) - (k + 1) + 1 ELSE 0
    BY <1>1, <2>1, SubSeqProperties
  <2> QED
    BY <1>1, <2>2
<1>4. b = <<>> <=> k = Len(s)
  <2> HIDE DEF b
  <2>1. b = <<>> <=> Len(b) = 0
    BY <1>3
  <2> QED
    BY <1>1, <1>3, <2>1
<1>5. f \o b = s
  <2>1. f \o b = SubSeq(s, 1, Len(s))
    <3>1. 1 \in 1..(Len(s) + 1) /\ k \in (1 - 1)..Len(s) /\ Len(s) \in k..Len(s)
      BY <1>1
    <3> QED
      BY <3>1, ConcatAdjacentSubSeq
  <2> QED
    BY <2>1, SubSeqFull
<1> HIDE DEF f, b
<1>6. Minors(s) = Minors(f) \cup Minors(b)
  BY <1>2, <1>3, <1>5, MinorsConcat
<1> QED
  BY <1>2, <1>3, <1>4, <1>6 DEF f, b

\* A row and its first range.
LEMMA HeadAndTail ==
    ASSUME NEW s \in Seq(Span), s # <<>>
    PROVE  /\ Head(s) \in Span /\ Tail(s) \in Seq(Span)
           /\ Minors(s) = (Head(s)[1]..Head(s)[2]) \cup Minors(Tail(s))
<1>1. Len(s) \in Nat /\ Len(s) >= 1 /\ DOMAIN s = 1..Len(s)
  OBVIOUS
<1>2. Head(s) = s[1] /\ 1 \in DOMAIN s /\ Head(s) \in Span /\ Tail(s) \in Seq(Span)
  BY <1>1
<1>3. DOMAIN Tail(s) = 1..(Len(s) - 1) /\ \A i \in 1..(Len(s) - 1) : Tail(s)[i] = s[i + 1]
  BY <1>1
<1>4. ASSUME NEW x \in Minors(s)
      PROVE  x \in (Head(s)[1]..Head(s)[2]) \cup Minors(Tail(s))
  <2>1. PICK i \in DOMAIN s : x \in s[i][1]..s[i][2]
    BY InMinors
  <2>2. CASE i = 1
    BY <1>2, <2>1, <2>2
  <2>3. CASE i # 1
    <3>1. i - 1 \in DOMAIN Tail(s) /\ (i - 1) + 1 = i
      BY <1>1, <1>3, <2>1, <2>3
    <3>2. Tail(s)[i - 1] = s[i]
      BY <1>3, <3>1
    <3> QED
      BY <2>1, <3>1, <3>2, InMinors
  <2> QED
    BY <2>2, <2>3
<1>5. ASSUME NEW x \in Minors(Tail(s))
      PROVE  x \in Minors(s)
  <2>1. PICK i \in DOMAIN Tail(s) : x \in Tail(s)[i][1]..Tail(s)[i][2]
    BY InMinors
  <2>2. i + 1 \in DOMAIN s /\ Tail(s)[i] = s[i + 1]
    BY <1>1, <1>3, <2>1
  <2> QED
    BY <2>1, <2>2, InMinors
<1>6. Head(s)[1]..Head(s)[2] \subseteq Minors(s)
  BY <1>2, InMinors
<1> QED
  BY <1>2, <1>4, <1>5, <1>6

-----------------------------------------------------------------------------
(* Counting *)

\* D has at most c elements.
Grown(D, c) == IsFiniteSet(D) /\ c \in Nat /\ Cardinality(D) <= c

\* Nothing is counted for nothing.
LEMMA GrownNone == Grown({}, 0)
  BY FS_EmptySet DEF Grown

\* A range is counted by its size.
LEMMA GrownInterval ==
    ASSUME NEW x \in Nat, NEW y \in Nat, x <= y
    PROVE  Grown(x..y, y - x + 1)
<1>1. IsFiniteSet(x..y) /\ Cardinality(x..y) = IF x > y THEN 0 ELSE y - x + 1
  BY FS_Interval
<1> QED
  BY <1>1 DEF Grown

\* What is counted twice is counted at least once.
LEMMA GrownUnion ==
    ASSUME NEW D, NEW E, NEW c, NEW d, Grown(D, c), Grown(E, d)
    PROVE  Grown(D \cup E, c + d)
<1>1. IsFiniteSet(D) /\ IsFiniteSet(E) /\ c \in Nat /\ d \in Nat
  BY DEF Grown
<1>2. /\ IsFiniteSet(D \cup E)
      /\ Cardinality(D \cup E) =
            Cardinality(D) + Cardinality(E) - Cardinality(D \cap E)
  BY <1>1, FS_Union
<1>3. IsFiniteSet(D \cap E)
  BY <1>1, FS_Intersection
<1>4. Cardinality(D) \in Nat /\ Cardinality(E) \in Nat /\ Cardinality(D \cap E) \in Nat
  BY <1>1, <1>3, FS_CardinalityType
<1> QED
  BY <1>1, <1>2, <1>4 DEF Grown

\* Part of it has no more.
LEMMA GrownPart ==
    ASSUME NEW D, NEW E, NEW c, NEW d, Grown(D, c), E \subseteq D,
           d \in Nat, c <= d
    PROVE  Grown(E, d)
<1>1. IsFiniteSet(D) /\ c \in Nat /\ Cardinality(D) <= c
  BY DEF Grown
<1>2. IsFiniteSet(E) /\ Cardinality(E) <= Cardinality(D)
  BY <1>1, FS_Subset
<1>3. Cardinality(D) \in Nat /\ Cardinality(E) \in Nat
  BY <1>1, <1>2, FS_CardinalityType
<1> QED
  BY <1>1, <1>2, <1>3 DEF Grown

-----------------------------------------------------------------------------
(* One range is merged *)

MergeState == [ok : BOOLEAN, count : Nat, merged : Seq(Span), old : Seq(Span)]

\* r is m with size more counted, or with a failure.
CountedSize(m, r, size) ==
    /\ r \in MergeState /\ r.merged = m.merged /\ r.old = m.old
    /\ r.ok => m.ok /\ r.count = m.count + size
    /\ r.count >= m.count
    /\ m.count <= MaxSubaddresses => r.count <= MaxSubaddresses

\* A part of a range that is new is counted, if there is room for it.
LEMMA CheckMaxRangeIs ==
    ASSUME NEW m \in MergeState, NEW new \in Span
    PROVE  CountedSize(m, CheckMaxRange(m, new), Size(new))
<1>1. Size(new) \in Nat
  BY SpanBounds DEF Size
<1>2. m.count \in Nat /\ MaxSubaddresses \in Nat /\ m.ok \in BOOLEAN
  BY Bounds DEF MergeState
<1>3. CASE ~m.ok \/ m.count + Size(new) > MaxSubaddresses
  <2>1. CheckMaxRange(m, new) = [m EXCEPT !.ok = FALSE]
    BY <1>3 DEF CheckMaxRange
  <2>2. PICK r : r = [m EXCEPT !.ok = FALSE]
    OBVIOUS
  <2>3. /\ r \in MergeState /\ r.merged = m.merged /\ r.old = m.old
        /\ r.count = m.count /\ r.ok = FALSE
    BY <2>2 DEF MergeState
  <2> QED
    BY <1>2, <2>1, <2>2, <2>3 DEF CountedSize
<1>4. CASE m.ok /\ ~(m.count + Size(new) > MaxSubaddresses)
  <2>1. CheckMaxRange(m, new) = [m EXCEPT !.count = m.count + Size(new)]
    BY <1>4 DEF CheckMaxRange, MergeState
  <2>2. m.count + Size(new) \in Nat /\ m.count + Size(new) <= MaxSubaddresses
        /\ m.count + Size(new) >= m.count
    BY <1>1, <1>2, <1>4
  <2> HIDE DEF Size
  <2> QED
    BY <1>2, <1>4, <2>1, <2>2 DEF MergeState, CountedSize
<1> QED
  BY <1>2, <1>3, <1>4

\* Ranges that end before the new one begins are passed.
LEMMA BeforeIs ==
    ASSUME NEW old \in Seq(Span), NEW new \in Span
    PROVE  /\ Before(old, new) \in 0..Len(old)
           /\ Before(old, new) < Len(old) =>
                 old[Before(old, new) + 1][2] + 1 >= new[1]
<1> DEFINE T == {i \in 1..(Len(old) + 1) :
                    i = Len(old) + 1 \/ old[i][2] + 1 >= new[1]}
<1>1. Len(old) \in Nat /\ \A i \in 1..Len(old) : old[i] \in Span
  OBVIOUS
<1>2. T \subseteq Nat /\ Len(old) + 1 \in T
  BY <1>1
<1>3. PICK j \in T : \A i \in T : j <= i
  <2> HIDE DEF T
  <2> QED
    BY <1>2, LeastIndex
<1>4. j \in 1..(Len(old) + 1) /\ (j = Len(old) + 1 \/ old[j][2] + 1 >= new[1])
  BY <1>3
<1>5. \A i \in 1..(j - 1) : old[i][2] + 1 < new[1]
  <2> TAKE i \in 1..(j - 1)
  <2>1. i \in 1..Len(old) /\ ~(j <= i)
    BY <1>1, <1>4
  <2>2. i \notin T
    BY <1>3, <2>1
  <2>3. ~(old[i][2] + 1 >= new[1])
    BY <1>1, <2>1, <2>2
  <2>4. old[i][2] \in Nat /\ new[1] \in Nat
    BY <1>1, <2>1, SpanBounds
  <2> QED
    BY <2>3, <2>4
<1> DEFINE k == j - 1
           P(x) == /\ \A i \in 1..x : old[i][2] + 1 < new[1]
                   /\ x < Len(old) => old[x + 1][2] + 1 >= new[1]
<1>6. k \in 0..Len(old) /\ k + 1 = j
  BY <1>1, <1>4
<1>7. P(k)
  BY <1>1, <1>4, <1>5, <1>6
<1>8. Before(old, new) = CHOOSE x \in 0..Len(old) : P(x)
  BY DEF Before
<1> HIDE DEF k, P
<1>9. Before(old, new) \in 0..Len(old) /\ P(Before(old, new))
  BY <1>6, <1>7, <1>8
<1> QED
  BY <1>9 DEF P

\* The ranges before and behind the place of a new one.
LEMMA PassedRanges ==
    ASSUME NEW m \in MergeState, NEW k \in 0..Len(m.old)
    PROVE  LET next == [m EXCEPT !.old = SubSeq(m.old, k + 1, Len(m.old)),
                                 !.merged = @ \o SubSeq(m.old, 1, k)] IN
           /\ next \in MergeState /\ next.ok = m.ok /\ next.count = m.count
           /\ next.old = SubSeq(m.old, k + 1, Len(m.old))
           /\ Minors(m.merged \o m.old) = Minors(next.merged) \cup Minors(next.old)
<1> DEFINE f == SubSeq(m.old, 1, k) b == SubSeq(m.old, k + 1, Len(m.old))
<1>1. m.merged \in Seq(Span) /\ m.old \in Seq(Span)
  BY DEF MergeState
<1>2. f \in Seq(Span) /\ b \in Seq(Span) /\ Minors(m.old) = Minors(f) \cup Minors(b)
  BY <1>1, SplitRow
<1> HIDE DEF f, b
<1>3. m.merged \o f \in Seq(Span)
  BY <1>1, <1>2
<1>4. Minors(m.merged \o f) = Minors(m.merged) \cup Minors(f)
  BY <1>1, <1>2, MinorsConcat
<1>5. Minors(m.merged \o m.old) = Minors(m.merged) \cup Minors(m.old)
  BY <1>1, MinorsConcat
<1>6. PICK t : t = m.merged \o f
  OBVIOUS
<1>7. [m EXCEPT !.old = b, !.merged = t] \in MergeState
      /\ [m EXCEPT !.old = b, !.merged = t].merged = t
      /\ [m EXCEPT !.old = b, !.merged = t].old = b
      /\ [m EXCEPT !.old = b, !.merged = t].ok = m.ok
      /\ [m EXCEPT !.old = b, !.merged = t].count = m.count
  BY <1>2, <1>3, <1>6 DEF MergeState
<1>8. [m EXCEPT !.old = b, !.merged = t] = [m EXCEPT !.old = b, !.merged = @ \o f]
  BY <1>6
<1> QED
  BY <1>2, <1>4, <1>5, <1>6, <1>7, <1>8 DEF f, b

\* What is expected of the result of a merge.
Merges(m, r, added) ==
    /\ r \in MergeState
    /\ r.count >= m.count
    /\ m.count <= MaxSubaddresses => r.count <= MaxSubaddresses
    /\ r.ok => /\ m.ok
               /\ Minors(RowOf(r)) = Minors(RowOf(m)) \cup added
               /\ Grown(Minors(RowOf(r)) \ Minors(RowOf(m)), r.count - m.count)

\* A new range that touches no stored one.
LEMMA MergeApart ==
    ASSUME NEW m \in MergeState, NEW next \in MergeState, NEW new \in Span,
           next.ok = m.ok, next.count = m.count,
           Minors(RowOf(m)) = Minors(next.merged) \cup Minors(next.old)
    PROVE  Merges(m, CheckMaxRange([next EXCEPT !.merged = Append(@, new)], new),
                  new[1]..new[2])
<1> DEFINE x == [next EXCEPT !.merged = Append(@, new)]
           r == CheckMaxRange(x, new)
<1>1. next.merged \in Seq(Span) /\ next.old \in Seq(Span)
  BY DEF MergeState
<1>2. PICK t : t = Append(next.merged, new)
  OBVIOUS
<1>3. t \in Seq(Span) /\ t = next.merged \o <<new>> /\ <<new>> \in Seq(Span)
  BY <1>1, <1>2, SMTT(30)
<1>4. Minors(t) = Minors(next.merged) \cup (new[1]..new[2])
  <2>1. PICK w : w = <<new>>
    OBVIOUS
  <2>2. w \in Seq(Span) /\ t = next.merged \o w /\ Minors(w) = new[1]..new[2]
    BY <1>3, <2>1, MinorsOne
  <2> QED
    BY <1>1, <2>2, MinorsConcat, ZenonT(30)
<1>5. x = [next EXCEPT !.merged = t]
  BY <1>2 DEF MergeState
<1>6. /\ x \in MergeState /\ x.merged = t /\ x.old = next.old
      /\ x.ok = m.ok /\ x.count = m.count
  BY <1>3, <1>5 DEF MergeState
<1> HIDE DEF x
<1>7. /\ r \in MergeState /\ r.merged = t /\ r.old = next.old
      /\ r.ok => m.ok /\ r.count = m.count + Size(new)
      /\ r.count >= m.count
      /\ m.count <= MaxSubaddresses => r.count <= MaxSubaddresses
  <2>1. CountedSize(x, r, Size(new))
    BY <1>6, CheckMaxRangeIs
  <2> HIDE DEF r
  <2> QED
    BY <1>6, <2>1 DEF CountedSize
<1> HIDE DEF r
<1>8. Minors(RowOf(r)) = Minors(RowOf(m)) \cup (new[1]..new[2])
  <2>1. Minors(RowOf(r)) = Minors(t) \cup Minors(next.old)
    <3>1. RowOf(r) = t \o next.old
      BY <1>7 DEF RowOf
    <3> QED
      BY <1>1, <1>3, <3>1, MinorsConcat
  <2> QED
    BY <1>4, <2>1
<1>9. Grown(new[1]..new[2], Size(new)) /\ Size(new) \in Nat
  BY SpanBounds, GrownInterval DEF Size
<1>10. m.count \in Nat /\ r.count \in Nat
  BY <1>7 DEF MergeState
<1>11. ASSUME r.ok
       PROVE  Grown(Minors(RowOf(r)) \ Minors(RowOf(m)), r.count - m.count)
  <2>1. r.count - m.count \in Nat /\ r.count - m.count = Size(new)
    BY <1>7, <1>9, <1>10, <1>11
  <2>2. Minors(RowOf(r)) \ Minors(RowOf(m)) \subseteq new[1]..new[2]
    BY <1>8
  <2>3. Size(new) <= r.count - m.count
    BY <1>9, <2>1
  <2> QED
    BY <1>9, <2>1, <2>2, <2>3, GrownPart
<1> QED
  BY <1>7, <1>8, <1>11 DEF Merges, x, r

\* r is m with the indexes from x to y counted, or with a failure.
CountedRange(m, r, x, y) ==
    /\ r \in MergeState /\ r.merged = m.merged /\ r.old = m.old
    /\ r.ok => m.ok /\ Grown(x..y, r.count - m.count)
    /\ r.count >= m.count
    /\ m.count <= MaxSubaddresses => r.count <= MaxSubaddresses

\* The part of a new range that is left of a stored one, or right of it.
LEMMA CountedPart ==
    ASSUME NEW m \in MergeState, NEW x \in Int, NEW y \in Int, NEW r,
           x <= y => x \in Index /\ y \in Index,
           x <= y => r = CheckMaxRange(m, <<x, y>>),
           ~(x <= y) => r = m
    PROVE  CountedRange(m, r, x, y)
<1>1. m.count \in Nat
  BY DEF MergeState
<1>2. CASE x <= y
  <2>1. <<x, y>> \in Span /\ x \in Nat /\ y \in Nat
    BY <1>2, IndexNat DEF Span
  <2>2. /\ r \in MergeState /\ r.merged = m.merged /\ r.old = m.old
        /\ r.ok => m.ok /\ r.count = m.count + Size(<<x, y>>)
        /\ r.count >= m.count
        /\ m.count <= MaxSubaddresses => r.count <= MaxSubaddresses
    <3>1. CountedSize(m, r, Size(<<x, y>>))
      BY <1>2, <2>1, CheckMaxRangeIs
    <3> QED
      BY <3>1 DEF CountedSize
  <2>3. Size(<<x, y>>) = y - x + 1 /\ Grown(x..y, y - x + 1) /\ y - x + 1 \in Nat
    BY <1>2, <2>1, GrownInterval DEF Size
  <2>4. r.ok => r.count - m.count = y - x + 1
    BY <1>1, <2>2, <2>3
  <2> QED
    BY <2>2, <2>3, <2>4 DEF CountedRange
<1>3. CASE ~(x <= y)
  <2>1. x..y = {}
    BY <1>3
  <2>2. m.count - m.count = 0
    BY <1>1
  <2> QED
    BY <1>1, <1>3, <2>1, <2>2, GrownNone DEF CountedRange
<1> QED
  BY <1>2, <1>3

\* What is new of a range that touches a stored one, and the stored one
\* when it is extended.
LeftPart(m, new, first) ==
    IF new[1] < first[1] THEN CheckMaxRange(m, <<new[1], first[1] - 1>>) ELSE m
RightPart(m, new, first) ==
    IF first[2] < new[2] THEN CheckMaxRange(m, <<first[2] + 1, new[2]>>) ELSE m
Extended(m, new, first, rest) ==
    [m EXCEPT !.old = <<<<Smaller(new[1], first[1]),
                          Larger(new[2], first[2])>>>> \o rest]

\* A new range that touches a stored one.
LEMMA MergeTouching ==
    ASSUME NEW m \in MergeState, NEW next \in MergeState, NEW new \in Span,
           NEW first \in Span, NEW rest \in Seq(Span),
           next.ok = m.ok, next.count = m.count,
           Minors(RowOf(m)) =
              Minors(next.merged) \cup (first[1]..first[2]) \cup Minors(rest),
           first[2] + 1 >= new[1], new[2] + 1 >= first[1],
           NEW front, NEW back,
           front = LeftPart(next, new, first), back = RightPart(front, new, first)
    PROVE  Merges(m, Extended(back, new, first, rest), new[1]..new[2])
<1>1. /\ new[1] \in Nat /\ new[2] \in Nat /\ first[1] \in Nat /\ first[2] \in Nat
      /\ new[1] \in Index /\ new[2] \in Index
      /\ first[1] \in Index /\ first[2] \in Index
      /\ new[1] <= new[2] /\ first[1] <= first[2]
  BY SpanBounds
<1> DEFINE P == new[1]..(first[1] - 1) Q == (first[2] + 1)..new[2]
           h == <<Smaller(new[1], first[1]), Larger(new[2], first[2])>>
<1>2. /\ front \in MergeState /\ front.merged = next.merged /\ front.old = next.old
      /\ front.ok => next.ok /\ Grown(P, front.count - next.count)
      /\ front.count >= next.count
      /\ next.count <= MaxSubaddresses => front.count <= MaxSubaddresses
  <2>1. new[1] < first[1] <=> new[1] <= first[1] - 1
    BY <1>1
  <2>2. new[1] <= first[1] - 1 => first[1] - 1 \in Index
    BY <1>1, Bounds DEF Index
  <2>3. PICK y : y = first[1] - 1
    OBVIOUS
  <2>4. y \in Int /\ new[1] \in Int /\ (new[1] <= y => y \in Index)
    BY <1>1, <2>2, <2>3
  <2>5. new[1] <= y => front = CheckMaxRange(next, <<new[1], y>>)
    BY <2>1, <2>3 DEF LeftPart
  <2>6. ~(new[1] <= y) => front = next
    BY <2>1, <2>3 DEF LeftPart
  <2>7. CountedRange(next, front, new[1], y)
    BY <1>1, <2>4, <2>5, <2>6, CountedPart
  <2> QED
    BY <2>3, <2>7 DEF CountedRange
<1>3. /\ back \in MergeState /\ back.merged = front.merged /\ back.old = front.old
      /\ back.ok => front.ok /\ Grown(Q, back.count - front.count)
      /\ back.count >= front.count
      /\ front.count <= MaxSubaddresses => back.count <= MaxSubaddresses
  <2>1. first[2] < new[2] <=> first[2] + 1 <= new[2]
    BY <1>1
  <2>2. first[2] + 1 <= new[2] => first[2] + 1 \in Index
    BY <1>1, Bounds DEF Index
  <2>3. PICK x : x = first[2] + 1
    OBVIOUS
  <2>4. x \in Int /\ new[2] \in Int /\ (x <= new[2] => x \in Index)
    BY <1>1, <2>2, <2>3
  <2>5. x <= new[2] => back = CheckMaxRange(front, <<x, new[2]>>)
    BY <2>1, <2>3 DEF RightPart
  <2>6. ~(x <= new[2]) => back = front
    BY <2>1, <2>3 DEF RightPart
  <2>7. CountedRange(front, back, x, new[2])
    BY <1>1, <1>2, <2>4, <2>5, <2>6, CountedPart
  <2> QED
    BY <2>3, <2>7 DEF CountedRange
<1>4. h \in Span
  <2>1. Smaller(new[1], first[1]) \in Index /\ Larger(new[2], first[2]) \in Index
        /\ Smaller(new[1], first[1]) <= Larger(new[2], first[2])
    BY <1>1 DEF Smaller, Larger
  <2> QED
    BY <2>1 DEF Span
<1>5. /\ h[1]..h[2] = (first[1]..first[2]) \cup (new[1]..new[2])
      /\ h[1]..h[2] \subseteq (first[1]..first[2]) \cup P \cup Q
  <2>1. h[1] = Smaller(new[1], first[1]) /\ h[2] = Larger(new[2], first[2])
    OBVIOUS
  <2> QED
    BY <1>1, <2>1, SMTT(30) DEF Smaller, Larger
<1> HIDE DEF h, P, Q
<1>6. PICK t : t = <<h>> \o rest
  OBVIOUS
<1>7. t \in Seq(Span) /\ Minors(t) = (h[1]..h[2]) \cup Minors(rest)
  <2>1. <<h>> \in Seq(Span)
    BY <1>4
  <2>2. t \in Seq(Span)
    BY <1>6, <2>1
  <2>3. Minors(t) = Minors(<<h>>) \cup Minors(rest)
    BY <1>6, <2>1, MinorsConcat
  <2> QED
    BY <2>2, <2>3, MinorsOne
<1>8. PICK r : r = [back EXCEPT !.old = t]
  OBVIOUS
<1>9. /\ r \in MergeState /\ r.old = t /\ r.merged = next.merged
      /\ r.ok = back.ok /\ r.count = back.count
  BY <1>2, <1>3, <1>7, <1>8 DEF MergeState
<1>10. next.merged \in Seq(Span)
  BY DEF MergeState
<1>11. Minors(RowOf(r)) = Minors(next.merged) \cup (h[1]..h[2]) \cup Minors(rest)
  BY <1>7, <1>9, <1>10, MinorsConcat DEF RowOf
<1>12. Minors(RowOf(r)) = Minors(RowOf(m)) \cup (new[1]..new[2])
  BY <1>5, <1>11
<1>13. Minors(RowOf(r)) \ Minors(RowOf(m)) \subseteq P \cup Q
  BY <1>5, <1>11
<1>14. m.count \in Nat /\ front.count \in Nat /\ back.count \in Nat
  BY <1>2, <1>3 DEF MergeState
<1>15. ASSUME r.ok
       PROVE  m.ok /\ Grown(Minors(RowOf(r)) \ Minors(RowOf(m)), r.count - m.count)
  <2>1. back.ok /\ front.ok /\ m.ok
    BY <1>2, <1>3, <1>9, <1>15
  <2>2. Grown(P, front.count - m.count) /\ Grown(Q, back.count - front.count)
    BY <1>2, <1>3, <2>1
  <2>3. Grown(P \cup Q, (front.count - m.count) + (back.count - front.count))
    BY <2>2, GrownUnion
  <2>4. /\ (front.count - m.count) + (back.count - front.count) = r.count - m.count
        /\ r.count - m.count \in Nat
    BY <1>2, <1>3, <1>9, <1>14
  <2>5. Grown(P \cup Q, r.count - m.count) /\ r.count - m.count <= r.count - m.count
    BY <2>3, <2>4
  <2>6. Grown(Minors(RowOf(r)) \ Minors(RowOf(m)), r.count - m.count)
    BY <1>13, <2>4, <2>5, GrownPart
  <2> QED
    BY <2>1, <2>6
<1>16. r.count >= m.count /\ (m.count <= MaxSubaddresses => r.count <= MaxSubaddresses)
  BY <1>2, <1>3, <1>9, <1>14
<1>17. Merges(m, r, new[1]..new[2])
  BY <1>9, <1>12, <1>15, <1>16 DEF Merges
<1>18. r = Extended(back, new, first, rest)
  BY <1>6, <1>8 DEF h, Extended
<1> QED
  BY <1>17, <1>18

\* One new range is merged: every index of it is in the result, none is lost,
\* and no more are new than are counted.
LEMMA MergeRangeIs ==
    ASSUME NEW m \in MergeState, NEW new \in Span
    PROVE  Merges(m, MergeRange(m, new), new[1]..new[2])
<1>0. m.old \in Seq(Span)
  BY DEF MergeState
<1> DEFINE k == Before(m.old, new)
           b == SubSeq(m.old, k + 1, Len(m.old))
           next == [m EXCEPT !.old = b, !.merged = @ \o SubSeq(m.old, 1, k)]
           first == Head(b)
           front == IF new[1] < first[1]
                    THEN CheckMaxRange(next, <<new[1], first[1] - 1>>) ELSE next
           back == IF first[2] < new[2]
                   THEN CheckMaxRange(front, <<first[2] + 1, new[2]>>) ELSE front
<1>1. k \in 0..Len(m.old) /\ (k < Len(m.old) => m.old[k + 1][2] + 1 >= new[1])
  BY <1>0, BeforeIs
<1>2. /\ next \in MergeState /\ next.ok = m.ok /\ next.count = m.count
      /\ next.old = b
      /\ Minors(RowOf(m)) = Minors(next.merged) \cup Minors(b)
  <2> HIDE DEF k
  <2> QED
    BY <1>1, PassedRanges DEF RowOf
<1>3. b \in Seq(Span) /\ (b = <<>> <=> k = Len(m.old))
  BY <1>0, <1>1, SplitRow
<1>4. MergeRange(m, new) =
         IF b = <<>> \/ new[2] + 1 < first[1]
         THEN CheckMaxRange([next EXCEPT !.merged = Append(@, new)], new)
         ELSE [back EXCEPT !.old = <<<<Smaller(new[1], first[1]),
                                       Larger(new[2], first[2])>>>> \o Tail(b)]
  BY DEF MergeRange
<1>5. CASE b = <<>> \/ new[2] + 1 < first[1]
  <2>1. MergeRange(m, new) = CheckMaxRange([next EXCEPT !.merged = Append(@, new)], new)
    BY <1>4, <1>5
  <2> HIDE DEF next, b, first, front, back
  <2> QED
    BY <1>2, <2>1, MergeApart
<1>6. CASE ~(b = <<>> \/ new[2] + 1 < first[1])
  <2>1. first \in Span /\ Tail(b) \in Seq(Span)
        /\ Minors(b) = (first[1]..first[2]) \cup Minors(Tail(b))
    BY <1>3, <1>6, HeadAndTail
  <2>2. first = m.old[k + 1]
    <3>1. Len(m.old) \in Nat /\ k \in Nat /\ k + 1 <= Len(m.old)
      BY <1>0, <1>1, <1>3, <1>6
    <3>2. \A i \in (k + 1)..Len(m.old) : m.old[i] \in Span
      BY <1>0, <3>1
    <3>3. \A i \in 1..(Len(m.old) - (k + 1) + 1) : b[i] = m.old[(k + 1) + i - 1]
      <4> HIDE DEF k
      <4> QED
        BY <3>1, <3>2, SubSeqProperties
    <3>4. 1 \in 1..(Len(m.old) - (k + 1) + 1) /\ (k + 1) + 1 - 1 = k + 1
      BY <3>1
    <3>5. b[1] = m.old[k + 1]
      BY <3>3, <3>4
    <3>6. Head(b) = b[1]
      <4> HIDE DEF b
      <4> QED
        BY <1>3, <1>6
    <3> QED
      BY <3>5, <3>6
  <2>3. first[2] + 1 >= new[1]
    <3>1. k < Len(m.old)
      BY <1>0, <1>1, <1>3, <1>6
    <3> QED
      BY <1>1, <2>2, <3>1
  <2>4. new[2] + 1 >= first[1]
    <3>1. new[2] \in Nat /\ first[1] \in Nat
      BY <2>1, SpanBounds
    <3>2. ~(new[2] + 1 < first[1])
      BY <1>6
    <3> HIDE DEF first
    <3> QED
      BY <3>1, <3>2
  <2>5. Minors(RowOf(m)) = Minors(next.merged) \cup (first[1]..first[2]) \cup Minors(Tail(b))
    BY <1>2, <2>1
  <2>6. MergeRange(m, new) = [back EXCEPT !.old = <<<<Smaller(new[1], first[1]),
                                       Larger(new[2], first[2])>>>> \o Tail(b)]
    BY <1>4, <1>6
  <2>7. front = LeftPart(next, new, first) /\ back = RightPart(front, new, first)
    BY DEF LeftPart, RightPart
  <2>8. MergeRange(m, new) = Extended(back, new, first, Tail(b))
    BY <2>6 DEF Extended
  <2> HIDE DEF next, b, first, front, back
  <2>9. Merges(m, Extended(back, new, first, Tail(b)), new[1]..new[2])
    BY <1>2, <2>1, <2>3, <2>4, <2>5, <2>7, MergeTouching
  <2> QED
    BY <2>8, <2>9
<1> QED
  BY <1>5, <1>6

-----------------------------------------------------------------------------
(* Recursion over a list *)

\* What holds of 0, and of each number up to n when it holds of the one
\* before, holds of n.
LEMMA Reaches ==
    ASSUME NEW n \in Nat, NEW T, 0 \in T, \A i \in 1..n : i - 1 \in T => i \in T
    PROVE  n \in T
<1> DEFINE L == {i \in 0..n : i \notin T}
<1>1. SUFFICES ASSUME L # {} PROVE FALSE
  OBVIOUS
<1>2. PICK k \in L : \A j \in L : k <= j
  <2>1. L \subseteq Nat
    OBVIOUS
  <2> HIDE DEF L
  <2> QED
    BY <1>1, <2>1, LeastIndex
<1>3. k \in 0..n /\ k \notin T
  BY <1>2
<1>4. k # 0
  BY <1>3
<1>5. k \in 1..n /\ k - 1 \in 0..n /\ ~(k <= k - 1)
  BY <1>3, <1>4
<1>6. k - 1 \in T
  BY <1>2, <1>5
<1> QED
  BY <1>3, <1>5, <1>6

\* u[i] is what the first i steps make of x.
Runs(u, n, x, step) ==
    u = [i \in 0..n |-> IF i = 0 THEN x ELSE step[i][u[i - 1]]]

\* A list of steps can be taken one after the other.
LEMMA StepsRun ==
    ASSUME NEW n \in Nat, NEW S, NEW x \in S, NEW step \in [1..n -> [S -> S]]
    PROVE  \E u \in [0..n -> S] : Runs(u, n, x, step)
<1> DEFINE Has(k) == \E u \in [0..k -> S] : Runs(u, k, x, step)
           T == {k \in 0..n : Has(k)}
<1>1. Has(0)
  <2> DEFINE u == [i \in 0..0 |-> x]
  <2>1. u \in [0..0 -> S] /\ \A i \in 0..0 : i = 0
    OBVIOUS
  <2>2. Runs(u, 0, x, step)
    BY <2>1 DEF Runs
  <2> QED
    BY <2>1, <2>2
<1>2. ASSUME NEW k \in 1..n, Has(k - 1)
      PROVE  Has(k)
  <2>1. PICK v \in [0..(k - 1) -> S] : Runs(v, k - 1, x, step)
    BY <1>2
  <2>2. \A i \in 0..(k - 1) : v[i] = IF i = 0 THEN x ELSE step[i][v[i - 1]]
    BY <2>1 DEF Runs
  <2>3. k - 1 \in 0..(k - 1) /\ v[k - 1] \in S /\ step[k] \in [S -> S]
    BY <2>1
  <2>4. PICK y \in S : y = step[k][v[k - 1]]
    BY <2>3
  <2> DEFINE u == [i \in 0..k |-> IF i = k THEN y ELSE v[i]]
  <2>5. u \in [0..k -> S]
    BY <2>1, <2>4
  <2>6. \A i \in 0..k : u[i] = IF i = 0 THEN x ELSE step[i][u[i - 1]]
    <3> SUFFICES ASSUME NEW i \in 0..k
                 PROVE  u[i] = IF i = 0 THEN x ELSE step[i][u[i - 1]]
      OBVIOUS
    <3>1. CASE i = k
      <4>1. i # 0 /\ u[i] = y /\ i - 1 \in 0..k /\ i - 1 # k
        BY <3>1
      <4>2. u[i - 1] = v[k - 1]
        BY <3>1, <4>1
      <4> QED
        BY <2>4, <3>1, <4>1, <4>2
    <3>2. CASE i # k
      <4>1. i \in 0..(k - 1) /\ u[i] = v[i]
        BY <3>2
      <4>2. i # 0 => i - 1 \in 0..k /\ i - 1 # k /\ u[i - 1] = v[i - 1]
        BY <3>2
      <4> HIDE DEF u
      <4> QED
        BY <2>2, <4>1, <4>2
    <3> QED
      BY <3>1, <3>2
  <2> HIDE DEF u
  <2>7. Runs(u, k, x, step)
    BY <2>5, <2>6 DEF Runs
  <2> QED
    BY <2>5, <2>7
<1>3. 0 \in T
  BY <1>1
<1>4. \A k \in 1..n : k - 1 \in T => k \in T
  <2> HIDE DEF Has
  <2> QED
    BY <1>2
<1>5. n \in T
  <2> HIDE DEF T
  <2> QED
    BY <1>3, <1>4, Reaches
<1> QED
  BY <1>5

-----------------------------------------------------------------------------
(* A list of ranges is merged *)

\* A merge of nothing.
LEMMA MergesNone ==
    ASSUME NEW m \in MergeState
    PROVE  Merges(m, m, {})
<1>1. m.count \in Nat
  BY DEF MergeState
<1>2. m.count - m.count = 0
  BY <1>1
<1>3. Minors(RowOf(m)) \ Minors(RowOf(m)) = {}
  OBVIOUS
<1> QED
  BY <1>1, <1>2, <1>3, GrownNone DEF Merges

\* One merge after the other.
LEMMA MergesBoth ==
    ASSUME NEW m \in MergeState, NEW r \in MergeState, NEW s, NEW A, NEW B,
           Merges(m, r, A), Merges(r, s, B)
    PROVE  Merges(m, s, A \cup B)
<1>0. s \in MergeState
  BY DEF Merges
<1>1. m.count \in Nat /\ r.count \in Nat /\ s.count \in Nat
  BY <1>0 DEF MergeState
<1>2. r.count >= m.count /\ s.count >= r.count
      /\ (m.count <= MaxSubaddresses => r.count <= MaxSubaddresses)
      /\ (r.count <= MaxSubaddresses => s.count <= MaxSubaddresses)
  BY DEF Merges
<1>3. ASSUME s.ok
      PROVE  /\ m.ok
             /\ Minors(RowOf(s)) = Minors(RowOf(m)) \cup (A \cup B)
             /\ Grown(Minors(RowOf(s)) \ Minors(RowOf(m)), s.count - m.count)
  <2>1. /\ r.ok /\ Minors(RowOf(s)) = Minors(RowOf(r)) \cup B
        /\ Grown(Minors(RowOf(s)) \ Minors(RowOf(r)), s.count - r.count)
    BY <1>3 DEF Merges
  <2>2. /\ m.ok /\ Minors(RowOf(r)) = Minors(RowOf(m)) \cup A
        /\ Grown(Minors(RowOf(r)) \ Minors(RowOf(m)), r.count - m.count)
    BY <2>1 DEF Merges
  <2> DEFINE D == Minors(RowOf(r)) \ Minors(RowOf(m))
             E == Minors(RowOf(s)) \ Minors(RowOf(r))
             F == Minors(RowOf(s)) \ Minors(RowOf(m))
  <2>3. F \subseteq D \cup E
    OBVIOUS
  <2> HIDE DEF D, E, F
  <2>4. Grown(D, r.count - m.count) /\ Grown(E, s.count - r.count)
    BY <2>1, <2>2 DEF D, E
  <2>5. Grown(D \cup E, (r.count - m.count) + (s.count - r.count))
    BY <2>4, GrownUnion
  <2>6. (r.count - m.count) + (s.count - r.count) = s.count - m.count
        /\ s.count - m.count \in Nat /\ s.count - m.count <= s.count - m.count
    BY <1>1, <1>2
  <2>7. Grown(F, s.count - m.count)
    BY <2>3, <2>5, <2>6, GrownPart
  <2> QED
    BY <2>1, <2>2, <2>7 DEF F
<1> QED
  BY <1>0, <1>1, <1>2, <1>3 DEF Merges

\* The ranges of a list are merged one after the other: every index of them
\* is in the result, none is lost, and no more are new than are counted.
LEMMA MergeRangesIs ==
    ASSUME NEW old \in Seq(Span), NEW count \in Nat, NEW new \in Seq(Span)
    PROVE  LET m == [ok |-> TRUE, count |-> count, merged |-> <<>>, old |-> old] IN
           Merges(m, MergeRanges(old, count, new), Minors(new))
<1> DEFINE m == [ok |-> TRUE, count |-> count, merged |-> <<>>, old |-> old]
           n == Len(new)
           step == [i \in 1..n |-> [x \in MergeState |-> MergeRange(x, new[i])]]
           Is(f) == f = [i \in 0..n |-> IF i = 0 THEN m
                                        ELSE MergeRange(f[i - 1], new[i])]
           after == CHOOSE f : Is(f)
<1>1. n \in Nat /\ DOMAIN new = 1..n /\ \A i \in 1..n : new[i] \in Span
  OBVIOUS
<1>2. m \in MergeState
  <2>1. <<>> \in Seq(Span)
    OBVIOUS
  <2> QED
    BY <2>1 DEF MergeState
<1>3. \A x \in MergeState, i \in 1..n : Merges(x, MergeRange(x, new[i]), new[i][1]..new[i][2])
  BY <1>1, MergeRangeIs
<1>4. step \in [1..n -> [MergeState -> MergeState]]
  <2>1. \A x \in MergeState, i \in 1..n : MergeRange(x, new[i]) \in MergeState
    BY <1>3 DEF Merges
  <2> HIDE DEF n
  <2> QED
    BY <2>1
<1> HIDE DEF m
<1>5. PICK u \in [0..n -> MergeState] : Runs(u, n, m, step)
  <2> HIDE DEF step, n
  <2> QED
    BY <1>1, <1>2, <1>4, StepsRun
<1>6. Is(u)
  <2>1. \A i \in 0..n : u[i] = IF i = 0 THEN m ELSE step[i][u[i - 1]]
    BY <1>5 DEF Runs
  <2>2. \A i \in 0..n : u[i] = IF i = 0 THEN m ELSE MergeRange(u[i - 1], new[i])
    <3> TAKE i \in 0..n
    <3>1. i # 0 => i \in 1..n /\ i - 1 \in 0..n /\ u[i - 1] \in MergeState
      BY <1>1
    <3> QED
      BY <2>1, <3>1
  <2> HIDE DEF step, n
  <2> QED
    BY <1>1, <2>2
<1>7. Is(after)
  <2> HIDE DEF Is
  <2> QED
    BY <1>6
<1>8. MergeRanges(old, count, new) = after[n]
  BY DEF MergeRanges, m
<1> DEFINE Part(i) == UNION {new[j][1]..new[j][2] : j \in 1..i}
           T == {i \in 0..n : Merges(m, after[i], Part(i))}
<1> HIDE DEF after
<1>9. after[0] = m /\ \A i \in 1..n : after[i] = MergeRange(after[i - 1], new[i])
  <2> HIDE DEF m
  <2>1. \A i \in 0..n : after[i] = IF i = 0 THEN m ELSE MergeRange(after[i - 1], new[i])
    BY <1>7
  <2> QED
    BY <1>1, <2>1
<1>10. 0 \in T
  <2>1. Part(0) = {}
    OBVIOUS
  <2>2. Merges(m, after[0], Part(0))
    BY <1>2, <1>9, <2>1, MergesNone
  <2> QED
    BY <1>1, <2>2
<1>11. ASSUME NEW i \in 1..n, i - 1 \in T
       PROVE  i \in T
  <2>1. Merges(m, after[i - 1], Part(i - 1))
    BY <1>11
  <2>2. after[i - 1] \in MergeState
    BY <2>1 DEF Merges
  <2>3. Merges(after[i - 1], after[i], new[i][1]..new[i][2])
    BY <1>3, <1>9, <2>2
  <2>4. Merges(m, after[i], Part(i - 1) \cup (new[i][1]..new[i][2]))
    <3> HIDE DEF Part
    <3> QED
      BY <1>2, <2>1, <2>2, <2>3, MergesBoth
  <2>5. Part(i) = Part(i - 1) \cup (new[i][1]..new[i][2])
    <3>1. \A j : j \in 1..i <=> j \in 1..(i - 1) \/ j = i
      BY <1>1
    <3> QED
      BY <3>1
  <2> HIDE DEF Part
  <2> QED
    BY <2>4, <2>5
<1>12. n \in T
  <2> HIDE DEF T, n
  <2> QED
    BY <1>1, <1>10, <1>11, Reaches
<1>13. Part(n) = Minors(new)
  BY <1>1 DEF Minors
<1>14. Merges(m, after[n], Part(n))
  <2> HIDE DEF Part
  <2> QED
    BY <1>12
<1> HIDE DEF Part
<1> QED
  BY <1>8, <1>13, <1>14 DEF m

-----------------------------------------------------------------------------
(* do_upsert *)

Row == [id : AccountId, address : Address, major : Index, minor : Index]
Key(id, address, major, minor) ==
    [id |-> id, address |-> address, major |-> major, minor |-> minor]

Entry == [major : Index, ranges : Seq(Index \X Index)]

\* The state of do_upsert.
FiniteRows == {I \in SUBSET Row : IsFiniteSet(I)}
Tables == [ok : BOOLEAN, count : Nat, ranges : [Index -> Seq(Span)],
           indexes : FiniteRows]

OfId(rows, id) == {r \in rows : r.id = id}

\* Every listed index has a row, and no more rows are there than are counted.
Backs(rows, listed, id, address) ==
    \A m \in Index : \A x \in Minors(listed[m]) : Key(id, address, m, x) \in rows
Sound(u, id, address) ==
    /\ Backs(u.indexes, u.ranges, id, address)
    /\ Grown(OfId(u.indexes, id), u.count)
    /\ u.count <= MaxSubaddresses

\* What is expected of an upsert that leads from u to v and is asked for the
\* indexes in W.
Adds(u, v, id, address, W) ==
    /\ u.indexes \subseteq v.indexes
    /\ \A r \in v.indexes \ u.indexes : r.id = id /\ r.address = address
    /\ \A m \in Index : \/ v.ranges[m] = u.ranges[m]
                       \/ \A x \in Minors(v.ranges[m]) : Key(id, address, m, x) \in v.indexes
Lists(u, v, id, address, W) ==
    v.ok => /\ u.ok
            /\ \A m \in Index : Minors(v.ranges[m]) = Minors(u.ranges[m]) \cup W[m]
            /\ \A m \in Index : \A x \in W[m] : Key(id, address, m, x) \in v.indexes
Keeps(u, v, id, address, W) ==
    Sound(u, id, address) =>
        /\ Sound(v, id, address)
        /\ \A r \in v.indexes \ u.indexes : r.minor \in W[r.major]
Upserts(u, v, id, address, W) ==
    /\ v \in Tables
    /\ Adds(u, v, id, address, W)
    /\ Lists(u, v, id, address, W)
    /\ Keeps(u, v, id, address, W)

\* The fields of the tables.
LEMMA TablesFields ==
    ASSUME NEW u \in Tables
    PROVE  /\ u.ok \in BOOLEAN /\ u.count \in Nat
           /\ u.ranges \in [Index -> Seq(Span)]
           /\ u.indexes \subseteq Row /\ IsFiniteSet(u.indexes)
  BY DEF Tables, FiniteRows

\* An upsert that fails at once.
LEMMA UpsertsFail ==
    ASSUME NEW u \in Tables, NEW v, NEW id, NEW address, NEW W,
           v = [u EXCEPT !.ok = FALSE]
    PROVE  Upserts(u, v, id, address, W)
<1>1. /\ v \in Tables /\ v.ok = FALSE /\ v.count = u.count
      /\ v.ranges = u.ranges /\ v.indexes = u.indexes
  BY DEF Tables
<1>2. Sound(u, id, address) => Sound(v, id, address)
  BY <1>1 DEF Sound
<1>3. Lists(u, v, id, address, W)
  BY <1>1 DEF Lists
<1> QED
  BY <1>1, <1>2, <1>3 DEF Upserts, Adds, Keeps

\* An upsert of nothing.
LEMMA UpsertsNone ==
    ASSUME NEW u \in Tables, NEW id, NEW address, NEW W,
           \A m \in Index : W[m] = {}
    PROVE  Upserts(u, u, id, address, W)
  BY DEF Upserts, Adds, Lists, Keeps

\* One upsert after the other.
LEMMA UpsertsBoth ==
    ASSUME NEW u \in Tables, NEW v \in Tables, NEW w, NEW id, NEW address,
           NEW W, NEW X, NEW Y, \A m \in Index : Y[m] = W[m] \cup X[m],
           Upserts(u, v, id, address, W), Upserts(v, w, id, address, X)
    PROVE  Upserts(u, w, id, address, Y)
<1>1. w \in Tables
  BY DEF Upserts
<1>2. Adds(u, v, id, address, W) /\ Adds(v, w, id, address, X)
      /\ Lists(u, v, id, address, W) /\ Lists(v, w, id, address, X)
      /\ Keeps(u, v, id, address, W) /\ Keeps(v, w, id, address, X)
  BY DEF Upserts
<1>3. Adds(u, w, id, address, Y)
  BY <1>2 DEF Adds
<1>4. Lists(u, w, id, address, Y)
  BY <1>2 DEF Lists, Adds
<1>5. Keeps(u, w, id, address, Y)
  <2> SUFFICES ASSUME Sound(u, id, address)
               PROVE  /\ Sound(w, id, address)
                      /\ \A r \in w.indexes \ u.indexes : r.minor \in Y[r.major]
    BY DEF Keeps
  <2>1. Sound(v, id, address) /\ \A r \in v.indexes \ u.indexes : r.minor \in W[r.major]
    BY <1>2 DEF Keeps
  <2>2. Sound(w, id, address) /\ \A r \in w.indexes \ v.indexes : r.minor \in X[r.major]
    BY <1>2, <2>1 DEF Keeps
  <2>3. \A r \in w.indexes : r.major \in Index
    BY <1>1, TablesFields DEF Row
  <2> QED
    BY <2>1, <2>2, <2>3
<1> QED
  BY <1>1, <1>3, <1>4, <1>5 DEF Upserts

\* Ranges that pass check_subaddress_dict are ranges.
LEMMA CheckedRanges ==
    ASSUME NEW row \in Seq(Index \X Index), CheckSubaddressDict(row)
    PROVE  row \in Seq(Span)
<1>1. DOMAIN row = 1..Len(row) /\ Len(row) \in Nat
      /\ \A i \in 1..Len(row) : row[i] \in Index \X Index
  OBVIOUS
<1>2. \A i \in 1..Len(row) : row[i] \in Span
  BY <1>1 DEF CheckSubaddressDict, Span
<1> QED
  BY <1>1, <1>2

\* The rows of a set of minor indexes are no more than these.
LEMMA GrownRows ==
    ASSUME NEW D, NEW c, Grown(D, c), NEW id, NEW address, NEW major
    PROVE  Grown({Key(id, address, major, x) : x \in D}, c)
<1> DEFINE f == [x \in D |-> Key(id, address, major, x)]
           R == {Key(id, address, major, x) : x \in D}
<1>1. f \in Surjection(D, R)
  BY DEF Surjection
<1>2. IsFiniteSet(D) /\ c \in Nat /\ Cardinality(D) <= c
  BY DEF Grown
<1> HIDE DEF f, R
<1>3. IsFiniteSet(R) /\ Cardinality(R) <= Cardinality(D)
  BY <1>1, <1>2, FS_Surjection
<1>4. Cardinality(R) \in Nat /\ Cardinality(D) \in Nat
  BY <1>2, <1>3, FS_CardinalityType
<1> QED
  BY <1>2, <1>3, <1>4 DEF Grown, R

\* Tables that were written.
Made(ok, c, R, I) == [ok |-> ok, count |-> c, ranges |-> R, indexes |-> I]

\* Their fields.
LEMMA TablesMade ==
    ASSUME NEW c \in Nat, NEW R \in [Index -> Seq(Span)], NEW I \in FiniteRows,
           NEW ok \in BOOLEAN
    PROVE  /\ Made(ok, c, R, I) \in Tables
           /\ Made(ok, c, R, I).ok = ok /\ Made(ok, c, R, I).count = c
           /\ Made(ok, c, R, I).ranges = R /\ Made(ok, c, R, I).indexes = I
<1> DEFINE v == [ok |-> ok, count |-> c, ranges |-> R, indexes |-> I]
<1>1. v.ok = ok /\ v.count = c /\ v.ranges = R /\ v.indexes = I
  OBVIOUS
<1>2. v \in Tables
  BY Zenon DEF Tables
<1> HIDE DEF v
<1> QED
  BY <1>1, <1>2 DEF Made, v

\* The row of one major index is replaced by a larger one.
LEMMA RowReplaced ==
    ASSUME NEW u \in Tables, NEW id \in AccountId, NEW address \in Address,
           NEW major \in Index, NEW row \in Seq(Span), NEW count \in Nat,
           NEW A, NEW W, NEW v, u.ok,
           Minors(row) = Minors(u.ranges[major]) \cup A,
           Grown(Minors(row) \ Minors(u.ranges[major]), count - u.count),
           u.count <= MaxSubaddresses => count <= MaxSubaddresses,
           \A m \in Index : W[m] = IF m = major THEN A ELSE {},
           IsFiniteSet(Minors(row)),
           v = [ok |-> TRUE, count |-> count,
                ranges |-> [u.ranges EXCEPT ![major] = row],
                indexes |-> u.indexes \cup IndexRows(id, address, major, row)]
    PROVE  Upserts(u, v, id, address, W)
<1> DEFINE new == IndexRows(id, address, major, row)
<1>1. new = {Key(id, address, major, x) : x \in Minors(row)}
  BY DEF IndexRows, Key
<1>2. Minors(row) \subseteq Index
  BY MinorsType
<1>3. new \subseteq Row
  BY <1>1, <1>2 DEF Row, Key
<1>4. IsFiniteSet(new)
  <2>1. IsFiniteSet({Key(id, address, major, x) : x \in Minors(row)})
    <3>1. Grown(Minors(row), Cardinality(Minors(row)))
      <4>1. Cardinality(Minors(row)) \in Nat
        BY FS_CardinalityType
      <4> QED
        BY <4>1 DEF Grown
    <3>2. Grown({Key(id, address, major, x) : x \in Minors(row)}, Cardinality(Minors(row)))
      BY <3>1, GrownRows
    <3> QED
      BY <3>2 DEF Grown
  <2> QED
    BY <1>1, <2>1
<1> HIDE DEF new
<1>5. IsFiniteSet(u.indexes \cup new) /\ u.indexes \cup new \subseteq Row
  BY <1>3, <1>4, TablesFields, FS_Union
<1>6. u.ranges \in [Index -> Seq(Span)] /\ u.count \in Nat
  BY TablesFields
<1>7. PICK R : R = [u.ranges EXCEPT ![major] = row]
  OBVIOUS
<1>8. /\ R \in [Index -> Seq(Span)] /\ R[major] = row
      /\ \A m \in Index : m # major => R[m] = u.ranges[m]
  BY <1>6, <1>7
<1>9. PICK I : I = u.indexes \cup new
  OBVIOUS
<1>10. v = [ok |-> TRUE, count |-> count, ranges |-> R, indexes |-> I]
  BY <1>7, <1>9 DEF new
<1>11. v \in Tables /\ v.ok = TRUE /\ v.count = count /\ v.ranges = R /\ v.indexes = I
  <2>1. I \in FiniteRows
    BY <1>5, <1>9 DEF FiniteRows
  <2>2. PICK b \in BOOLEAN : b = TRUE
    OBVIOUS
  <2>3. v = Made(b, count, R, I)
    BY <1>10, <2>2 DEF Made
  <2>4. v \in Tables /\ v.ok = b /\ v.count = count /\ v.ranges = R /\ v.indexes = I
    <3>1. R \in [Index -> Seq(Span)]
      BY <1>8
    <3>2. /\ Made(b, count, R, I) \in Tables
          /\ Made(b, count, R, I).ok = b /\ Made(b, count, R, I).count = count
          /\ Made(b, count, R, I).ranges = R /\ Made(b, count, R, I).indexes = I
      BY <2>1, <3>1, TablesMade
    <3> QED
      BY <2>3, <3>2, Zenon
  <2> QED
    BY <2>2, <2>4
<1>12. Adds(u, v, id, address, W)
  <2>1. u.indexes \subseteq I /\ \A r \in I \ u.indexes : r.id = id /\ r.address = address
    BY <1>1, <1>9 DEF Key
  <2>2. \A x \in Minors(row) : Key(id, address, major, x) \in I
    BY <1>1, <1>9
  <2> QED
    BY <1>8, <1>11, <2>1, <2>2 DEF Adds
<1>13. Lists(u, v, id, address, W)
  BY <1>1, <1>8, <1>9, <1>11 DEF Lists
<1>14. ASSUME Sound(u, id, address)
       PROVE  /\ Sound(v, id, address)
              /\ \A r \in v.indexes \ u.indexes : r.minor \in W[r.major]
  <2>1. /\ Backs(u.indexes, u.ranges, id, address)
        /\ Grown(OfId(u.indexes, id), u.count)
        /\ u.count <= MaxSubaddresses
    BY <1>14 DEF Sound
  <2>2. Backs(I, R, id, address)
    BY <1>1, <1>8, <1>9, <2>1 DEF Backs
  <2> DEFINE D == Minors(row) \ Minors(u.ranges[major])
             N == {Key(id, address, major, x) : x \in D}
  <2>3. \A x \in Minors(u.ranges[major]) : Key(id, address, major, x) \in u.indexes
    BY <2>1 DEF Backs
  <2>4. I = u.indexes \cup N
    BY <1>1, <1>9, <2>3
  <2>5. Grown(N, count - u.count)
    <3> HIDE DEF D
    <3>1. Grown(D, count - u.count)
      BY DEF D
    <3> QED
      BY <3>1, GrownRows, SMTT(30)
  <2>6. OfId(I, id) = OfId(u.indexes, id) \cup N
    BY <2>4 DEF OfId, Key
  <2>7. Grown(OfId(I, id), u.count + (count - u.count))
    <3> HIDE DEF N
    <3> QED
      BY <2>1, <2>5, <2>6, GrownUnion
  <2>8. u.count + (count - u.count) = count
    BY <1>6
  <2>9. Sound(v, id, address)
    BY <1>11, <2>1, <2>2, <2>7, <2>8 DEF Sound
  <2>10. \A r \in I \ u.indexes : r.minor \in W[r.major]
    <3> TAKE r \in I \ u.indexes
    <3>1. PICK x \in D : r = Key(id, address, major, x)
      BY <2>4
    <3>2. r.major = major /\ r.minor = x /\ x \in A
      BY <3>1 DEF Key
    <3> QED
      BY <3>2
  <2> QED
    BY <1>11, <2>9, <2>10
<1>15. Keeps(u, v, id, address, W)
  BY <1>14 DEF Keeps
<1> QED
  BY <1>11, <1>12, <1>13, <1>15 DEF Upserts

\* The row of one major index is dropped when the limit is reached.
LEMMA RowDropped ==
    ASSUME NEW u \in Tables, NEW id, NEW address, NEW major \in Index, NEW W, NEW v,
           v = [u EXCEPT !.ok = FALSE, !.ranges[major] = <<>>]
    PROVE  Upserts(u, v, id, address, W)
<1>1. u.ranges \in [Index -> Seq(Span)] /\ u.indexes \subseteq Row
      /\ IsFiniteSet(u.indexes) /\ u.count \in Nat
  BY TablesFields
<1>2. PICK R : R = [u.ranges EXCEPT ![major] = <<>>]
  OBVIOUS
<1>3. /\ R \in [Index -> Seq(Span)] /\ R[major] = <<>>
      /\ \A m \in Index : m # major => R[m] = u.ranges[m]
  BY <1>1, <1>2
<1>4. v = [u EXCEPT !.ok = FALSE, !.ranges = R]
  BY <1>2 DEF Tables
<1>5. v \in Tables /\ v.ok = FALSE /\ v.count = u.count /\ v.ranges = R
      /\ v.indexes = u.indexes
  BY <1>3, <1>4 DEF Tables
<1>6. Sound(u, id, address) => Sound(v, id, address)
  BY <1>3, <1>5, MinorsOne DEF Sound, Backs
<1>7. Lists(u, v, id, address, W)
  BY <1>5 DEF Lists
<1>8. Adds(u, v, id, address, W)
  BY <1>3, <1>5, MinorsOne DEF Adds
<1> QED
  BY <1>5, <1>6, <1>7, <1>8 DEF Upserts, Keeps

\* What an entry asks for.
AskedBy(entry) == [m \in Index |-> IF m = entry.major THEN Minors(entry.ranges) ELSE {}]

\* The minor indexes of a row are finitely many.
LEMMA MinorsFinite ==
    ASSUME NEW row \in Seq(Span)
    PROVE  IsFiniteSet(Minors(row))
<1>1. IsFiniteSet(Index)
  <2>1. 0 \in Int /\ UInt32Max \in Int
    BY Bounds
  <2> QED
    BY <2>1, FS_Interval DEF Index
<1> QED
  BY <1>1, MinorsType, FS_Subset

\* One major index is upserted.
LEMMA UpsertMajorIs ==
    ASSUME NEW u \in Tables, NEW id \in AccountId, NEW address \in Address,
           NEW entry \in Entry
    PROVE  Upserts(u, UpsertMajor(u, id, address, entry), id, address, AskedBy(entry))
<1> DEFINE m == MergeRanges(u.ranges[entry.major], u.count, entry.ranges)
           v == UpsertMajor(u, id, address, entry)
<1>1. entry.major \in Index /\ entry.ranges \in Seq(Index \X Index)
  BY DEF Entry
<1>2. u.ok \in BOOLEAN /\ u.count \in Nat /\ u.ranges[entry.major] \in Seq(Span)
  BY <1>1, TablesFields
<1>3. CASE ~u.ok
  <2>1. v = u /\ u.ok = FALSE
    BY <1>2, <1>3 DEF UpsertMajor
  <2>2. v = [u EXCEPT !.ok = FALSE]
    BY <2>1 DEF Tables
  <2> QED
    BY <2>2, UpsertsFail
<1>4. CASE u.ok /\ ~CheckSubaddressDict(entry.ranges)
  <2>1. v = [u EXCEPT !.ok = FALSE]
    BY <1>4 DEF UpsertMajor
  <2> QED
    BY <2>1, UpsertsFail
<1>5. CASE u.ok /\ CheckSubaddressDict(entry.ranges)
  <2>1. entry.ranges \in Seq(Span)
    BY <1>1, <1>5, CheckedRanges
  <2> DEFINE z == [ok |-> TRUE, count |-> u.count, merged |-> <<>>,
                   old |-> u.ranges[entry.major]]
  <2>2. Merges(z, m, Minors(entry.ranges))
    BY <1>2, <2>1, MergeRangesIs
  <2>3. z.count = u.count /\ RowOf(z) = u.ranges[entry.major]
    <3>1. z.count = u.count /\ z.merged = <<>> /\ z.old = u.ranges[entry.major]
      OBVIOUS
    <3> HIDE DEF z
    <3>2. <<>> \o z.old = z.old
      BY <1>2, <3>1
    <3> QED
      BY <3>1, <3>2 DEF RowOf
  <2> HIDE DEF z, m
  <2>4. /\ m \in MergeState
        /\ u.count <= MaxSubaddresses => m.count <= MaxSubaddresses
        /\ m.ok => /\ Minors(RowOf(m)) =
                         Minors(u.ranges[entry.major]) \cup Minors(entry.ranges)
                   /\ Grown(Minors(RowOf(m)) \ Minors(u.ranges[entry.major]),
                            m.count - u.count)
    BY <2>2, <2>3 DEF Merges
  <2>5. v = IF ~m.ok THEN [u EXCEPT !.ok = FALSE, !.ranges[entry.major] = <<>>]
            ELSE [ok |-> TRUE, count |-> m.count,
                  ranges |-> [u.ranges EXCEPT ![entry.major] = RowOf(m)],
                  indexes |-> u.indexes \cup
                              IndexRows(id, address, entry.major, RowOf(m))]
    BY <1>5 DEF UpsertMajor, m
  <2> HIDE DEF v
  <2>6. CASE ~m.ok
    <3>1. v = [u EXCEPT !.ok = FALSE, !.ranges[entry.major] = <<>>]
      BY <2>5, <2>6
    <3>2. Upserts(u, v, id, address, AskedBy(entry))
      BY <1>1, <3>1, RowDropped
    <3> QED
      BY <3>2 DEF v
  <2>7. CASE m.ok
    <3>1. PICK row : row = RowOf(m)
      OBVIOUS
    <3>2. row \in Seq(Span) /\ m.count \in Nat
      <4>1. m.merged \in Seq(Span) /\ m.old \in Seq(Span) /\ m.count \in Nat
        BY <2>4 DEF MergeState
      <4> QED
        BY <3>1, <4>1 DEF RowOf
    <3>3. v = [ok |-> TRUE, count |-> m.count,
               ranges |-> [u.ranges EXCEPT ![entry.major] = row],
               indexes |-> u.indexes \cup IndexRows(id, address, entry.major, row)]
      BY <2>5, <2>7, <3>1
    <3>4. \A k \in Index : AskedBy(entry)[k] = IF k = entry.major THEN Minors(entry.ranges) ELSE {}
      BY DEF AskedBy
    <3>5. /\ Minors(row) = Minors(u.ranges[entry.major]) \cup Minors(entry.ranges)
          /\ Grown(Minors(row) \ Minors(u.ranges[entry.major]), m.count - u.count)
          /\ u.count <= MaxSubaddresses => m.count <= MaxSubaddresses
      BY <2>4, <2>7, <3>1
    <3>6. IsFiniteSet(Minors(row))
      BY <3>2, MinorsFinite
    <3>7. u.ok /\ entry.major \in Index
      BY <1>1, <1>5
    <3>8. PICK W, A, count, major :
            W = AskedBy(entry) /\ A = Minors(entry.ranges) /\ count = m.count /\ major = entry.major
      OBVIOUS
    <3>9. /\ \A k \in Index : W[k] = IF k = major THEN A ELSE {}
          /\ Minors(row) = Minors(u.ranges[major]) \cup A
          /\ Grown(Minors(row) \ Minors(u.ranges[major]), count - u.count)
          /\ u.count <= MaxSubaddresses => count <= MaxSubaddresses
          /\ row \in Seq(Span) /\ count \in Nat /\ u.ok /\ major \in Index
      BY <3>2, <3>4, <3>5, <3>7, <3>8
    <3>10. v = [ok |-> TRUE, count |-> count,
                ranges |-> [u.ranges EXCEPT ![major] = row],
                indexes |-> u.indexes \cup IndexRows(id, address, major, row)]
      BY <3>3, <3>8
    <3>11. Upserts(u, v, id, address, W)
      BY <3>6, <3>9, <3>10, RowReplaced
    <3> QED
      BY <3>8, <3>11 DEF v
  <2> QED
    BY <2>6, <2>7
<1> QED
  BY <1>2, <1>3, <1>4, <1>5

\* What the first n entries of a dictionary ask for.
WantedTo(dict, n) ==
    [m \in Index |-> UNION {Minors(dict[j].ranges) : j \in {l \in 1..n : dict[l].major = m}}]

\* The tables when do_upsert begins.
Begin(id) ==
    LET count == Cardinality({r \in indexes : r.id = id}) IN
    Made(count <= MaxSubaddresses, count, ranges[id], indexes)

\* A whole dictionary is upserted, whatever is stored.
LEMMA DoUpsertIs ==
    ASSUME NEW id \in AccountId, NEW address \in Address, NEW dict \in Seq(Entry),
           Begin(id) \in Tables
    PROVE  Upserts(Begin(id), DoUpsert(id, address, dict), id, address,
                   WantedTo(dict, Len(dict)))
<1> DEFINE n == Len(dict)
           step == [i \in 1..n |-> [x \in Tables |-> UpsertMajor(x, id, address, dict[i])]]
           Is(f) == f = [i \in 0..n |-> IF i = 0 THEN Begin(id)
                                  ELSE UpsertMajor(f[i - 1], id, address, dict[i])]
           after == CHOOSE f : Is(f)
<1>1. n \in Nat /\ DOMAIN dict = 1..n /\ \A i \in 1..n : dict[i] \in Entry
  OBVIOUS
<1>2. \A x \in Tables, i \in 1..n :
         Upserts(x, UpsertMajor(x, id, address, dict[i]), id, address, AskedBy(dict[i]))
  BY <1>1, UpsertMajorIs
<1>3. step \in [1..n -> [Tables -> Tables]]
  <2>1. \A x \in Tables, i \in 1..n : UpsertMajor(x, id, address, dict[i]) \in Tables
    BY <1>2 DEF Upserts
  <2> HIDE DEF n
  <2> QED
    BY <2>1
<1>4. PICK u \in [0..n -> Tables] : Runs(u, n, Begin(id), step)
  <2> HIDE DEF step, n
  <2> QED
    BY <1>1, <1>3, StepsRun
<1>5. Is(u)
  <2>1. \A i \in 0..n : u[i] = IF i = 0 THEN Begin(id) ELSE step[i][u[i - 1]]
    BY <1>4 DEF Runs
  <2>2. \A i \in 0..n : u[i] = IF i = 0 THEN Begin(id)
                               ELSE UpsertMajor(u[i - 1], id, address, dict[i])
    <3> TAKE i \in 0..n
    <3>1. i # 0 => i \in 1..n /\ i - 1 \in 0..n /\ u[i - 1] \in Tables
      BY <1>1
    <3> QED
      BY <2>1, <3>1
  <2> HIDE DEF step, n
  <2> QED
    BY <1>1, <2>2
<1>6. Is(after)
  <2> HIDE DEF Is
  <2> QED
    BY <1>5
<1>7. DoUpsert(id, address, dict) = after[n]
  BY DEF DoUpsert, Begin, Made
<1> DEFINE T == {i \in 0..n : Upserts(Begin(id), after[i], id, address, WantedTo(dict, i))}
<1> HIDE DEF after
<1>8. after[0] = Begin(id)
      /\ \A i \in 1..n : after[i] = UpsertMajor(after[i - 1], id, address, dict[i])
  <2>1. \A i \in 0..n : after[i] = IF i = 0 THEN Begin(id)
                              ELSE UpsertMajor(after[i - 1], id, address, dict[i])
    BY <1>6
  <2> QED
    BY <1>1, <2>1
<1>9. 0 \in T
  <2>1. \A m \in Index : WantedTo(dict, 0)[m] = {}
    BY DEF WantedTo
  <2>2. Upserts(Begin(id), after[0], id, address, WantedTo(dict, 0))
    BY <1>8, <2>1, UpsertsNone
  <2> QED
    BY <1>1, <2>2
<1>10. ASSUME NEW i \in 1..n, i - 1 \in T
       PROVE  i \in T
  <2>1. Upserts(Begin(id), after[i - 1], id, address, WantedTo(dict, i - 1))
    BY <1>10
  <2>2. after[i - 1] \in Tables
    BY <2>1 DEF Upserts
  <2>3. Upserts(after[i - 1], after[i], id, address, AskedBy(dict[i]))
    BY <1>2, <1>8, <2>2
  <2>4. \A m \in Index : WantedTo(dict, i)[m] = WantedTo(dict, i - 1)[m] \cup AskedBy(dict[i])[m]
    <3> TAKE m \in Index
    <3>1. \A j : j \in 1..i <=> j \in 1..(i - 1) \/ j = i
      BY <1>1
    <3>2. WantedTo(dict, i)[m] =
             UNION {Minors(dict[j].ranges) : j \in {l \in 1..i : dict[l].major = m}}
      BY DEF WantedTo
    <3>3. WantedTo(dict, i - 1)[m] =
             UNION {Minors(dict[j].ranges) : j \in {l \in 1..(i - 1) : dict[l].major = m}}
      BY DEF WantedTo
    <3>4. AskedBy(dict[i])[m] = IF m = dict[i].major THEN Minors(dict[i].ranges) ELSE {}
      BY DEF AskedBy
    <3> QED
      BY <3>1, <3>2, <3>3, <3>4
  <2>5. Upserts(Begin(id), after[i], id, address, WantedTo(dict, i))
    BY <2>1, <2>2, <2>3, <2>4, UpsertsBoth
  <2> QED
    BY <2>5
<1>11. n \in T
  <2> HIDE DEF T, n
  <2> QED
    BY <1>1, <1>9, <1>10, Reaches
<1> QED
  BY <1>7, <1>11

-----------------------------------------------------------------------------
(* Types *)

Request == [type : {"create", "import_scan"}, address : Address,
            height : Height, lookahead : Lookahead]
Batch == [id : AccountId, base : Height, last : Height, height : Height \cup {MaxHeight + 1},
          next : Nat, found : SUBSET Found]

\* Where a batch is.
Placed(b) ==
    /\ b.base < b.height /\ b.next >= 1
    /\ b.height <= b.last + 1
    /\ b.height <= b.last /\ Paid[b.height] # <<>> => b.next <= Len(Paid[b.height])
    /\ \A f \in b.found : f.id = b.id /\ b.base < f.height

\* Ids are given out in order and identify an account.
Unique(A) == \A a, b \in A : a.id = b.id => a = b
Ids(A) == {a.id : a \in A}
Numbered(A) == Unique(A) /\ \E k \in Nat : Ids(A) = 1..k

TypeInv ==
    /\ accounts \subseteq Account /\ Numbered(accounts)
    /\ requests \subseteq Request
    /\ ranges \in [AccountId -> [Index -> Seq(Span)]]
    /\ indexes \in FiniteRows
    /\ outputs \subseteq Found /\ raced \subseteq Found
    /\ batches \subseteq Batch
    /\ \A b \in batches : Placed(b)

\* The smaller, the larger and the clamped of two numbers.
LEMMA Heights ==
    /\ \A a, b \in Height : Smaller(a, b) \in Height /\ Larger(a, b) \in Height
                            /\ Smaller(a, b) <= a /\ Smaller(a, b) <= b
                            /\ Larger(a, b) >= a /\ Larger(a, b) >= b
    /\ 1 \in Height /\ 0 \in Height /\ Height \subseteq Nat
  BY Bounds DEF Smaller, Larger, Height

\* The clamped sum of two indexes.
LEMMA Clamped ==
    ASSUME NEW a \in Nat, NEW b \in Nat
    PROVE  /\ AddAndClamp(a, b) \in Index /\ AddAndClamp(a, b) \in Nat
           /\ AddAndClamp(a, b) <= a + b
           /\ AddAndClamp(a, b) = AddAndClamp(b, a)
           /\ a \in Index => a <= AddAndClamp(a, b)
           /\ b \in Index => b <= AddAndClamp(a, b)
  BY Bounds DEF AddAndClamp, Smaller, Index

\* Accounts whose ids are 1 to k are k.
LEMMA CountIds ==
    ASSUME NEW A, Unique(A), NEW k \in Nat, Ids(A) = 1..k
    PROVE  Cardinality(A) = k
<1> DEFINE f == [i \in 1..k |-> CHOOSE a \in A : a.id = i]
<1>1. \A i \in 1..k : f[i] \in A /\ f[i].id = i
  <2> TAKE i \in 1..k
  <2>1. \E a \in A : a.id = i
    BY DEF Ids
  <2> QED
    BY <2>1
<1>2. \A a \in A : a.id \in 1..k
  BY DEF Ids
<1> HIDE DEF f
<1>3. \A a \in A : f[a.id] = a
  BY <1>1, <1>2 DEF Unique
<1>4. f \in [1..k -> A]
  <2>1. f = [i \in 1..k |-> f[i]]
    BY DEF f
  <2> QED
    BY <1>1, <2>1
<1>5. f \in Bijection(1..k, A)
  <2>1. \A i, j \in 1..k : f[i] = f[j] => i = j
    BY <1>1
  <2>2. \A a \in A : \E i \in 1..k : f[i] = a
    BY <1>2, <1>3
  <2> QED
    BY <1>4, <2>1, <2>2 DEF Bijection, Injection, Surjection, IsInjective
<1>6. IsFiniteSet(1..k) /\ Cardinality(1..k) = k
  BY FS_Interval
<1> QED
  BY <1>5, <1>6, FS_Bijection DEF ExistsBijection

\* The next id is not in use.
LEMMA NextIdIsNew ==
    ASSUME Numbered(accounts)
    PROVE  /\ NextId \in Nat \ {0}
           /\ \A a \in accounts : a.id # NextId
           /\ \E k \in Nat : NextId = k + 1 /\ Ids(accounts) = 1..k
<1>1. PICK k \in Nat : Ids(accounts) = 1..k
  BY DEF Numbered
<1>2. NextId = k + 1
  BY <1>1, CountIds DEF Numbered, NextId
<1>3. \A a \in accounts : a.id \in 1..k
  BY <1>1 DEF Ids
<1> QED
  BY <1>1, <1>2, <1>3

-----------------------------------------------------------------------------
(* What is written for an account *)

\* Enough of the rows of an id.
Limited(rows, id) == Cardinality(OfId(rows, id)) <= MaxSubaddresses

\* What is expected of tables u that are written for id and address.
Wrote(u, id, address) ==
    /\ u.ok \in BOOLEAN
    /\ u.ranges \in [Index -> Seq(Span)] /\ u.indexes \in FiniteRows
    /\ indexes \subseteq u.indexes
    /\ \A r \in u.indexes \ indexes : r.id = id /\ r.address = address
    /\ \A m \in Index : \/ u.ranges[m] = ranges[id][m]
                       \/ \A x \in Minors(u.ranges[m]) : Key(id, address, m, x) \in u.indexes
    /\ Backs(indexes, ranges[id], id, address) /\ Limited(indexes, id) =>
          Backs(u.indexes, u.ranges, id, address) /\ Limited(u.indexes, id)

\* The rows of an id are finitely many.
LEMMA OfIdFinite ==
    ASSUME NEW I \in FiniteRows, NEW id
    PROVE  IsFiniteSet(OfId(I, id)) /\ Cardinality(OfId(I, id)) \in Nat
<1>1. IsFiniteSet(I) /\ OfId(I, id) \subseteq I
  BY DEF FiniteRows, OfId
<1>2. IsFiniteSet(OfId(I, id))
  BY <1>1, FS_Subset
<1> QED
  BY <1>2, FS_CardinalityType

\* The tables when do_upsert begins.
LEMMA BeginIs ==
    ASSUME TypeInv, NEW id \in AccountId
    PROVE  /\ Begin(id) \in Tables
           /\ Begin(id).count = Cardinality(OfId(indexes, id))
           /\ Begin(id).ranges = ranges[id] /\ Begin(id).indexes = indexes
           /\ Begin(id).ok <=> Limited(indexes, id)
<1>1. ranges[id] \in [Index -> Seq(Span)] /\ indexes \in FiniteRows
  BY DEF TypeInv
<1>2. PICK c \in Nat : c = Cardinality(OfId(indexes, id))
  BY <1>1, OfIdFinite
<1>3. PICK b \in BOOLEAN : b = (c <= MaxSubaddresses)
  <2>1. CASE c <= MaxSubaddresses
    <3>1. (c <= MaxSubaddresses) = TRUE
      BY <2>1
    <3> QED
      BY <3>1, Zenon
  <2>2. CASE ~(c <= MaxSubaddresses)
    <3>1. (c <= MaxSubaddresses) = FALSE
      BY <2>2
    <3> QED
      BY <3>1, Zenon
  <2> QED
    BY <2>1, <2>2
<1>4. Begin(id) = Made(b, c, ranges[id], indexes)
  BY <1>2, <1>3 DEF Begin, OfId
<1>5. /\ Begin(id) \in Tables
      /\ Begin(id).ok = b /\ Begin(id).count = c
      /\ Begin(id).ranges = ranges[id] /\ Begin(id).indexes = indexes
  <2>1. PICK R \in [Index -> Seq(Span)] : R = ranges[id]
    BY <1>1
  <2>2. /\ Made(b, c, R, indexes) \in Tables
        /\ Made(b, c, R, indexes).ok = b /\ Made(b, c, R, indexes).count = c
        /\ Made(b, c, R, indexes).ranges = R /\ Made(b, c, R, indexes).indexes = indexes
    BY <1>1, TablesMade
  <2> QED
    BY <1>4, <2>1, <2>2
<1> QED
  BY <1>2, <1>3, <1>5 DEF Limited

\* What do_upsert writes.
LEMMA UpsertWrites ==
    ASSUME TypeInv, NEW id \in AccountId, NEW address \in Address,
           NEW dict \in Seq(Entry), NEW u, u = DoUpsert(id, address, dict)
    PROVE  /\ Wrote(u, id, address)
           /\ Lists(Begin(id), u, id, address, WantedTo(dict, Len(dict)))
           /\ Keeps(Begin(id), u, id, address, WantedTo(dict, Len(dict)))
<1> DEFINE W == WantedTo(dict, Len(dict))
<1>1. Upserts(Begin(id), u, id, address, W)
  BY BeginIs, DoUpsertIs
<1> HIDE DEF W
<1>2. u \in Tables /\ Adds(Begin(id), u, id, address, W)
      /\ Lists(Begin(id), u, id, address, W) /\ Keeps(Begin(id), u, id, address, W)
  BY <1>1 DEF Upserts
<1>3. u.ok \in BOOLEAN /\ u.ranges \in [Index -> Seq(Span)] /\ u.indexes \in FiniteRows
  BY <1>2 DEF Tables
<1>4. Begin(id).ranges = ranges[id] /\ Begin(id).indexes = indexes
      /\ Begin(id).count = Cardinality(OfId(indexes, id))
  BY BeginIs
<1>5. /\ indexes \subseteq u.indexes
      /\ \A r \in u.indexes \ indexes : r.id = id /\ r.address = address
      /\ \A m \in Index : \/ u.ranges[m] = ranges[id][m]
                         \/ \A x \in Minors(u.ranges[m]) : Key(id, address, m, x) \in u.indexes
  BY <1>2, <1>4 DEF Adds
<1>6. ASSUME Backs(indexes, ranges[id], id, address), Limited(indexes, id)
      PROVE  Backs(u.indexes, u.ranges, id, address) /\ Limited(u.indexes, id)
  <2>1. Sound(Begin(id), id, address)
    <3>1. indexes \in FiniteRows
      BY DEF TypeInv
    <3>2. IsFiniteSet(OfId(indexes, id)) /\ Cardinality(OfId(indexes, id)) \in Nat
      BY <3>1, OfIdFinite
    <3>3. Grown(OfId(indexes, id), Cardinality(OfId(indexes, id)))
      BY <3>2 DEF Grown
    <3> QED
      BY <1>4, <1>6, <3>3 DEF Sound, Limited
  <2>2. Sound(u, id, address)
    BY <1>2, <2>1 DEF Keeps
  <2>3. Cardinality(OfId(u.indexes, id)) \in Nat /\ u.count \in Nat
    BY <1>2, <1>3, OfIdFinite, TablesFields
  <2>4. Cardinality(OfId(u.indexes, id)) <= u.count /\ u.count <= MaxSubaddresses
    BY <2>2 DEF Sound, Grown
  <2> QED
    BY <2>2, <2>3, <2>4, Bounds DEF Sound, Limited
<1>7. Wrote(u, id, address)
  BY <1>3, <1>5, <1>6 DEF Wrote
<1> QED
  BY <1>2, <1>7 DEF W

\* An untouched table.
LEMMA UntouchedWrites ==
    ASSUME TypeInv, NEW id \in AccountId, NEW address, NEW u,
           u = Untouched(id) \/ u = [Untouched(id) EXCEPT !.ok = TRUE]
    PROVE  Wrote(u, id, address)
<1>1. u.ok \in BOOLEAN /\ u.ranges = ranges[id] /\ u.indexes = indexes
  <2>1. CASE u = Untouched(id)
    <3>1. u.ok = FALSE /\ u.ranges = ranges[id] /\ u.indexes = indexes
      BY <2>1 DEF Untouched
    <3> QED
      BY <3>1
  <2>2. CASE u = [Untouched(id) EXCEPT !.ok = TRUE]
    <3>1. u.ok = TRUE /\ u.ranges = ranges[id] /\ u.indexes = indexes
      BY <2>2 DEF Untouched
    <3> QED
      BY <3>1
  <2> QED
    BY <2>1, <2>2
<1>2. ranges[id] \in [Index -> Seq(Span)] /\ indexes \in FiniteRows
  BY DEF TypeInv
<1> QED
  BY <1>1, <1>2 DEF Wrote

\* The dictionary with the range 0..f[i] for each major index i below n.
DictOf(n, f) == [i \in 1..n |-> [major |-> i - 1, ranges |-> <<<<0, f[i - 1]>>>>]]

\* What such a dictionary asks for.
LEMMA DictOfIs ==
    ASSUME NEW n \in Index, NEW f \in [Index -> Index]
    PROVE  /\ DictOf(n, f) \in Seq(Entry) /\ Len(DictOf(n, f)) = n
           /\ \A m \in Index : m < n => WantedTo(DictOf(n, f), n)[m] = 0..f[m]
<1>1. n \in Nat /\ \A i \in 1..n : i - 1 \in Index
  BY Bounds DEF Index
<1> DEFINE e(i) == [major |-> i - 1, ranges |-> <<<<0, f[i - 1]>>>>]
<1>2. \A i \in 1..n : e(i) \in Entry
  <2> TAKE i \in 1..n
  <2>1. i - 1 \in Index /\ f[i - 1] \in Index /\ 0 \in Index
    BY <1>1, IndexNat
  <2>2. PICK x : x = <<0, f[i - 1]>>
    OBVIOUS
  <2>3. x \in Index \X Index
    BY <2>1, <2>2
  <2>4. <<x>> \in Seq(Index \X Index)
    BY <2>3
  <2> QED
    BY <2>1, <2>2, <2>4 DEF Entry
<1>3. DictOf(n, f) = [i \in 1..n |-> e(i)]
  BY DEF DictOf
<1>4. DictOf(n, f) \in Seq(Entry) /\ Len(DictOf(n, f)) = n
      /\ \A i \in 1..n : DictOf(n, f)[i] = e(i)
  <2> HIDE DEF e
  <2> QED
    BY <1>1, <1>2, <1>3
<1>5. ASSUME NEW m \in Index, m < n
      PROVE  WantedTo(DictOf(n, f), n)[m] = 0..f[m]
  <2>1. m \in Nat /\ m + 1 \in 1..n /\ (m + 1) - 1 = m
    BY <1>1, <1>5, IndexNat
  <2>2. \A l \in 1..n : DictOf(n, f)[l].major = l - 1
    BY <1>4
  <2>3. {l \in 1..n : DictOf(n, f)[l].major = m} = {m + 1}
    BY <1>1, <2>1, <2>2
  <2>4. DictOf(n, f)[m + 1].ranges = <<<<0, f[m]>>>>
    BY <1>4, <2>1
  <2>5. WantedTo(DictOf(n, f), n)[m] =
           UNION {Minors(DictOf(n, f)[j].ranges) :
                     j \in {l \in 1..n : DictOf(n, f)[l].major = m}}
    BY DEF WantedTo
  <2>6. PICK x : x = <<0, f[m]>>
    OBVIOUS
  <2>7. Minors(<<x>>) = 0..f[m]
    <3>1. x[1] = 0 /\ x[2] = f[m]
      BY <2>6
    <3> QED
      BY <3>1, MinorsOne
  <2> QED
    BY <2>3, <2>4, <2>5, <2>6, <2>7
<1> QED
  BY <1>4, <1>5

\* The dictionary of provision_subaddrs.
LEMMA ProvisionDictIs ==
    ASSUME NEW p \in Provisions, p.n_minor > 0
    PROVE  ProvisionDict(p) \in Seq(Entry)
<1>1. /\ p.major \in Index /\ p.minor \in Index /\ p.n_major \in Index /\ p.n_minor \in Index
      /\ UInt32Max \in Nat
  BY BoundsAssumption
<1> DEFINE w == Larger(0, p.major + p.n_major - 1 - UInt32Max)
           major(i) == IF i <= w THEN i - 1 ELSE p.major + (i - w) - 1
           e(i) == [major |-> major(i),
                    ranges |-> <<<<p.minor, Wrap(p.minor + p.n_minor - 1)>>>>]
<1>2. \A i \in 1..p.n_major : major(i) \in Index
  BY <1>1 DEF Larger, Index
<1>3. Wrap(p.minor + p.n_minor - 1) \in Index
  <2>1. PICK x \in Nat : x = p.minor + p.n_minor - 1
    BY <1>1 DEF Index
  <2>2. x % (UInt32Max + 1) \in 0..UInt32Max
    BY <1>1
  <2> QED
    BY <2>1, <2>2 DEF Wrap, Index
<1>4. PICK r : r = <<<<p.minor, Wrap(p.minor + p.n_minor - 1)>>>>
  OBVIOUS
<1>5. r \in Seq(Index \X Index)
  <2>1. PICK x : x = <<p.minor, Wrap(p.minor + p.n_minor - 1)>>
    OBVIOUS
  <2>2. x \in Index \X Index
    BY <1>1, <1>3, <2>1
  <2>3. <<x>> \in Seq(Index \X Index)
    BY <2>2
  <2> QED
    BY <1>4, <2>1, <2>3
<1>6. \A i \in 1..p.n_major : e(i) \in Entry
  <2> HIDE DEF major
  <2> QED
    BY <1>2, <1>4, <1>5 DEF Entry
<1>7. ProvisionDict(p) = [i \in 1..p.n_major |-> e(i)]
  BY DEF ProvisionDict
<1> HIDE DEF e
<1>8. p.n_major \in Nat
  BY <1>1, IndexNat
<1> QED
  BY <1>6, <1>7, <1>8

-----------------------------------------------------------------------------
(* Lookahead *)

\* A set of indexes that is not empty has a largest element.
LEMMA LargestIndex ==
    ASSUME NEW S, S \subseteq Index, S # {}
    PROVE  \E x \in S : \A y \in S : x >= y
<1> DEFINE T == {k \in Index : \A y \in S : k >= y}
<1>1. UInt32Max \in T
  BY Bounds DEF Index
<1>2. PICK k \in T : \A j \in T : k <= j
  <2>1. T \subseteq Nat /\ T # {}
    BY <1>1, IndexNat
  <2> HIDE DEF T
  <2> QED
    BY <2>1, LeastIndex
<1>3. k \in Nat /\ k \in Index /\ \A y \in S : y \in Nat /\ k >= y
  BY <1>2, IndexNat
<1>4. k \in S
  <2> SUFFICES ASSUME k \notin S PROVE FALSE
    OBVIOUS
  <2>1. \A y \in S : k > y
    BY <1>3
  <2>2. k > 0
    <3>1. PICK y \in S : TRUE
      OBVIOUS
    <3>2. y \in Nat /\ k > y
      BY <1>3, <2>1, <3>1
    <3> QED
      BY <1>3, <3>2
  <2>3. k - 1 \in Index /\ \A y \in S : k - 1 >= y
    BY <1>3, <2>1, <2>2, Bounds DEF Index
  <2>4. k - 1 \in T /\ ~(k <= k - 1)
    BY <1>3, <2>3
  <2> QED
    BY <1>2, <2>4
<1> QED
  BY <1>3, <1>4

\* Every index within the lookahead of an output has a row.
Covered(rows, id, address, look, o) ==
    \A m, x \in Index :
        /\ m < AddAndClamp(o.major, look.major)
        /\ x <= IF m = o.major THEN AddAndClamp(o.minor, look.minor - 1)
                               ELSE look.minor - 1
        => Key(id, address, m, x) \in rows
Looks(look) == look.major > 0 /\ look.minor > 0
IsSub(o) == o.major # 0 \/ o.minor # 0

\* What is covered stays covered.
LEMMA CoveredMore ==
    ASSUME NEW I, NEW J, I \subseteq J, NEW id, NEW address, NEW look, NEW o,
           Covered(I, id, address, look, o)
    PROVE  Covered(J, id, address, look, o)
  BY DEF Covered

\* A row up to f[m] for each m below n covers an output within them.
LEMMA DictCovers ==
    ASSUME TypeInv, NEW id \in AccountId, NEW address \in Address,
           NEW n \in Index, NEW f \in [Index -> Index], NEW look \in Lookahead,
           NEW o, AddAndClamp(o.major, look.major) <= n,
           \A m \in Index :
              (IF m = o.major THEN AddAndClamp(o.minor, look.minor - 1)
                              ELSE look.minor - 1) <= f[m],
           o.major \in Index, o.minor \in Index, Looks(look),
           NEW u, u = DoUpsert(id, address, DictOf(n, f)), u.ok
    PROVE  Covered(u.indexes, id, address, look, o)
<1> DEFINE dict == DictOf(n, f)
           W == WantedTo(dict, n)
<1>1. dict \in Seq(Entry) /\ Len(dict) = n /\ \A m \in Index : m < n => W[m] = 0..f[m]
  BY DictOfIs
<1>2. Lists(Begin(id), u, id, address, W)
  <2> HIDE DEF dict
  <2> QED
    BY <1>1, UpsertWrites DEF dict
<1> HIDE DEF dict, W
<1>3. \A m \in Index : \A x \in W[m] : Key(id, address, m, x) \in u.indexes
  BY <1>2 DEF Lists
<1> DEFINE c == AddAndClamp(o.major, look.major)
           e == AddAndClamp(o.minor, look.minor - 1)
<1>4. c \in Nat /\ e \in Nat /\ look.minor - 1 \in Nat
  <2>1. look.minor \in Nat /\ look.major \in Nat /\ look.minor > 0
        /\ o.major \in Nat /\ o.minor \in Nat
    BY IndexNat DEF Lookahead, Looks
  <2>2. look.minor - 1 \in Nat
    BY <2>1
  <2> QED
    BY <2>1, <2>2, Clamped
<1> HIDE DEF c, e
<1>5. ASSUME NEW m \in Index, NEW x \in Index, m < c,
             x <= IF m = o.major THEN e ELSE look.minor - 1
      PROVE  Key(id, address, m, x) \in u.indexes
  <2>1. m \in Nat /\ x \in Nat /\ n \in Nat /\ f[m] \in Nat
    BY IndexNat
  <2>2. m < n
    BY <1>4, <1>5, <2>1 DEF c
  <2>3. PICK y \in Nat : y = IF m = o.major THEN e ELSE look.minor - 1
    BY <1>4
  <2>4. y <= f[m] /\ x <= y
    BY <1>5, <2>3 DEF e
  <2>5. x \in 0..f[m]
    BY <2>1, <2>3, <2>4
  <2> QED
    BY <1>1, <1>3, <2>2, <2>5
<1> QED
  BY <1>5 DEF Covered, c, e

\* do_lookahead writes nothing, or what covers every output that is kept.
LEMMA DoLookaheadIs ==
    ASSUME TypeInv, NEW id \in AccountId, NEW address \in Address,
           NEW look \in Lookahead, NEW kept, kept \subseteq Found,
           NEW u, u = DoLookahead(id, address, look, kept)
    PROVE  /\ Wrote(u, id, address)
           /\ u.ok /\ Looks(look) =>
                 \A o \in kept : o.id = id /\ IsSub(o) =>
                     Covered(u.indexes, id, address, look, o)
<1> DEFINE subs == {o \in kept : o.id = id /\ (o.major # 0 \/ o.minor # 0)}
           needed(o) == AddAndClamp(o.major, look.major)
           N(k) == /\ k >= look.major /\ \A o \in subs : k >= needed(o)
                   /\ k = look.major \/ \E o \in subs : k = needed(o)
           n == CHOOSE k \in Index : N(k)
           lasts(i) == {AddAndClamp(look.minor - 1, o.minor) :
                           o \in {s \in subs : s.major = i}}
           last(i) == IF lasts(i) = {} THEN look.minor - 1
                      ELSE CHOOSE x \in lasts(i) : \A y \in lasts(i) : x >= y
           f == [i \in Index |-> last(i)]
           dict == [i \in 1..n |-> [major |-> i - 1, ranges |-> <<<<0, last(i - 1)>>>>]]
<1>1. \/ look.major = 0 \/ look.minor = 0
      \/ u = Untouched(id)
      \/ u = DoUpsert(id, address, dict)
  BY DEF DoLookahead, DictTo
<1>2. look.major = 0 \/ look.minor = 0 => u = [Untouched(id) EXCEPT !.ok = TRUE]
  BY DEF DoLookahead
<1>3. look.major \in Index /\ look.minor \in Index /\ look.major \in Nat /\ look.minor \in Nat
  BY IndexNat DEF Lookahead
<1>4. \A o \in kept : o.major \in Index /\ o.minor \in Index
                      /\ o.major \in Nat /\ o.minor \in Nat
  BY IndexNat DEF Found
<1>5. CASE look.major = 0 \/ look.minor = 0
  BY <1>2, <1>3, <1>5, UntouchedWrites DEF Looks
<1>6. CASE ~(look.major = 0 \/ look.minor = 0) /\ u = Untouched(id)
  <2>1. u.ok = FALSE
    BY <1>6 DEF Untouched
  <2> QED
    BY <1>6, <2>1, UntouchedWrites
<1>7. CASE ~(look.major = 0 \/ look.minor = 0) /\ u = DoUpsert(id, address, dict)
  <2>0. look.minor - 1 \in Nat /\ look.minor - 1 \in Index /\ Looks(look)
    BY <1>3, <1>7, Bounds DEF Index, Looks
  <2>1. \A o \in subs : needed(o) \in Index
    BY <1>3, <1>4, Clamped
  <2>2. n \in Index /\ N(n)
    <3> DEFINE S == {look.major} \cup {needed(o) : o \in subs}
    <3>1. S \subseteq Index /\ S # {}
      <4> HIDE DEF subs, needed
      <4> QED
        BY <1>3, <2>1
    <3>2. PICK x \in S : \A y \in S : x >= y
      <4> HIDE DEF S
      <4> QED
        BY <3>1, LargestIndex
    <3>3. x \in Index /\ N(x)
      <4> HIDE DEF subs, needed
      <4> QED
        BY <3>1, <3>2
    <3> HIDE DEF N
    <3> QED
      BY <3>3
  <2>3. ASSUME NEW i \in Index
        PROVE  /\ last(i) \in Index /\ look.minor - 1 <= last(i)
               /\ \A o \in subs : o.major = i => AddAndClamp(o.minor, look.minor - 1) <= last(i)
    <3>1. \A o \in subs : /\ AddAndClamp(look.minor - 1, o.minor) \in Index
                          /\ AddAndClamp(look.minor - 1, o.minor) =
                                AddAndClamp(o.minor, look.minor - 1)
                          /\ look.minor - 1 <= AddAndClamp(look.minor - 1, o.minor)
      BY <1>4, <2>0, Clamped
    <3>2. lasts(i) \subseteq Index /\ \A x \in lasts(i) : look.minor - 1 <= x
      <4> HIDE DEF subs
      <4> QED
        BY <3>1
    <3>3. \A o \in subs : o.major = i => AddAndClamp(o.minor, look.minor - 1) \in lasts(i)
      <4> HIDE DEF subs
      <4> QED
        BY <3>1
    <3>4. CASE lasts(i) = {}
      <4>1. last(i) = look.minor - 1
        BY <3>4
      <4> HIDE DEF last, lasts, subs
      <4> QED
        BY <2>0, <3>3, <3>4, <4>1
    <3>5. CASE lasts(i) # {}
      <4> DEFINE L == lasts(i)
      <4> HIDE DEF L
      <4>1. \E x \in L : \A y \in L : x >= y
        BY <3>2, <3>5, LargestIndex DEF L
      <4>2. last(i) = CHOOSE x \in L : \A y \in L : x >= y
        BY <3>5 DEF L
      <4> HIDE DEF last, lasts, subs
      <4>3. last(i) \in L /\ \A y \in L : last(i) >= y
        BY <4>1, <4>2
      <4>4. L \subseteq Nat
        BY <3>2, IndexNat DEF L
      <4>5. \A y \in L : y <= last(i)
        BY <4>3, <4>4
      <4> QED
        BY <3>2, <3>3, <4>3, <4>5 DEF L
    <3> QED
      BY <3>4, <3>5
  <2> HIDE DEF last, lasts, N, n
  <2>4. f \in [Index -> Index] /\ \A i \in Index : f[i] = last(i)
    BY <2>3
  <2>5. dict = DictOf(n, f)
    <3>1. \A i \in 1..n : i - 1 \in Index
      BY <2>2, Bounds DEF Index
    <3>2. \A i \in 1..n : last(i - 1) = f[i - 1]
      BY <2>4, <3>1
    <3> HIDE DEF f
    <3> QED
      BY <3>2 DEF DictOf
  <2> HIDE DEF f, dict
  <2>6. u = DoUpsert(id, address, DictOf(n, f))
    BY <1>7, <2>5
  <2>7. DictOf(n, f) \in Seq(Entry)
    BY <2>2, <2>4, DictOfIs
  <2>8. Wrote(u, id, address)
    BY <2>6, <2>7, UpsertWrites
  <2>9. ASSUME u.ok, NEW o \in kept, o.id = id, IsSub(o)
        PROVE  Covered(u.indexes, id, address, look, o)
    <3>1. o \in subs
      BY <2>9 DEF IsSub
    <3>2. o.major \in Index /\ o.minor \in Index
      BY <1>4
    <3>3. AddAndClamp(o.major, look.major) <= n
      <4>1. n >= needed(o)
        BY <2>2, <3>1 DEF N
      <4>2. n \in Nat /\ needed(o) \in Nat
        BY <2>1, <2>2, <3>1, IndexNat
      <4> HIDE DEF needed
      <4>3. needed(o) <= n
        BY <4>1, <4>2
      <4> QED
        BY <4>3 DEF needed
    <3>4. \A m \in Index : (IF m = o.major THEN AddAndClamp(o.minor, look.minor - 1)
                                           ELSE look.minor - 1) <= f[m]
      <4> HIDE DEF subs
      <4> QED
        BY <2>3, <2>4, <3>1
    <3> QED
      BY <2>0, <2>2, <2>4, <2>6, <2>9, <3>2, <3>3, <3>4, DictCovers
  <2> QED
    BY <2>8, <2>9
<1> QED
  BY <1>1, <1>5, <1>6, <1>7

\* update_lookahead: what surrounds the match is covered, or the failure is
\* noted at a height that is not above the match.
Noted(a, x, height) ==
    /\ x \in Height /\ 1 <= x /\ x <= height
    /\ a.fail # 0 => x <= a.fail
UpdateDone(a, height, match, u) ==
    /\ Looks(a.lookahead) /\ Wrote(u, a.id, a.address) /\ Write(a.id, u)
    /\ \/ /\ u.ok /\ accounts' = accounts
          /\ Covered(u.indexes, a.id, a.address, a.lookahead, match)
       \/ \E x : /\ Noted(a, x, height)
                 /\ accounts' = (accounts \ {a}) \cup {[a EXCEPT !.fail = x]}

\* The fields of an account.
LEMMA AccountFields ==
    ASSUME NEW a \in Account
    PROVE  /\ a.id \in AccountId /\ a.address \in Address
           /\ a.start \in Height /\ a.scan \in Height /\ a.fail \in Height
           /\ a.start \in Nat /\ a.scan \in Nat /\ a.fail \in Nat
           /\ a.lookahead \in Lookahead
  BY Heights DEF Account

\* What update_lookahead does.
LEMMA UpdateLookaheadIs ==
    ASSUME TypeInv, NEW a \in accounts, NEW height \in Height, height >= 1,
           NEW match \in Payment, UpdateLookahead(a, height, match)
    PROVE  \/ ~Looks(a.lookahead) /\ UNCHANGED <<accounts, ranges, indexes>>
           \/ \E u : UpdateDone(a, height, match, u)
<1> DEFINE look == a.lookahead
           n == AddAndClamp(match.major, look.major)
           f == [i \in Index |-> IF i = match.major THEN Fresh(match, look)
                                                    ELSE look.minor - 1]
           dict == [i \in 1..n |-> [major |-> i - 1,
                      ranges |-> <<<<0, IF i - 1 = match.major THEN Fresh(match, look)
                                                           ELSE look.minor - 1>>>>]]
           u == IF TooMany(look.major, look.minor) THEN Untouched(a.id)
                ELSE DoUpsert(a.id, a.address, dict)
           failed == Larger(1, IF a.fail = 0 THEN height ELSE Smaller(a.fail, height))
<1>0. a \in Account
  BY DEF TypeInv
<1>1. a.id \in AccountId /\ a.address \in Address /\ a.fail \in Height /\ look \in Lookahead
  BY <1>0, AccountFields
<1>2. /\ look.major \in Index /\ look.minor \in Index /\ look.major \in Nat /\ look.minor \in Nat
      /\ match.major \in Index /\ match.minor \in Index /\ match.major \in Nat /\ match.minor \in Nat
  BY <1>1, IndexNat DEF Lookahead, Payment
<1>3. IF look.major = 0 \/ look.minor = 0
      THEN UNCHANGED <<accounts, ranges, indexes>>
      ELSE /\ Write(a.id, u)
           /\ accounts' = IF u.ok THEN accounts
                          ELSE (accounts \ {a}) \cup {[a EXCEPT !.fail = failed]}
  BY DEF UpdateLookahead, DictTo
<1>4. CASE look.major = 0 \/ look.minor = 0
  BY <1>2, <1>3, <1>4 DEF Looks
<1>5. CASE ~(look.major = 0 \/ look.minor = 0)
  <2>0. look.minor - 1 \in Nat /\ look.minor - 1 \in Index /\ Looks(look)
    BY <1>2, <1>5, Bounds DEF Index, Looks
  <2>1. n \in Index /\ Fresh(match, look) \in Index /\ look.minor - 1 <= Fresh(match, look)
    BY <1>2, <2>0, Clamped DEF Fresh
  <2>2. f \in [Index -> Index]
        /\ \A i \in Index : f[i] = IF i = match.major THEN Fresh(match, look) ELSE look.minor - 1
    BY <2>0, <2>1
  <2>3. dict = DictOf(n, f)
    <3>1. \A i \in 1..n : i - 1 \in Index
      <4> HIDE DEF n
      <4> QED
        BY <2>1, Bounds DEF Index
    <3>2. \A i \in 1..n : f[i - 1] = IF i - 1 = match.major THEN Fresh(match, look) ELSE look.minor - 1
      BY <2>2, <3>1
    <3> HIDE DEF f, n
    <3> QED
      BY <3>2 DEF DictOf
  <2>4. DictOf(n, f) \in Seq(Entry)
    <3> HIDE DEF n, f
    <3> QED
      BY <2>1, <2>2, DictOfIs
  <2>5. u = Untouched(a.id) \/ u = DoUpsert(a.id, a.address, DictOf(n, f))
    BY <2>3
  <2> HIDE DEF u, dict, f
  <2>6. Wrote(u, a.id, a.address)
    BY <1>1, <2>4, <2>5, UntouchedWrites, UpsertWrites
  <2>7. ASSUME u.ok
        PROVE  Covered(u.indexes, a.id, a.address, look, match)
    <3>1. u = DoUpsert(a.id, a.address, DictOf(n, f))
      <4>1. u = Untouched(a.id) => u.ok = FALSE
        BY DEF Untouched
      <4> QED
        BY <2>5, <2>7, <4>1
    <3>2. \A m \in Index : (IF m = match.major THEN AddAndClamp(match.minor, look.minor - 1)
                                               ELSE look.minor - 1) <= f[m]
      <4> TAKE m \in Index
      <4>1. f[m] \in Nat /\ f[m] = IF m = match.major THEN Fresh(match, look) ELSE look.minor - 1
        BY <2>2, IndexNat
      <4>2. f[m] <= f[m]
        BY <4>1
      <4> QED
        BY <4>1, <4>2 DEF Fresh
    <3>3. AddAndClamp(match.major, look.major) <= n
      <4>1. PICK k \in Nat : k = AddAndClamp(match.major, look.major)
        BY <2>1, IndexNat
      <4>2. k <= k
        OBVIOUS
      <4> QED
        BY <4>1, <4>2
    <3> HIDE DEF n, look
    <3>4. n \in Index /\ f \in [Index -> Index]
      BY <2>1, <2>2
    <3> QED
      BY <1>1, <1>2, <2>0, <2>7, <3>1, <3>2, <3>3, <3>4, DictCovers
  <2>8. Noted(a, failed, height)
    <3>1. a.fail \in Nat /\ height \in Nat
      BY <1>1, Heights
    <3> QED
      BY <1>1, <3>1, Bounds DEF Noted, Larger, Smaller, Height
  <2> HIDE DEF failed
  <2>9. Write(a.id, u) /\ accounts' = IF u.ok THEN accounts
                          ELSE (accounts \ {a}) \cup {[a EXCEPT !.fail = failed]}
    BY <1>3, <1>5
  <2>10. UpdateDone(a, height, match, u)
    BY <2>0, <2>6, <2>7, <2>8, <2>9 DEF UpdateDone
  <2> QED
    BY <2>10
<1> QED
  BY <1>4, <1>5

-----------------------------------------------------------------------------
(* How accounts change *)

\* B has the accounts of A, with the same ids and addresses.
Has(A, b) == \E a \in A : a.id = b.id /\ a.address = b.address
Same(A, B) ==
    /\ Unique(B)
    /\ \A a \in A : Has(B, a)
    /\ \A b \in B : Has(A, b)

\* One account changes.
LEMMA SameReplace ==
    ASSUME NEW A, Unique(A), NEW a \in A, NEW b, b.id = a.id, b.address = a.address
    PROVE  Same(A, (A \ {a}) \cup {b})
<1> DEFINE B == (A \ {a}) \cup {b}
<1>1. Unique(B)
  BY DEF Unique
<1>2. \A x \in A : Has(B, x)
  <2> TAKE x \in A
  <2>1. CASE x = a
    <3>1. b \in B
      OBVIOUS
    <3> QED
      BY <2>1, <3>1 DEF Has
  <2>2. CASE x # a
    <3>1. x \in B
      BY <2>2
    <3> QED
      BY <3>1 DEF Has
  <2> QED
    BY <2>1, <2>2
<1>3. \A x \in B : Has(A, x)
  BY DEF Has
<1> QED
  BY <1>1, <1>2, <1>3 DEF Same

\* Numbered accounts stay numbered.
LEMMA SameNumbered ==
    ASSUME NEW A, NEW B, Numbered(A), Same(A, B)
    PROVE  Numbered(B)
<1>1. Ids(B) = Ids(A)
  BY DEF Ids, Same, Has
<1> QED
  BY <1>1 DEF Numbered, Same

\* An account is added.
LEMMA AddedNumbered ==
    ASSUME TypeInv, NEW a, a.id = NextId
    PROVE  Numbered(accounts \cup {a})
<1>1. Numbered(accounts)
  BY DEF TypeInv
<1>2. PICK k \in Nat : NextId = k + 1 /\ Ids(accounts) = 1..k
  BY <1>1, NextIdIsNew
<1>3. Ids(accounts \cup {a}) = Ids(accounts) \cup {k + 1}
  BY <1>2 DEF Ids
<1>4. Ids(accounts \cup {a}) = 1..(k + 1) /\ k + 1 \in Nat
  <2>1. (1..k) \cup {k + 1} = 1..(k + 1)
    OBVIOUS
  <2>2. k + 1 \in Nat
    OBVIOUS
  <2> QED
    BY <1>2, <1>3, <2>1, <2>2, Zenon
<1>5. Unique(accounts \cup {a})
  <2>1. Unique(accounts) /\ \A b \in accounts : b.id # NextId
    BY <1>1, NextIdIsNew DEF Numbered
  <2> QED
    BY <2>1 DEF Unique
<1> QED
  BY <1>4, <1>5 DEF Numbered

\* One account is replaced by b.
Replaced(a, b) ==
    /\ b \in Account /\ b.id = a.id /\ b.address = a.address
    /\ accounts' = (accounts \ {a}) \cup {b}

\* The accounts are accounts again.
LEMMA ReplacedTyped ==
    ASSUME TypeInv, NEW a \in accounts, NEW b, Replaced(a, b)
    PROVE  accounts' \subseteq Account /\ Numbered(accounts') /\ Same(accounts, accounts')
<1>1. Unique(accounts) /\ Numbered(accounts) /\ accounts \subseteq Account
  BY DEF TypeInv, Numbered
<1>2. Same(accounts, accounts')
  BY <1>1, SameReplace DEF Replaced
<1>3. Numbered(accounts')
  BY <1>1, <1>2, SameNumbered
<1> QED
  BY <1>1, <1>2, <1>3 DEF Replaced

\* A rollback changes the heights of several.
LEMMA RolledBack ==
    ASSUME TypeInv, NEW height \in Height, RollbackAccounts(height)
    PROVE  /\ accounts' \subseteq Account /\ Numbered(accounts') /\ Same(accounts, accounts')
           /\ \A b \in accounts' : \E a \in accounts :
                 /\ b.id = a.id /\ b.address = a.address
                 /\ b.lookahead = a.lookahead /\ b.fail = a.fail
                 /\ b.start <= a.start
                 /\ a.start <= a.scan => b.start <= b.scan
<1> DEFINE affected == {a \in accounts : a.scan >= height}
           below == Larger(height, 1) - 1
           To(a) == [a EXCEPT !.scan = below, !.start = Smaller(below, a.start)]
<1>1. accounts' = (accounts \ affected) \cup {To(a) : a \in affected}
  BY DEF RollbackAccounts
<1>2. below \in Height
  BY Bounds DEF Height, Larger
<1>3. ASSUME NEW a \in accounts
      PROVE  /\ To(a) \in Account /\ To(a).id = a.id /\ To(a).address = a.address
             /\ To(a).lookahead = a.lookahead /\ To(a).fail = a.fail
             /\ To(a).start <= a.start /\ To(a).start <= To(a).scan
  <2>1. a \in Account
    BY DEF TypeInv
  <2>2. PICK x \in Height, y \in Height : /\ x = below /\ y = Smaller(below, a.start)
                                          /\ y <= x /\ y <= a.start
    <3>1. PICK x \in Height : x = below
      BY <1>2
    <3>2. PICK z \in Height : z = a.start
      BY <2>1, AccountFields
    <3>3. PICK y \in Height : y = Smaller(x, z) /\ y <= x /\ y <= z
      BY Heights
    <3> QED
      BY <3>1, <3>2, <3>3
  <2>3. To(a) = [a EXCEPT !.scan = x, !.start = y]
    BY <2>2
  <2> HIDE DEF To
  <2> QED
    BY <2>1, <2>2, <2>3 DEF Account
<1>4. accounts \subseteq Account /\ Unique(accounts) /\ Numbered(accounts)
  BY DEF TypeInv, Numbered
<1> HIDE DEF To, below
<1>5. \A b \in accounts' : \E a \in accounts :
         b \in Account /\ b.id = a.id /\ b.address = a.address
         /\ ((a \notin affected /\ b = a) \/ (a \in affected /\ b = To(a)))
  BY <1>1, <1>3, <1>4
<1>6. accounts' \subseteq Account
  BY <1>5
<1>7. Unique(accounts')
  BY <1>4, <1>5 DEF Unique
<1>8. \A a \in accounts : Has(accounts', a)
  <2> TAKE a \in accounts
  <2>1. CASE a \in affected
    <3>1. To(a) \in accounts'
      BY <1>1, <2>1
    <3> QED
      BY <1>3, <3>1 DEF Has
  <2>2. CASE a \notin affected
    <3>1. a \in accounts'
      BY <1>1, <2>2
    <3> QED
      BY <3>1 DEF Has
  <2> QED
    BY <2>1, <2>2
<1>9. Same(accounts, accounts')
  BY <1>5, <1>7, <1>8 DEF Same, Has
<1>10. Numbered(accounts')
  BY <1>4, <1>9, SameNumbered
<1>11. ASSUME NEW b \in accounts'
       PROVE  \E a \in accounts :
                 /\ b.id = a.id /\ b.address = a.address
                 /\ b.lookahead = a.lookahead /\ b.fail = a.fail
                 /\ b.start <= a.start
                 /\ a.start <= a.scan => b.start <= b.scan
  <2>1. PICK a \in accounts : (a \notin affected /\ b = a) \/ (a \in affected /\ b = To(a))
    BY <1>5
  <2>2. a.start \in Nat
    BY <1>4, AccountFields
  <2>3. a.start <= a.start
    BY <2>2
  <2> HIDE DEF affected
  <2> QED
    BY <1>3, <2>1, <2>3
<1> QED
  BY <1>6, <1>9, <1>10, <1>11

\* What a change of height does to an account and its outputs.
Moved(a, b, height) ==
    /\ Replaced(a, b)
    /\ b.start <= a.start
    /\ a.start <= a.scan => b.start <= b.scan
    /\ outputs' = {o \in outputs : o.id # a.id \/ o.height < height}
    /\ raced' = IF b.lookahead = a.lookahead /\ b.fail = a.fail THEN raced
                ELSE raced \cup Held(a.id)
MovedAlone(a, b, height) ==
    /\ UNCHANGED <<ranges, indexes>>
    /\ b.lookahead = a.lookahead
    /\ b.fail = a.fail \/ (b.fail = 0 /\ height <= a.fail)
MovedAndLooked(a, b, u) ==
    /\ Wrote(u, a.id, a.address) /\ Write(a.id, u)
    /\ \/ Looks(b.lookahead) =>
              \A o \in outputs' : o.id = a.id /\ IsSub(o) =>
                  Covered(u.indexes, a.id, a.address, b.lookahead, o)
       \/ b.fail = Larger(1, b.start)

\* change_height.
LEMMA ChangeHeightIs ==
    ASSUME TypeInv, NEW a \in accounts, NEW height \in Height, NEW look \in Lookahead,
           ChangeHeight(a, height, look)
    PROVE  \E b : /\ Moved(a, b, height)
                  /\ MovedAlone(a, b, height) \/ \E u : MovedAndLooked(a, b, u)
<1> DEFINE kept == {o \in outputs : o.id # a.id \/ o.height < height}
           u == DoLookahead(a.id, a.address, look, kept)
<1>0. a \in Account /\ outputs \subseteq Found
  BY DEF TypeInv
<1>1. a.id \in AccountId /\ a.address \in Address /\ a.start \in Height
      /\ a.scan \in Height /\ a.fail \in Height
  BY <1>0, AccountFields
<1>2. PICK sc \in Height : sc = Smaller(height, a.scan)
  BY <1>1, Heights
<1>3. PICK st \in Height : st = Smaller(height, a.start) /\ st <= a.start
  BY <1>1, Heights
<1>4. PICK fl \in Height : fl = ClearFail(a, height) /\ (fl = a.fail \/ (fl = 0 /\ height <= a.fail))
  BY <1>1, Heights DEF ClearFail
<1>5. PICK c : c = [a EXCEPT !.scan = sc, !.start = st, !.fail = fl]
  OBVIOUS
<1>6. c = [a EXCEPT !.scan = Smaller(height, a.scan),
                    !.start = Smaller(height, a.start),
                    !.fail = ClearFail(a, height)]
  BY <1>2, <1>3, <1>4, <1>5
<1>7. /\ c \in Account /\ c.id = a.id /\ c.address = a.address /\ c.lookahead = a.lookahead
      /\ c.start = st /\ c.scan = sc /\ c.fail = fl
  BY <1>0, <1>5 DEF Account
<1>8. a.start <= a.scan => st <= sc
  BY <1>1, <1>2, <1>3, Bounds DEF Smaller, Height
<1>9. PICK d : /\ d = IF look = NoLookahead THEN c ELSE LookaheadDone(c, look, u)
               /\ outputs' = kept /\ accounts' = (accounts \ {a}) \cup {d}
               /\ IF look = NoLookahead THEN UNCHANGED <<ranges, indexes>> ELSE Write(a.id, u)
               /\ raced' = IF d.lookahead = a.lookahead /\ d.fail = a.fail THEN raced
                           ELSE raced \cup Held(a.id)
  BY <1>6 DEF ChangeHeight
<1>10. CASE look = NoLookahead
  <2>1. Moved(a, c, height)
    BY <1>3, <1>7, <1>8, <1>9, <1>10 DEF Moved, Replaced
  <2>2. MovedAlone(a, c, height)
    BY <1>4, <1>7, <1>9, <1>10 DEF MovedAlone
  <2> QED
    BY <2>1, <2>2
<1>11. CASE look # NoLookahead
  <2>1. kept \subseteq Found
    BY <1>0
  <2> HIDE DEF kept
  <2>2. /\ Wrote(u, a.id, a.address)
        /\ u.ok /\ Looks(look) =>
              \A o \in kept : o.id = a.id /\ IsSub(o) =>
                  Covered(u.indexes, a.id, a.address, look, o)
    BY <1>1, <2>1, DoLookaheadIs
  <2> HIDE DEF u
  <2>3. PICK y \in Height : y = IF u.ok THEN fl ELSE Larger(1, st)
    BY <1>3, <1>4, Heights
  <2>4. LookaheadDone(c, look, u) = [c EXCEPT !.lookahead = look, !.fail = y]
    BY <1>7, <2>3 DEF LookaheadDone, Account
  <2>5. d = [c EXCEPT !.lookahead = look, !.fail = y]
    BY <1>9, <1>11, <2>4
  <2>6. /\ d \in Account /\ d.id = a.id /\ d.address = a.address /\ d.lookahead = look
        /\ d.start = st /\ d.scan = sc /\ d.fail = y
    BY <1>7, <2>5 DEF Account
  <2>7. Moved(a, d, height)
    BY <1>3, <1>8, <1>9, <2>6 DEF Moved, Replaced, kept
  <2>8. MovedAndLooked(a, d, u)
    BY <1>9, <1>11, <2>2, <2>3, <2>6 DEF MovedAndLooked
  <2> QED
    BY <2>7, <2>8
<1> QED
  BY <1>10, <1>11

\* Tables that are written are tables.
LEMMA WriteTyped ==
    ASSUME TypeInv, NEW id \in AccountId, NEW address, NEW u,
           Wrote(u, id, address), Write(id, u)
    PROVE  /\ ranges' \in [AccountId -> [Index -> Seq(Span)]] /\ indexes' \in FiniteRows
           /\ indexes' = u.indexes /\ ranges'[id] = u.ranges
           /\ \A i \in AccountId : i # id => ranges'[i] = ranges[i]
<1>1. u.ranges \in [Index -> Seq(Span)] /\ u.indexes \in FiniteRows
  BY DEF Wrote
<1>2. ranges \in [AccountId -> [Index -> Seq(Span)]]
  BY DEF TypeInv
<1>3. ranges' = [ranges EXCEPT ![id] = u.ranges] /\ indexes' = u.indexes
  BY DEF Write
<1>4. PICK R \in [Index -> Seq(Span)] : R = u.ranges
  BY <1>1
<1>5. ranges' = [ranges EXCEPT ![id] = R]
  BY <1>3, <1>4
<1> QED
  BY <1>1, <1>2, <1>3, <1>4, <1>5

\* A new account.
LEMMA NewAccountIs ==
    ASSUME NextId \in AccountId, NEW address \in Address, NEW height \in Height
    PROVE  LET a == NewAccount(address, height) IN
           /\ a \in Account /\ a.id = NextId /\ a.address = address
           /\ a.start = height /\ a.scan = height /\ a.fail = 0
           /\ a.lookahead = NoLookahead /\ NoLookahead \in Lookahead
<1> HIDE DEF NextId
<1>1. NoLookahead \in Lookahead /\ 0 \in Height
  BY IndexNat, Heights DEF NoLookahead, Lookahead
<1> QED
  BY <1>1 DEF NewAccount, Account

\* What create_accounts does with a request.
CreatedBy(q, a) ==
    /\ NextId \in AccountId
    /\ a \in Account /\ a.id = NextId /\ a.address = q.address /\ a.start <= a.scan
    /\ accounts' = IF Exists(q.address) THEN accounts ELSE accounts \cup {a}
    /\ \/ UNCHANGED <<ranges, indexes>>
       \/ \E u : Wrote(u, NextId, q.address) /\ Write(NextId, u)
    /\ requests' = requests \ {q} /\ UNCHANGED <<outputs, batches, raced>>

\* create_accounts.
LEMMA CreateAccountIs ==
    ASSUME TypeInv, NEW q \in requests, CreateAccount(q)
    PROVE  \E a : CreatedBy(q, a)
<1> DEFINE a == NewAccount(q.address, q.height)
           u == DoLookahead(a.id, a.address, q.lookahead, outputs)
<1>0. q \in Request /\ outputs \subseteq Found /\ NextId \in AccountId
  BY DEF TypeInv, CreateAccount
<1>1. q.address \in Address /\ q.height \in Height /\ q.lookahead \in Lookahead
  BY <1>0 DEF Request
<1>2. /\ a \in Account /\ a.id = NextId /\ a.address = q.address
      /\ a.start = q.height /\ a.scan = q.height
  BY <1>0, <1>1, NewAccountIs
<1>3. q.height <= q.height
  BY <1>1, Bounds DEF Height
<1>4. /\ requests' = requests \ {q} /\ UNCHANGED <<outputs, batches, raced>>
      /\ IF q.lookahead = NoLookahead THEN UNCHANGED <<ranges, indexes>>
                                      ELSE Write(a.id, u)
      /\ accounts' = IF Exists(q.address) THEN accounts
                     ELSE IF q.lookahead = NoLookahead THEN accounts \cup {a}
                     ELSE accounts \cup {LookaheadDone(a, q.lookahead, u)}
  BY DEF CreateAccount
<1> HIDE DEF a
<1>5. CASE q.lookahead = NoLookahead
  <2>1. CreatedBy(q, a)
    BY <1>0, <1>2, <1>3, <1>4, <1>5 DEF CreatedBy
  <2> QED
    BY <2>1
<1>6. CASE q.lookahead # NoLookahead
  <2>1. Wrote(u, NextId, q.address)
    BY <1>0, <1>1, <1>2, DoLookaheadIs
  <2> HIDE DEF u
  <2>2. PICK y \in Height : y = IF u.ok THEN a.fail ELSE Larger(1, a.start)
    BY <1>2, Heights, AccountFields
  <2>3. PICK d : d = [a EXCEPT !.lookahead = q.lookahead, !.fail = y]
    OBVIOUS
  <2>4. LookaheadDone(a, q.lookahead, u) = d
    BY <1>2, <2>2, <2>3 DEF LookaheadDone, Account
  <2>5. /\ d \in Account /\ d.id = NextId /\ d.address = q.address
        /\ d.start = q.height /\ d.scan = q.height
    BY <1>1, <1>2, <2>2, <2>3 DEF Account
  <2>6. CreatedBy(q, d)
    BY <1>0, <1>2, <1>3, <1>4, <1>6, <2>1, <2>4, <2>5 DEF CreatedBy
  <2> QED
    BY <2>6
<1> QED
  BY <1>5, <1>6

\* How a batch goes on.
BatchTo(b, c) ==
    /\ c \in Batch /\ Placed(c)
    /\ c.id = b.id /\ c.base = b.base /\ c.last = b.last
    /\ batches' = (batches \ {b}) \cup {c}

\* The next output of a batch.
LEMMA NextOutputIs ==
    ASSUME NEW b \in Batch, Placed(b), b.height <= b.last
    PROVE  /\ NextOutput(b) \in Batch /\ Placed(NextOutput(b))
           /\ NextOutput(b).id = b.id /\ NextOutput(b).base = b.base
           /\ NextOutput(b).last = b.last /\ NextOutput(b).found = b.found
<1>1. /\ b.base \in Nat /\ b.last \in Nat /\ b.height \in Nat /\ b.next \in Nat
      /\ b.last <= MaxHeight /\ MaxHeight \in Nat
      /\ b.base < b.height /\ b.next >= 1
      /\ \A f \in b.found : f.id = b.id /\ b.base < f.height
  BY Bounds DEF Batch, Height, Placed
<1>2. b.height \in 1..MaxHeight
  <2>1. PICK h, x, y \in Nat : h = b.height /\ x = b.base /\ y = b.last
    BY <1>1
  <2>2. h \in 1..MaxHeight
    BY <1>1, <2>1
  <2> QED
    BY <2>1, <2>2
<1>3. Paid[b.height] \in Seq(Payment)
  BY <1>2, BoundsAssumption
<1>4. CASE b.next < Len(Paid[b.height])
  <2>1. PICK x \in Nat : x = b.next + 1 /\ x >= 1 /\ x <= Len(Paid[b.height])
    BY <1>1, <1>3, <1>4
  <2>2. NextOutput(b) = [b EXCEPT !.next = x]
    BY <1>4, <2>1 DEF NextOutput, Batch
  <2>3. PICK c : c = [b EXCEPT !.next = x]
    OBVIOUS
  <2>4. /\ c \in Batch /\ c.id = b.id /\ c.base = b.base /\ c.last = b.last
        /\ c.found = b.found /\ c.height = b.height /\ c.next = x
    BY <2>1, <2>3 DEF Batch
  <2>5. Placed(c)
    BY <1>1, <2>1, <2>4 DEF Placed
  <2> QED
    BY <2>2, <2>3, <2>4, <2>5
<1>5. CASE ~(b.next < Len(Paid[b.height]))
  <2>1. PICK x \in Nat : x = b.height + 1 /\ x <= b.last + 1 /\ b.base < x
    BY <1>1
  <2>2. NextOutput(b) = [b EXCEPT !.next = 1, !.height = x]
    BY <1>5, <2>1 DEF NextOutput, Batch
  <2>3. PICK c : c = [b EXCEPT !.next = 1, !.height = x]
    OBVIOUS
  <2>4. x \in Height \cup {MaxHeight + 1}
    BY <1>1, <2>1 DEF Height
  <2>5. /\ c \in Batch /\ c.id = b.id /\ c.base = b.base /\ c.last = b.last
        /\ c.found = b.found /\ c.height = x /\ c.next = 1
    BY <2>3, <2>4 DEF Batch
  <2>6. ASSUME x <= b.last, Paid[x] # <<>>
        PROVE  1 <= Len(Paid[x])
    <3>1. Paid[x] \in Seq(Payment)
      BY <1>1, <2>1, <2>6, BoundsAssumption
    <3> QED
      BY <2>6, <3>1
  <2>7. Placed(c)
    BY <1>1, <2>1, <2>5, <2>6 DEF Placed
  <2> QED
    BY <2>2, <2>3, <2>5, <2>7
<1> QED
  BY <1>4, <1>5

\* What a batch finds, and what that does.
Finds(a, b, c, o) ==
    /\ c.found = b.found \cup {o} /\ o \in Found
    /\ o.id = a.id /\ o.height = b.height /\ 1 <= b.height
    /\ raced' = raced \ {o}
    /\ \/ /\ UNCHANGED <<accounts, ranges, indexes>>
          /\ ~IsSub(o) \/ ~Looks(a.lookahead)
       \/ \E u : UpdateDone(a, b.height, o, u)

\* A scan of one output.
LEMMA ScanOutputIs ==
    ASSUME TypeInv, NEW b \in batches, ScanOutput(b)
    PROVE  \E a \in accounts : \E c :
              /\ a.id = b.id /\ BatchTo(b, c)
              /\ \/ c.found = b.found /\ UNCHANGED <<accounts, ranges, indexes, raced>>
                 \/ \E o : Finds(a, b, c, o)
<1> DEFINE p == Paid[b.height][b.next]
           o == [id |-> b.id, height |-> b.height, major |-> p.major, minor |-> p.minor]
<1>0. b \in Batch /\ Placed(b) /\ b.height <= b.last
  BY DEF TypeInv, ScanOutput
<1>1. PICK a \in accounts :
         /\ a.id = b.id
         /\ IF \/ Paid[b.height] = <<>>
               \/ p.address # a.address
               \/ /\ p.major # 0 \/ p.minor # 0
                  /\ [id |-> a.id, address |-> p.address, major |-> p.major,
                      minor |-> p.minor] \notin indexes
            THEN /\ batches' = (batches \ {b}) \cup {NextOutput(b)}
                 /\ UNCHANGED <<accounts, ranges, indexes, raced>>
            ELSE /\ batches' = (batches \ {b}) \cup
                               {[NextOutput(b) EXCEPT !.found = @ \cup {o}]}
                 /\ raced' = raced \ {o}
                 /\ IF p.major = 0 /\ p.minor = 0
                    THEN UNCHANGED <<accounts, ranges, indexes>>
                    ELSE UpdateLookahead(a, b.height, p)
  BY DEF ScanOutput
<1>2. PICK n : n = NextOutput(b)
  OBVIOUS
<1>3. /\ n \in Batch /\ Placed(n) /\ n.id = b.id /\ n.base = b.base
      /\ n.last = b.last /\ n.found = b.found
  BY <1>0, <1>2, NextOutputIs
<1>4. CASE batches' = (batches \ {b}) \cup {NextOutput(b)}
           /\ UNCHANGED <<accounts, ranges, indexes, raced>>
  <2>1. BatchTo(b, n)
    BY <1>2, <1>3, <1>4 DEF BatchTo
  <2> QED
    BY <1>1, <1>3, <1>4, <2>1
<1>5. CASE /\ Paid[b.height] # <<>>
           /\ batches' = (batches \ {b}) \cup {[NextOutput(b) EXCEPT !.found = @ \cup {o}]}
           /\ raced' = raced \ {o}
           /\ IF p.major = 0 /\ p.minor = 0
              THEN UNCHANGED <<accounts, ranges, indexes>>
              ELSE UpdateLookahead(a, b.height, p)
  <2>1. /\ b.height \in 1..MaxHeight /\ b.height \in Height /\ 1 <= b.height
        /\ b.base < b.height /\ b.next \in Nat /\ b.next >= 1
        /\ b.next <= Len(Paid[b.height])
    <3>1. PICK h, x, y \in Nat : /\ h = b.height /\ x = b.base /\ y = b.last
                                 /\ x < h /\ h <= y /\ y <= MaxHeight
      BY <1>0, Bounds DEF Batch, Height, Placed
    <3>2. h \in 1..MaxHeight /\ h \in Height /\ 1 <= h
      BY <3>1, BoundsAssumption DEF Height
    <3>3. b.next \in Nat /\ b.next >= 1 /\ b.next <= Len(Paid[b.height])
      BY <1>0, <1>5 DEF Batch, Placed
    <3> QED
      BY <3>1, <3>2, <3>3
  <2>2. p \in Payment
    <3>1. Paid[b.height] \in Seq(Payment)
      BY <2>1, BoundsAssumption
    <3>2. Len(Paid[b.height]) \in Nat
      BY <3>1
    <3>3. b.next \in 1..Len(Paid[b.height])
      BY <2>1, <3>2
    <3> QED
      BY <3>1, <3>3
  <2>3. p.major \in Index /\ p.minor \in Index /\ a.id \in AccountId
    <3>1. a.id \in AccountId
      BY AccountFields DEF TypeInv
    <3> QED
      BY <2>2, <3>1 DEF Payment
  <2> HIDE DEF p
  <2>4. /\ o \in Found /\ o.id = a.id /\ o.height = b.height
        /\ o.major = p.major /\ o.minor = p.minor
    BY <1>1, <2>1, <2>3 DEF Found
  <2> HIDE DEF o
  <2>5. PICK c : c = [n EXCEPT !.found = n.found \cup {o}]
    OBVIOUS
  <2>6. /\ c \in Batch /\ c.id = b.id /\ c.base = b.base /\ c.last = b.last
        /\ c.found = b.found \cup {o} /\ c.height = n.height /\ c.next = n.next
    <3>1. PICK F \in SUBSET Found : F = n.found \cup {o}
      <4>1. n.found \in SUBSET Found
        BY <1>3 DEF Batch
      <4> QED
        BY <2>4, <4>1
    <3>2. c = [n EXCEPT !.found = F]
      BY <2>5, <3>1
    <3> QED
      BY <1>3, <3>1, <3>2 DEF Batch
  <2>7. Placed(c)
    <3>1. \A f \in c.found : f.id = c.id /\ c.base < f.height
      <4>1. \A f \in b.found : f.id = b.id /\ b.base < f.height
        BY <1>0 DEF Placed
      <4> QED
        BY <1>1, <2>1, <2>4, <2>6, <4>1
    <3> QED
      BY <1>3, <2>6, <3>1 DEF Placed
  <2>8. batches' = (batches \ {b}) \cup {c}
    BY <1>2, <1>5, <2>5, <1>3 DEF Batch
  <2>9. BatchTo(b, c)
    BY <2>6, <2>7, <2>8 DEF BatchTo
  <2>10. \/ /\ UNCHANGED <<accounts, ranges, indexes>>
            /\ ~IsSub(o) \/ ~Looks(a.lookahead)
         \/ \E u : UpdateDone(a, b.height, o, u)
    <3>1. CASE p.major = 0 /\ p.minor = 0
      BY <1>5, <2>4, <3>1 DEF IsSub
    <3>2. CASE ~(p.major = 0 /\ p.minor = 0)
      <4>1. UpdateLookahead(a, b.height, p)
        BY <1>5, <3>2
      <4>2. b.height >= 1
        BY <2>1
      <4>3. \/ ~Looks(a.lookahead) /\ UNCHANGED <<accounts, ranges, indexes>>
            \/ \E u : UpdateDone(a, b.height, p, u)
        BY <2>1, <2>2, <4>1, <4>2, UpdateLookaheadIs
      <4>4. \A I, x, y, l : Covered(I, x, y, l, p) => Covered(I, x, y, l, o)
        BY <2>4 DEF Covered
      <4>5. \A u : UpdateDone(a, b.height, p, u) => UpdateDone(a, b.height, o, u)
        BY <4>4 DEF UpdateDone
      <4> QED
        BY <4>3, <4>5
    <3> QED
      BY <3>1, <3>2
  <2>11. Finds(a, b, c, o)
    BY <1>5, <2>1, <2>4, <2>6, <2>10 DEF Finds
  <2> QED
    BY <1>1, <2>9, <2>11
<1> QED
  BY <1>1, <1>4, <1>5

-----------------------------------------------------------------------------
(* Steps *)

\* The kinds of steps.
Asks(q) ==
    /\ q \in Request
    /\ requests' = requests \cup {q}
    /\ UNCHANGED <<accounts, ranges, indexes, outputs, batches, raced>>
Fills(a, u) ==
    /\ Wrote(u, a.id, a.address) /\ Write(a.id, u)
    /\ UNCHANGED <<accounts, requests, outputs, batches, raced>>
Shrinks(a, b) ==
    /\ Replaced(a, b) /\ b.start = a.start /\ b.scan = a.scan /\ b.fail = a.fail
    /\ b.lookahead.major <= a.lookahead.major /\ b.lookahead.minor <= a.lookahead.minor
    /\ UNCHANGED <<requests, ranges, indexes, outputs, batches, raced>>
Moves(a, b, height) ==
    /\ Moved(a, b, height)
    /\ MovedAlone(a, b, height) \/ \E u : MovedAndLooked(a, b, u)
    /\ requests' \subseteq requests /\ UNCHANGED batches

WalletSteps ==
    \/ \E address \in Address, height \in Height : AddAccount(address, height)
    \/ \E q : Asks(q)
    \/ \E a \in accounts : \E u : Fills(a, u)
    \/ \E a \in accounts : \E b : Shrinks(a, b)
    \/ \E q \in requests : \E a : q.type = "create" /\ CreatedBy(q, a)
    \/ \E a \in accounts : \E b : \E height \in Height : Moves(a, b, height)
ScanSteps ==
    \/ \E height \in Height : RollbackAccounts(height)
    \/ \E a \in accounts : Load(a)
    \/ \E b \in batches : ScanOutput(b) \/ CheckIn(b) \/ Reset(b)

\* An upsert of a wallet.
LEMMA UpsertIs ==
    ASSUME TypeInv, NEW a \in accounts, NEW d \in Seq(Entry), UpsertSubaddresses(a, d)
    PROVE  \E u : Fills(a, u)
<1> DEFINE u == DoUpsert(a.id, a.address, d)
<1>1. a.id \in AccountId /\ a.address \in Address
  BY AccountFields DEF TypeInv
<1>2. Wrote(u, a.id, a.address)
  BY <1>1, UpsertWrites
<1>3. Write(a.id, u) /\ UNCHANGED <<accounts, requests, outputs, batches, raced>>
  BY DEF UpsertSubaddresses
<1> HIDE DEF u
<1>4. Fills(a, u)
  BY <1>2, <1>3 DEF Fills
<1> QED
  BY <1>4

\* A smaller lookahead.
LEMMA ShrinkIs ==
    ASSUME TypeInv, NEW a \in accounts, NEW look \in Lookaheads, ShrinkLookahead(a, look)
    PROVE  \E b : Shrinks(a, b)
<1>1. a \in Account /\ look \in Lookahead
  BY BoundsAssumption DEF TypeInv
<1>2. PICK b : b = [a EXCEPT !.lookahead = look]
  OBVIOUS
<1>3. /\ b \in Account /\ b.id = a.id /\ b.address = a.address /\ b.start = a.start
      /\ b.scan = a.scan /\ b.fail = a.fail /\ b.lookahead = look
  BY <1>1, <1>2 DEF Account
<1>4. Shrinks(a, b)
  BY <1>2, <1>3 DEF Shrinks, ShrinkLookahead, Replaced
<1> QED
  BY <1>4

\* A change of height, whoever asks for it.
LEMMA MoveIs ==
    ASSUME TypeInv, NEW a \in accounts, NEW height \in Height, NEW look \in Lookahead,
           ChangeHeight(a, height, look),
           requests' \subseteq requests, UNCHANGED batches
    PROVE  \E b : Moves(a, b, height)
<1>1. PICK b : /\ Moved(a, b, height)
               /\ MovedAlone(a, b, height) \/ \E u : MovedAndLooked(a, b, u)
  BY ChangeHeightIs
<1>2. Moves(a, b, height)
  BY <1>1 DEF Moves
<1> QED
  BY <1>2

\* A wallet asks for an account or an import.
LEMMA AskIs ==
    ASSUME TypeInv, NEW height \in Height, NEW look \in Lookahead,
           \/ \E address \in Address : CreationRequest(address, height, look)
           \/ \E a \in accounts : ImportRequest(a, height, look)
    PROVE  \E q : Asks(q)
<1>1. CASE \E address \in Address : CreationRequest(address, height, look)
  <2>1. PICK address \in Address : CreationRequest(address, height, look)
    BY <1>1
  <2>2. PICK q : q = [type |-> "create", address |-> address,
                      height |-> height, lookahead |-> look]
    OBVIOUS
  <2>3. q \in Request
    BY <2>2 DEF Request
  <2>4. Asks(q)
    BY <2>1, <2>2, <2>3 DEF Asks, CreationRequest
  <2> QED
    BY <2>4
<1>2. CASE \E a \in accounts : ImportRequest(a, height, look)
  <2>1. PICK a \in accounts : ImportRequest(a, height, look)
    BY <1>2
  <2>2. PICK q : q = [type |-> "import_scan", address |-> a.address,
                      height |-> height, lookahead |-> look]
    OBVIOUS
  <2>3. a.address \in Address
    BY AccountFields DEF TypeInv
  <2>4. q \in Request
    BY <2>2, <2>3 DEF Request
  <2>5. Asks(q)
    BY <2>1, <2>2, <2>4 DEF Asks, ImportRequest
  <2> QED
    BY <2>5
<1> QED
  BY <1>1, <1>2

\* Every step is of one of the kinds.
LEMMA StepKinds ==
    ASSUME TypeInv, Next
    PROVE  WalletSteps \/ ScanSteps
<1>1. /\ AskedHeights \subseteq Height /\ Lookaheads \subseteq Lookahead
      /\ Dicts \subseteq Seq(Entry)
      /\ \A q \in Asked : q.height \in Height /\ q.lookahead \in Lookahead
  BY BoundsAssumption, DictAssumption DEF Entry
<1>2. CASE Wallet
  <2>0. CASE \E address \in Address : \E h \in AskedHeights : AddAccount(address, h)
    BY <1>1, <2>0 DEF WalletSteps
  <2>1. CASE \E address \in Address : \E q \in Asked :
                CreationRequest(address, q.height, q.lookahead)
    BY <1>1, <2>1, AskIs DEF WalletSteps
  <2>2. ASSUME NEW a \in accounts, \E d \in Dicts : UpsertSubaddrs(a, d)
        PROVE  WalletSteps
    BY <1>1, <2>2, UpsertIs DEF WalletSteps, UpsertSubaddrs
  <2>3. ASSUME NEW a \in accounts, \E p \in Provisions : ProvisionSubaddrs(a, p)
        PROVE  WalletSteps
    <3>1. PICK p \in Provisions : ProvisionSubaddrs(a, p)
      BY <2>3
    <3>2. p.n_minor > 0 /\ UpsertSubaddresses(a, ProvisionDict(p))
      BY <3>1 DEF ProvisionSubaddrs
    <3>3. ProvisionDict(p) \in Seq(Entry)
      BY <3>2, ProvisionDictIs
    <3> QED
      BY <3>2, <3>3, UpsertIs DEF WalletSteps
  <2>4. ASSUME NEW a \in accounts, \E look \in Lookaheads : ShrinkLookahead(a, look)
        PROVE  WalletSteps
    BY <2>4, ShrinkIs DEF WalletSteps
  <2>5. ASSUME NEW a \in accounts, NEW h \in AskedHeights, Rescan(a, h)
        PROVE  WalletSteps
    <3>1. ChangeHeight(a, h, NoLookahead) /\ requests' \subseteq requests /\ UNCHANGED batches
      BY <2>5 DEF Rescan
    <3>2. NoLookahead \in Lookahead
      BY IndexNat DEF NoLookahead, Lookahead
    <3>3. \E b : Moves(a, b, h)
      BY <1>1, <2>5, <3>1, <3>2, MoveIs
    <3> QED
      BY <1>1, <3>3 DEF WalletSteps
  <2>6. ASSUME NEW a \in accounts, \E q \in Asked : ImportRequest(a, q.height, q.lookahead)
        PROVE  WalletSteps
    BY <1>1, <2>6, AskIs DEF WalletSteps
  <2> QED
    BY <1>2, <2>0, <2>1, <2>2, <2>3, <2>4, <2>5, <2>6 DEF Wallet
<1>3. CASE Accept
  <2>1. PICK q \in requests : CreateAccount(q) \/ ImportAccount(q)
    BY <1>3 DEF Accept
  <2>2. CASE CreateAccount(q)
    <3>1. q.type = "create"
      BY <2>2 DEF CreateAccount
    <3>2. \E a : CreatedBy(q, a)
      BY <2>2, CreateAccountIs
    <3> QED
      BY <3>1, <3>2 DEF WalletSteps
  <2>3. CASE ImportAccount(q)
    <3>1. q.height \in Height /\ q.lookahead \in Lookahead
      BY DEF TypeInv, Request
    <3>2. PICK a \in accounts : ChangeHeight(a, q.height, q.lookahead)
      BY <2>3 DEF ImportAccount
    <3>3. requests' \subseteq requests /\ UNCHANGED batches
      BY <2>3 DEF ImportAccount
    <3>4. \E b : Moves(a, b, q.height)
      BY <2>3, <3>1, <3>2, <3>3, MoveIs
    <3> QED
      BY <3>1, <3>4 DEF WalletSteps
  <2> QED
    BY <2>1, <2>2, <2>3
<1>4. CASE Scan
  BY <1>1, <1>4 DEF Scan, ScanSteps
<1> QED
  BY <1>2, <1>3, <1>4 DEF Next

-----------------------------------------------------------------------------
(* Types hold *)

\* A step of a wallet, or of the administrator for it, keeps types.
LEMMA TypeWallet ==
    ASSUME TypeInv, WalletSteps
    PROVE  TypeInv'
<1>0. /\ accounts \subseteq Account /\ Numbered(accounts) /\ requests \subseteq Request
      /\ ranges \in [AccountId -> [Index -> Seq(Span)]] /\ indexes \in FiniteRows
      /\ outputs \subseteq Found /\ batches \subseteq Batch /\ \A b \in batches : Placed(b)
      /\ raced \subseteq Found
  BY DEF TypeInv
<1>1. ASSUME NEW address \in Address, NEW height \in Height, AddAccount(address, height)
      PROVE  TypeInv'
  <2>1. PICK a : a = NewAccount(address, height)
    OBVIOUS
  <2>2. a \in Account /\ a.id = NextId
    BY <1>1, <2>1, NewAccountIs DEF AddAccount
  <2>3. Numbered(accounts \cup {a})
    BY <2>2, AddedNumbered
  <2> QED
    BY <1>0, <1>1, <2>1, <2>2, <2>3 DEF AddAccount, TypeInv
<1>2. ASSUME NEW q, Asks(q)
      PROVE  TypeInv'
  BY <1>0, <1>2 DEF Asks, TypeInv
<1>3. ASSUME NEW a \in accounts, NEW u, Fills(a, u)
      PROVE  TypeInv'
  <2>1. a.id \in AccountId
    BY <1>0, AccountFields
  <2>2. ranges' \in [AccountId -> [Index -> Seq(Span)]] /\ indexes' \in FiniteRows
    BY <1>3, <2>1, WriteTyped DEF Fills
  <2> QED
    BY <1>0, <1>3, <2>2 DEF Fills, TypeInv
<1>4. ASSUME NEW a \in accounts, NEW b, Shrinks(a, b)
      PROVE  TypeInv'
  <2>1. accounts' \subseteq Account /\ Numbered(accounts')
    BY <1>4, ReplacedTyped DEF Shrinks
  <2> QED
    BY <1>0, <1>4, <2>1 DEF Shrinks, TypeInv
<1>5. ASSUME NEW q \in requests, NEW a, CreatedBy(q, a)
      PROVE  TypeInv'
  <2>1. accounts' \subseteq Account /\ Numbered(accounts')
    BY <1>0, <1>5, AddedNumbered DEF CreatedBy
  <2>2. ranges' \in [AccountId -> [Index -> Seq(Span)]] /\ indexes' \in FiniteRows
    BY <1>0, <1>5, WriteTyped DEF CreatedBy
  <2>3. requests' \subseteq requests /\ UNCHANGED <<outputs, batches, raced>>
    BY <1>5 DEF CreatedBy
  <2> QED
    BY <1>0, <2>1, <2>2, <2>3 DEF TypeInv
<1>6. ASSUME NEW a \in accounts, NEW b, NEW height \in Height, Moves(a, b, height)
      PROVE  TypeInv'
  <2>0. a.id \in AccountId
    BY <1>0, AccountFields
  <2>1. accounts' \subseteq Account /\ Numbered(accounts')
    BY <1>6, ReplacedTyped DEF Moves, Moved
  <2>2. ranges' \in [AccountId -> [Index -> Seq(Span)]] /\ indexes' \in FiniteRows
    BY <1>0, <1>6, <2>0, WriteTyped DEF Moves, MovedAlone, MovedAndLooked
  <2>3. outputs' \subseteq outputs /\ requests' \subseteq requests /\ UNCHANGED batches
    BY <1>6 DEF Moves, Moved
  <2>4. raced' \subseteq Found
    <3>1. Held(a.id) \subseteq Found
      BY <1>0 DEF Held, Batch
    <3>2. raced' \subseteq raced \cup Held(a.id)
      BY <1>6 DEF Moves, Moved
    <3> QED
      BY <1>0, <3>1, <3>2
  <2> QED
    BY <1>0, <2>1, <2>2, <2>3, <2>4 DEF TypeInv
<1> QED
  BY <1>1, <1>2, <1>3, <1>4, <1>5, <1>6 DEF WalletSteps

\* A batch is loaded.
LEMMA LoadIs ==
    ASSUME TypeInv, NEW a \in accounts, Load(a)
    PROVE  \E b : /\ b \in Batch /\ Placed(b) /\ b.id = a.id /\ b.base = a.scan
                  /\ b.found = {} /\ batches' = batches \cup {b}
                  /\ UNCHANGED <<accounts, requests, ranges, indexes, outputs, raced>>
<1>1. a.id \in AccountId /\ a.scan \in Height /\ a.scan \in Nat /\ MaxHeight \in Nat
  BY AccountFields, Bounds DEF TypeInv
<1>2. PICK last \in (a.scan + 1)..MaxHeight :
         batches' = batches \cup {[id |-> a.id, base |-> a.scan, last |-> last,
                                   height |-> a.scan + 1, next |-> 1, found |-> {}]}
  BY DEF Load
<1>3. PICK h : h = a.scan + 1
  OBVIOUS
<1>4. /\ last \in Height /\ h \in Height \cup {MaxHeight + 1} /\ h \in 1..MaxHeight
      /\ a.scan < h /\ h <= last + 1
  BY <1>1, <1>2, <1>3 DEF Height
<1>5. PICK b : b = [id |-> a.id, base |-> a.scan, last |-> last,
                    height |-> h, next |-> 1, found |-> {}]
  OBVIOUS
<1>6. /\ b \in Batch /\ b.id = a.id /\ b.base = a.scan /\ b.last = last
      /\ b.height = h /\ b.next = 1 /\ b.found = {}
  <2>1. {} \in SUBSET Found /\ 1 \in Nat
    OBVIOUS
  <2> QED
    BY <1>1, <1>4, <1>5, <2>1 DEF Batch
<1>7. Placed(b)
  <2>1. Paid[h] \in Seq(Payment)
    BY <1>4, BoundsAssumption
  <2>2. Paid[h] # <<>> => 1 <= Len(Paid[h])
    BY <2>1
  <2> QED
    BY <1>4, <1>6, <2>2 DEF Placed
<1>8. batches' = batches \cup {b}
  BY <1>2, <1>3, <1>5
<1> QED
  BY <1>6, <1>7, <1>8 DEF Load

\* A batch is checked in.
Checks(a, b, c) ==
    /\ a.id = b.id /\ Replaced(a, c)
    /\ c.start = a.start /\ c.fail = a.fail /\ c.lookahead = a.lookahead
    /\ a.scan <= c.scan
    /\ outputs' \subseteq outputs \cup b.found

\* storage::update.
LEMMA CheckInIs ==
    ASSUME TypeInv, NEW b \in batches, CheckIn(b)
    PROVE  /\ batches' = batches \ {b} /\ UNCHANGED <<requests, ranges, indexes, raced>>
           /\ \E a \in accounts : \E c : Checks(a, b, c)
<1>1. PICK a \in accounts :
         /\ a.id = b.id
         /\ IF b.base <= a.scan /\ a.scan < b.last
            THEN /\ accounts' = (accounts \ {a}) \cup {[a EXCEPT !.scan = b.last]}
                 /\ outputs' = outputs \cup b.found
            ELSE UNCHANGED <<accounts, outputs>>
  BY DEF CheckIn
<1>2. a \in Account /\ b.last \in Height
  BY DEF TypeInv, Batch
<1>3. a.scan \in Nat /\ b.last \in Nat
  BY <1>2, AccountFields, Heights
<1>4. CASE b.base <= a.scan /\ a.scan < b.last
  <2>1. PICK c : c = [a EXCEPT !.scan = b.last]
    OBVIOUS
  <2>2. /\ c \in Account /\ c.id = a.id /\ c.address = a.address /\ c.start = a.start
        /\ c.fail = a.fail /\ c.lookahead = a.lookahead /\ c.scan = b.last
    BY <1>2, <2>1 DEF Account
  <2>3. a.scan <= b.last
    BY <1>3, <1>4
  <2>4. Checks(a, b, c)
    BY <1>1, <1>4, <2>1, <2>2, <2>3 DEF Checks, Replaced
  <2> QED
    BY <2>4 DEF CheckIn
<1>5. CASE ~(b.base <= a.scan /\ a.scan < b.last)
  <2>1. accounts' = (accounts \ {a}) \cup {a} /\ outputs' = outputs
    BY <1>1, <1>5
  <2>2. a.scan <= a.scan
    BY <1>3
  <2>3. Checks(a, b, a)
    BY <1>1, <1>2, <2>1, <2>2 DEF Checks, Replaced
  <2> QED
    BY <2>3 DEF CheckIn
<1> QED
  BY <1>4, <1>5

\* The failure that update_lookahead notes in an account.
NotedIn(a, b, height) ==
    /\ Replaced(a, b) /\ b.start = a.start /\ b.scan = a.scan
    /\ b.lookahead = a.lookahead /\ Noted(a, b.fail, height)

\* update_lookahead replaces at most the account.
LEMMA UpdateReplaces ==
    ASSUME TypeInv, NEW a \in accounts, NEW height, NEW o, NEW u,
           UpdateDone(a, height, o, u)
    PROVE  \/ /\ u.ok /\ accounts' = accounts
              /\ Covered(u.indexes, a.id, a.address, a.lookahead, o)
           \/ \E b : NotedIn(a, b, height)
<1>1. SUFFICES ASSUME NEW x, Noted(a, x, height),
                      accounts' = (accounts \ {a}) \cup {[a EXCEPT !.fail = x]}
               PROVE  \E b : NotedIn(a, b, height)
  BY DEF UpdateDone
<1>2. a \in Account /\ x \in Height
  BY <1>1 DEF TypeInv, Noted
<1>3. PICK b : b = [a EXCEPT !.fail = x]
  OBVIOUS
<1>4. /\ b \in Account /\ b.id = a.id /\ b.address = a.address /\ b.start = a.start
      /\ b.scan = a.scan /\ b.lookahead = a.lookahead /\ b.fail = x
  BY <1>2, <1>3 DEF Account
<1>5. NotedIn(a, b, height)
  BY <1>1, <1>3, <1>4 DEF NotedIn, Replaced
<1> QED
  BY <1>5

\* A step of a scan thread, or a rollback, keeps types.
LEMMA TypeScan ==
    ASSUME TypeInv, ScanSteps
    PROVE  TypeInv'
<1>0. /\ accounts \subseteq Account /\ Numbered(accounts) /\ requests \subseteq Request
      /\ ranges \in [AccountId -> [Index -> Seq(Span)]] /\ indexes \in FiniteRows
      /\ outputs \subseteq Found /\ batches \subseteq Batch /\ \A b \in batches : Placed(b)
      /\ raced \subseteq Found
  BY DEF TypeInv
<1>1. ASSUME NEW height \in Height, RollbackAccounts(height)
      PROVE  TypeInv'
  <2>1. accounts' \subseteq Account /\ Numbered(accounts')
    BY <1>1, RolledBack
  <2>2. outputs' \subseteq outputs /\ UNCHANGED <<requests, ranges, indexes, batches, raced>>
    BY <1>1 DEF RollbackAccounts
  <2> QED
    BY <1>0, <2>1, <2>2 DEF TypeInv
<1>2. ASSUME NEW a \in accounts, Load(a)
      PROVE  TypeInv'
  <2>1. PICK b : /\ b \in Batch /\ Placed(b) /\ batches' = batches \cup {b}
                 /\ UNCHANGED <<accounts, requests, ranges, indexes, outputs, raced>>
    BY <1>2, LoadIs
  <2> QED
    BY <1>0, <2>1 DEF TypeInv
<1>3. ASSUME NEW b \in batches, ScanOutput(b)
      PROVE  TypeInv'
  <2>a1. PICK a \in accounts : \E c :
              /\ a.id = b.id /\ BatchTo(b, c)
              /\ \/ c.found = b.found /\ UNCHANGED <<accounts, ranges, indexes, raced>>
                 \/ \E o : Finds(a, b, c, o)
    BY <1>3, ScanOutputIs
  <2>1. PICK c :
              /\ a.id = b.id /\ BatchTo(b, c)
              /\ \/ c.found = b.found /\ UNCHANGED <<accounts, ranges, indexes, raced>>
                 \/ \E o : Finds(a, b, c, o)
    BY <2>a1
  <2>2. batches' \subseteq Batch /\ \A d \in batches' : Placed(d)
    BY <1>0, <2>1 DEF BatchTo
  <2>3. /\ accounts' \subseteq Account /\ Numbered(accounts')
        /\ ranges' \in [AccountId -> [Index -> Seq(Span)]] /\ indexes' \in FiniteRows
    <3>1. CASE UNCHANGED <<accounts, ranges, indexes>>
      BY <1>0, <3>1
    <3>2. ASSUME NEW o, NEW u, UpdateDone(a, b.height, o, u)
          PROVE  /\ accounts' \subseteq Account /\ Numbered(accounts')
                 /\ ranges' \in [AccountId -> [Index -> Seq(Span)]] /\ indexes' \in FiniteRows
      <4>1. a.id \in AccountId
        BY <1>0, AccountFields
      <4>2. ranges' \in [AccountId -> [Index -> Seq(Span)]] /\ indexes' \in FiniteRows
        BY <3>2, <4>1, WriteTyped DEF UpdateDone
      <4>3. accounts' = accounts \/ \E d : NotedIn(a, d, b.height)
        BY <3>2, UpdateReplaces
      <4>4. accounts' \subseteq Account /\ Numbered(accounts')
        BY <1>0, <4>3, ReplacedTyped DEF NotedIn
      <4> QED
        BY <4>2, <4>4
    <3> QED
      BY <2>1, <3>1, <3>2 DEF Finds
  <2>4. UNCHANGED <<requests, outputs>>
    BY <1>3 DEF ScanOutput
  <2>5. raced' \subseteq raced
    BY <2>1 DEF Finds
  <2> QED
    BY <1>0, <2>2, <2>3, <2>4, <2>5 DEF TypeInv
<1>4. ASSUME NEW b \in batches, CheckIn(b)
      PROVE  TypeInv'
  <2>1. /\ batches' = batches \ {b} /\ UNCHANGED <<requests, ranges, indexes, raced>>
        /\ \E a \in accounts : \E c : Checks(a, b, c)
    BY <1>4, CheckInIs
  <2>a2. PICK a \in accounts : \E c : Checks(a, b, c)
    BY <2>1
  <2>2. PICK c : Checks(a, b, c)
    BY <2>a2
  <2>3. accounts' \subseteq Account /\ Numbered(accounts')
    BY <2>2, ReplacedTyped DEF Checks
  <2>4. outputs' \subseteq Found
    <3>1. b.found \subseteq Found
      BY <1>0 DEF Batch
    <3> QED
      BY <1>0, <2>2, <3>1 DEF Checks
  <2> QED
    BY <1>0, <2>1, <2>3, <2>4 DEF TypeInv
<1>5. ASSUME NEW b \in batches, Reset(b)
      PROVE  TypeInv'
  BY <1>0, <1>5 DEF Reset, TypeInv
<1> QED
  BY <1>1, <1>2, <1>3, <1>4, <1>5 DEF ScanSteps

\* Types hold throughout.
LEMMA TypesHold == Spec => []TypeInv
<1>1. Init => TypeInv
  <2> SUFFICES ASSUME Init PROVE TypeInv
    OBVIOUS
  <2>1. Numbered({})
    <3>1. Ids({}) = 1..0 /\ Unique({})
      BY DEF Ids, Unique
    <3> QED
      BY <3>1 DEF Numbered
  <2>2. {} \in FiniteRows
    BY FS_EmptySet DEF FiniteRows
  <2>3. ranges \in [AccountId -> [Index -> Seq(Span)]]
    <3>1. <<>> \in Seq(Span)
      OBVIOUS
    <3> QED
      BY <3>1 DEF Init
  <2> QED
    BY <2>1, <2>2, <2>3 DEF Init, TypeInv
<1>2. TypeInv /\ [Next]_vars => TypeInv'
  <2> SUFFICES ASSUME TypeInv, [Next]_vars PROVE TypeInv'
    OBVIOUS
  <2>1. CASE Next
    BY <2>1, StepKinds, TypeWallet, TypeScan
  <2>2. CASE UNCHANGED vars
    BY <2>2 DEF vars, TypeInv
  <2> QED
    BY <2>1, <2>2
<1> QED
  BY <1>1, <1>2, PTL DEF Spec

\* Ids, heights, indexes and ranges keep their types; a failure is noted at a
\* height of the chain.
THEOREM TypeCorrect == Spec => []TypeOK
<1>1. TypeInv => TypeOK
  <2> SUFFICES ASSUME TypeInv PROVE TypeOK
    OBVIOUS
  <2>1. \A q \in requests : q.address \in Address /\ q.lookahead \in Lookahead
    BY DEF TypeInv, Request
  <2>2. ASSUME NEW id \in AccountId, NEW m \in Index, NEW i \in DOMAIN ranges[id][m]
        PROVE  ranges[id][m][i] \in Index \X Index
    <3>1. ranges[id][m] \in Seq(Span)
      BY DEF TypeInv
    <3>2. ranges[id][m][i] \in Span
      BY <3>1
    <3> QED
      BY <3>2 DEF Span
  <2>3. \A b \in batches : b.found \subseteq Found /\ b.base \in Height
    BY DEF TypeInv, Batch
  <2>4. indexes \subseteq Row
    BY DEF TypeInv, FiniteRows
  <2> QED
    BY <2>1, <2>2, <2>3, <2>4 DEF TypeOK, TypeInv, Row
<1> QED
  BY <1>1, TypesHold, PTL

-----------------------------------------------------------------------------
(* Rows and ranges of an id *)

\* The rows of an id are for one address only, if any.
Only(I, id, X) == \A r \in I : r.id = id => r.address = X

\* Where the rows of an id are for one address, what is listed has rows for
\* it within the limit.  An id that is not given out may have rows: they are
\* left by a creation that was refused.
Owned(R, I) ==
    \A id \in AccountId : \A X \in Address :
        Only(I, id, X) => Backs(I, R[id], id, X) /\ Limited(I, id)
OwnerInv == Owned(ranges, indexes)

\* Tables are written for an id and an address.  Rows for another address
\* make the id mixed; when there are none, nothing is listed but what has rows
\* for this address, or was listed before.
LEMMA OwnedWrite ==
    ASSUME TypeInv, OwnerInv, NEW id \in AccountId, NEW address \in Address, NEW u,
           Wrote(u, id, address), Write(id, u)
    PROVE  OwnerInv'
<1>1. /\ indexes' = u.indexes /\ ranges'[id] = u.ranges
      /\ \A i \in AccountId : i # id => ranges'[i] = ranges[i]
  BY WriteTyped
<1>2. /\ indexes \subseteq u.indexes
      /\ \A r \in u.indexes \ indexes : r.id = id /\ r.address = address
      /\ \A m \in Index : \/ u.ranges[m] = ranges[id][m]
                         \/ \A x \in Minors(u.ranges[m]) : Key(id, address, m, x) \in u.indexes
      /\ Backs(indexes, ranges[id], id, address) /\ Limited(indexes, id) =>
            Backs(u.indexes, u.ranges, id, address) /\ Limited(u.indexes, id)
  BY DEF Wrote
<1> SUFFICES ASSUME NEW i \in AccountId, NEW X \in Address, Only(u.indexes, i, X)
             PROVE  Backs(u.indexes, ranges'[i], i, X) /\ Limited(u.indexes, i)
  BY <1>1 DEF OwnerInv, Owned
<1>3. Only(indexes, i, X)
  BY <1>2 DEF Only
<1>4. Backs(indexes, ranges[i], i, X) /\ Limited(indexes, i)
  BY <1>3 DEF OwnerInv, Owned
<1>5. CASE i # id
  <2>1. OfId(u.indexes, i) = OfId(indexes, i)
    BY <1>2, <1>5 DEF OfId
  <2>2. Limited(u.indexes, i)
    BY <1>4, <2>1 DEF Limited
  <2>3. Backs(u.indexes, ranges[i], i, X)
    BY <1>2, <1>4 DEF Backs
  <2> QED
    BY <1>1, <1>5, <2>2, <2>3
<1>6. CASE i = id /\ X = address
  BY <1>1, <1>2, <1>4, <1>6
<1>7. CASE i = id /\ X # address
  <2>1. u.indexes = indexes
    <3>1. ASSUME NEW r \in u.indexes, r \notin indexes PROVE FALSE
      BY <1>2, <1>7, <3>1 DEF Only
    <3> QED
      BY <1>2, <3>1
  <2>2. \A m, x : Key(id, address, m, x) \notin u.indexes
    <3> SUFFICES ASSUME NEW m, NEW x, Key(id, address, m, x) \in u.indexes PROVE FALSE
      OBVIOUS
    <3>1. Key(id, address, m, x).id = id /\ Key(id, address, m, x).address = address
      BY DEF Key
    <3> QED
      BY <1>7, <3>1 DEF Only
  <2>3. \A m \in Index : \A x \in Minors(u.ranges[m]) : Key(id, X, m, x) \in u.indexes
    <3> SUFFICES ASSUME NEW m \in Index, NEW x \in Minors(u.ranges[m])
                 PROVE  Key(id, X, m, x) \in u.indexes
      OBVIOUS
    <3>1. u.ranges[m] = ranges[id][m]
      BY <1>2, <2>2
    <3> QED
      BY <1>4, <1>7, <2>1, <3>1 DEF Backs
  <2> QED
    BY <1>1, <1>4, <1>7, <2>1, <2>3 DEF Backs
<1> QED
  BY <1>5, <1>6, <1>7

\* OwnerInv after a step of a wallet.
LEMMA OwnerWallet ==
    ASSUME TypeInv, OwnerInv, WalletSteps
    PROVE  OwnerInv'
<1>0. \A a \in accounts : a.id \in AccountId /\ a.address \in Address
  BY AccountFields DEF TypeInv
<1>1. ASSUME UNCHANGED <<ranges, indexes>>
      PROVE  OwnerInv'
  BY <1>1 DEF OwnerInv
<1>2. ASSUME NEW a \in accounts, NEW u, Wrote(u, a.id, a.address), Write(a.id, u)
      PROVE  OwnerInv'
  BY <1>0, <1>2, OwnedWrite
<1>3. ASSUME NEW q \in requests, NEW a, CreatedBy(q, a)
      PROVE  OwnerInv'
  <2>1. NextId \in AccountId /\ q.address \in Address
    BY <1>3 DEF CreatedBy, TypeInv, Request
  <2>2. ASSUME NEW u, Wrote(u, NextId, q.address), Write(NextId, u)
        PROVE  OwnerInv'
    BY <2>1, <2>2, OwnedWrite
  <2> QED
    BY <1>1, <1>3, <2>2 DEF CreatedBy
<1>4. ASSUME NEW a \in accounts, NEW b, NEW height \in Height, Moves(a, b, height)
      PROVE  OwnerInv'
  BY <1>1, <1>2, <1>4 DEF Moves, MovedAlone, MovedAndLooked
<1>5. ASSUME NEW address \in Address, NEW height \in Height, AddAccount(address, height)
      PROVE  OwnerInv'
  BY <1>1, <1>5 DEF AddAccount
<1> QED
  BY <1>1, <1>2, <1>3, <1>4, <1>5 DEF WalletSteps, Asks, Fills, Shrinks

\* OwnerInv after a step of a scan thread or a rollback.
LEMMA OwnerScan ==
    ASSUME TypeInv, OwnerInv, ScanSteps
    PROVE  OwnerInv'
<1>1. ASSUME UNCHANGED <<ranges, indexes>>
      PROVE  OwnerInv'
  BY <1>1 DEF OwnerInv
<1>2. ASSUME NEW b \in batches, ScanOutput(b)
      PROVE  OwnerInv'
  <2>1. PICK a \in accounts : \E c :
              \/ UNCHANGED <<accounts, ranges, indexes, raced>>
              \/ \E o : Finds(a, b, c, o)
    BY <1>2, ScanOutputIs
  <2>2. \/ UNCHANGED <<ranges, indexes>>
        \/ \E o : \E u : UpdateDone(a, b.height, o, u)
    BY <2>1 DEF Finds
  <2>3. ASSUME NEW o, NEW u, UpdateDone(a, b.height, o, u)
        PROVE  OwnerInv'
    <3>1. Wrote(u, a.id, a.address) /\ Write(a.id, u)
      BY <2>3 DEF UpdateDone
    <3>2. a.id \in AccountId /\ a.address \in Address
      BY AccountFields DEF TypeInv
    <3> QED
      BY <3>1, <3>2, OwnedWrite
  <2> QED
    BY <1>1, <2>2, <2>3
<1>3. ASSUME NEW b \in batches, CheckIn(b)
      PROVE  OwnerInv'
  BY <1>1, <1>3 DEF CheckIn
<1> QED
  BY <1>1, <1>2, <1>3 DEF ScanSteps, RollbackAccounts, Load, Reset

\* OwnerInv holds throughout.
LEMMA OwnersHold == Spec => []OwnerInv
<1>1. Init => OwnerInv
  <2> SUFFICES ASSUME Init PROVE OwnerInv
    OBVIOUS
  <2>1. \A id : OfId({}, id) = {}
    BY DEF OfId
  <2>2. \A id : Limited({}, id)
    <3>1. Cardinality({}) = 0 /\ 0 <= MaxSubaddresses
      BY FS_EmptySet, Bounds
    <3> QED
      BY <2>1, <3>1 DEF Limited
  <2>3. indexes = {} /\ \A id \in AccountId : \A m \in Index : ranges[id][m] = <<>>
    BY DEF Init
  <2>4. \A id \in AccountId : \A X : Backs(indexes, ranges[id], id, X)
    BY <2>3, MinorsOne DEF Backs
  <2> QED
    BY <2>2, <2>3, <2>4 DEF OwnerInv, Owned
<1>2. TypeInv /\ OwnerInv /\ [Next]_vars => OwnerInv'
  <2> SUFFICES ASSUME TypeInv, OwnerInv, [Next]_vars PROVE OwnerInv'
    OBVIOUS
  <2>1. CASE Next
    BY <2>1, StepKinds, OwnerWallet, OwnerScan
  <2>2. CASE UNCHANGED vars
    BY <2>2 DEF vars, OwnerInv
  <2> QED
    BY <2>1, <2>2
<1> QED
  BY <1>1, <1>2, TypesHold, PTL DEF Spec

\* What OwnerInv says of an account whose id is not mixed.
LEMMA OwnersAre ==
    ASSUME TypeInv, OwnerInv, NEW a \in accounts, ~Mixed(a.id, a.address)
    PROVE  Backs(indexes, ranges[a.id], a.id, a.address) /\ Limited(indexes, a.id)
<1>1. a.id \in AccountId /\ a.address \in Address
  BY AccountFields DEF TypeInv
<1>2. Only(indexes, a.id, a.address)
  BY DEF Mixed, Only
<1> QED
  BY <1>1, <1>2 DEF OwnerInv, Owned

\* No account gets more subaddresses than --max-subaddresses allows, for any
\* ranges that wallets, lookaheads and matches ask for: check_max_range counts
\* every index that is new, however the stored ranges are cut, merged, lost in
\* a failed lookahead or extended again, unless a refused creation of another
\* address left its rows under the id.
THEOREM LimitHolds == Spec => []WithinLimit
<1>1. TypeInv /\ OwnerInv => WithinLimit
  BY OwnersAre DEF Limited, OfId, WithinLimit
<1> QED
  BY <1>1, TypesHold, OwnersHold, PTL

\* Every subaddress that is listed to a wallet is recognised by a scan, unless
\* a refused creation of another address left its rows under the id.
THEOREM ListedAreFoundHolds == Spec => []ListedAreFound
<1>1. TypeInv /\ OwnerInv => ListedAreFound
  <2> SUFFICES ASSUME TypeInv, OwnerInv, NEW a \in accounts, ~Mixed(a.id, a.address),
                      NEW w \in Listed(a)
               PROVE  w \in Findable(a)
    BY DEF ListedAreFound
  <2>1. PICK m \in Index : w \in {<<m, i>> : i \in Minors(ranges[a.id][m])}
    BY DEF Listed
  <2>2. PICK i \in Minors(ranges[a.id][m]) : w = <<m, i>>
    BY <2>1
  <2>3. Key(a.id, a.address, m, i) \in indexes
    BY <2>2, OwnersAre DEF Backs
  <2>4. PICK r \in indexes : r = Key(a.id, a.address, m, i)
    BY <2>3
  <2>5. r.id = a.id /\ r.address = a.address /\ r.major = m /\ r.minor = i
    BY <2>4 DEF Key
  <2> QED
    BY <2>2, <2>5 DEF Findable
<1> QED
  BY <1>1, TypesHold, OwnersHold, PTL

\* The tables are sound when an upsert begins.
LEMMA BeginSound ==
    ASSUME TypeInv, OwnerInv, NEW a \in accounts, ~Mixed(a.id, a.address)
    PROVE  Sound(Begin(a.id), a.id, a.address)
<1>0. a.id \in AccountId /\ indexes \in FiniteRows
  BY AccountFields DEF TypeInv
<1>1. Backs(indexes, ranges[a.id], a.id, a.address) /\ Limited(indexes, a.id)
  BY OwnersAre
<1>2. IsFiniteSet(OfId(indexes, a.id)) /\ Cardinality(OfId(indexes, a.id)) \in Nat
  BY <1>0, OfIdFinite
<1>3. Grown(OfId(indexes, a.id), Cardinality(OfId(indexes, a.id)))
  BY <1>2 DEF Grown
<1>4. /\ Begin(a.id).ranges = ranges[a.id] /\ Begin(a.id).indexes = indexes
      /\ Begin(a.id).count = Cardinality(OfId(indexes, a.id))
  BY <1>0, BeginIs
<1> QED
  BY <1>1, <1>3, <1>4 DEF Sound, Limited

\* A successful upsert, whatever is stored and whatever was asked for before,
\* adds exactly what is asked for to the ranges, and to the index rows unless
\* a refused creation of another address left its rows under the id.
THEOREM UpsertIsExact == Spec => []UpsertExact
<1>1. TypeInv /\ OwnerInv => UpsertExact
  <2> SUFFICES ASSUME TypeInv, OwnerInv, NEW a \in accounts, NEW d \in Dicts,
                      DoUpsert(a.id, a.address, d).ok
               PROVE  LET u == DoUpsert(a.id, a.address, d)
                          wanted(m) == UNION {Minors(d[i].ranges) :
                                        i \in {j \in DOMAIN d : d[j].major = m}} IN
                      /\ \A m \in Index :
                           Minors(u.ranges[m]) = Minors(ranges[a.id][m]) \cup wanted(m)
                      /\ \A r \in u.indexes \ indexes :
                           /\ r.id = a.id
                           /\ r.minor \in wanted(r.major) \/ Mixed(a.id, a.address)
    BY DEF UpsertExact
  <2> DEFINE W == WantedTo(d, Len(d))
             u == DoUpsert(a.id, a.address, d)
             wanted(m) == UNION {Minors(d[i].ranges) :
                                   i \in {j \in DOMAIN d : d[j].major = m}}
  <2>1. d \in Seq(Entry) /\ a.id \in AccountId /\ a.address \in Address
    BY DictAssumption, AccountFields DEF Entry, TypeInv
  <2>2. \A m \in Index : W[m] = wanted(m)
    <3>1. DOMAIN d = 1..Len(d)
      BY <2>1
    <3> QED
      BY <3>1 DEF WantedTo
  <2>3. /\ Wrote(u, a.id, a.address)
        /\ Lists(Begin(a.id), u, a.id, a.address, W)
        /\ Keeps(Begin(a.id), u, a.id, a.address, W)
    BY <2>1, UpsertWrites
  <2>4. u.ok
    OBVIOUS
  <2>5. Begin(a.id).ranges = ranges[a.id] /\ Begin(a.id).indexes = indexes
    BY <2>1, BeginIs
  <2> HIDE DEF W, u, wanted
  <2>6. \A m \in Index : Minors(u.ranges[m]) = Minors(ranges[a.id][m]) \cup W[m]
    BY <2>3, <2>4, <2>5 DEF Lists
  <2>7. ~Mixed(a.id, a.address) => \A r \in u.indexes \ indexes : r.minor \in W[r.major]
    BY <2>3, <2>5, BeginSound DEF Keeps
  <2>8. \A r \in u.indexes \ indexes : r.id = a.id /\ r.major \in Index
    <3>1. u.indexes \subseteq Row
      BY <2>3 DEF Wrote, FiniteRows
    <3> QED
      BY <2>3, <3>1 DEF Wrote, Row
  <2>9. \A m \in Index : Minors(u.ranges[m]) = Minors(ranges[a.id][m]) \cup wanted(m)
    BY <2>2, <2>6
  <2>10. \A r \in u.indexes \ indexes :
            r.id = a.id /\ (r.minor \in wanted(r.major) \/ Mixed(a.id, a.address))
    BY <2>2, <2>7, <2>8
  <2> QED
    BY <2>9, <2>10 DEF u, wanted
<1> QED
  BY <1>1, TypesHold, OwnersHold, PTL

-----------------------------------------------------------------------------
(* Outputs lie above the start height *)

\* Accounts start below what is scanned for them.
StartInv ==
    /\ \A a \in accounts : a.start <= a.scan
    /\ \A o \in outputs : \E a \in accounts : a.id = o.id /\ a.start < o.height
    /\ \A b \in batches : \E a \in accounts : a.id = b.id /\ a.start <= b.base

\* B has the accounts of A, which start no higher.
Lower(A, B) == \A a \in A : \E b \in B : b.id = a.id /\ b.start <= a.start

\* Outputs that are stored or come from a batch, and batches that go on or
\* begin where an account was scanned to.
LEMMA StartKept ==
    ASSUME TypeInv, TypeInv', StartInv, Lower(accounts, accounts'),
           \A b \in accounts' : b.start <= b.scan,
           \A o \in outputs' : o \in outputs \/ \E b \in batches : o \in b.found,
           \A c \in batches' : \/ \E b \in batches : b.id = c.id /\ b.base = c.base
                               \/ \E a \in accounts : a.id = c.id /\ a.scan = c.base
    PROVE  StartInv'
<1>0. /\ \A a \in accounts : a.start \in Nat /\ a.scan \in Nat /\ a.start <= a.scan
      /\ \A a \in accounts' : a.start \in Nat
      /\ \A o \in outputs' : o.height \in Nat
      /\ \A b \in batches : b.base \in Nat
      /\ \A c \in batches' : c.base \in Nat
  <2>1. accounts \subseteq Account /\ accounts' \subseteq Account /\ outputs' \subseteq Found
        /\ batches \subseteq Batch /\ batches' \subseteq Batch
    BY DEF TypeInv
  <2>2. Height \subseteq Nat
    BY Heights
  <2>3. \A o \in outputs' : o.height \in Nat
    BY <2>1, <2>2 DEF Found
  <2>4. (\A b \in batches : b.base \in Nat) /\ (\A c \in batches' : c.base \in Nat)
    BY <2>1, <2>2 DEF Batch
  <2>5. \A a \in Account : a.start \in Nat /\ a.scan \in Nat
    BY AccountFields
  <2> QED
    BY <2>1, <2>3, <2>4, <2>5 DEF StartInv
<1>1. ASSUME NEW x, NEW h \in Nat, \E a \in accounts : a.id = x /\ a.start < h
      PROVE  \E b \in accounts' : b.id = x /\ b.start < h
  <2>1. PICK a \in accounts : a.id = x /\ a.start < h
    BY <1>1
  <2>2. PICK b \in accounts' : b.id = a.id /\ b.start <= a.start
    BY DEF Lower
  <2>3. b.start < h
    BY <1>0, <2>1, <2>2
  <2> QED
    BY <2>1, <2>2, <2>3
<1>2. ASSUME NEW x, NEW h \in Nat, \E a \in accounts : a.id = x /\ a.start <= h
      PROVE  \E b \in accounts' : b.id = x /\ b.start <= h
  <2>1. PICK a \in accounts : a.id = x /\ a.start <= h
    BY <1>2
  <2>2. PICK b \in accounts' : b.id = a.id /\ b.start <= a.start
    BY DEF Lower
  <2>3. b.start <= h
    BY <1>0, <2>1, <2>2
  <2> QED
    BY <2>1, <2>2, <2>3
<1>3. ASSUME NEW o \in outputs'
      PROVE  \E a \in accounts' : a.id = o.id /\ a.start < o.height
  <2>1. CASE o \in outputs
    BY <1>0, <1>1, <2>1 DEF StartInv
  <2>2. CASE \E b \in batches : o \in b.found
    <3>1. PICK b \in batches : o \in b.found
      BY <2>2
    <3>2. o.id = b.id /\ b.base < o.height
      BY <3>1 DEF TypeInv, Placed
    <3>3. PICK a \in accounts : a.id = b.id /\ a.start <= b.base
      BY DEF StartInv
    <3>4. a.start < o.height
      BY <1>0, <3>2, <3>3
    <3> QED
      BY <1>0, <1>1, <3>2, <3>3, <3>4
  <2> QED
    BY <2>1, <2>2
<1>4. ASSUME NEW c \in batches'
      PROVE  \E a \in accounts' : a.id = c.id /\ a.start <= c.base
  <2>1. \E a \in accounts : a.id = c.id /\ a.start <= c.base
    BY <1>0 DEF StartInv
  <2> QED
    BY <1>0, <1>2, <2>1
<1> QED
  BY <1>3, <1>4 DEF StartInv

\* Accounts that stay start no higher.
LEMMA LowerStay ==
    ASSUME TypeInv, accounts \subseteq accounts'
    PROVE  Lower(accounts, accounts')
<1>1. \A a \in accounts : a.start \in Nat
  BY AccountFields DEF TypeInv
<1>2. \A a \in accounts : a.start <= a.start
  BY <1>1
<1> QED
  BY <1>2 DEF Lower

\* An account that is replaced by one that starts no higher.
LEMMA LowerReplaced ==
    ASSUME TypeInv, NEW a \in accounts, NEW b, Replaced(a, b), b.start <= a.start
    PROVE  Lower(accounts, accounts')
<1>1. \A c \in accounts : c.start \in Nat
  BY AccountFields DEF TypeInv
<1>2. \A c \in accounts : c.start <= c.start
  BY <1>1
<1>3. ASSUME NEW c \in accounts
      PROVE  \E d \in accounts' : d.id = c.id /\ d.start <= c.start
  <2>1. CASE c = a
    BY <2>1 DEF Replaced
  <2>2. CASE c # a
    <3>1. c \in accounts'
      BY <2>2 DEF Replaced
    <3> QED
      BY <1>2, <3>1
  <2> QED
    BY <2>1, <2>2
<1> QED
  BY <1>3 DEF Lower

\* StartInv after a step of a wallet.
LEMMA StartWallet ==
    ASSUME TypeInv, TypeInv', StartInv, WalletSteps
    PROVE  StartInv'
<1>0. /\ \A a \in accounts : a.start <= a.scan
      /\ \A a \in accounts : a.start \in Nat
  BY AccountFields DEF TypeInv, StartInv
<1>01. ASSUME UNCHANGED <<outputs, batches>>
       PROVE  /\ \A o \in outputs' : o \in outputs \/ \E b \in batches : o \in b.found
              /\ \A c \in batches' : \/ \E b \in batches : b.id = c.id /\ b.base = c.base
                                     \/ \E a \in accounts : a.id = c.id /\ a.scan = c.base
  BY <1>01
<1>1. ASSUME NEW address \in Address, NEW height \in Height, AddAccount(address, height)
      PROVE  StartInv'
  <2>1. PICK a : a = NewAccount(address, height)
    OBVIOUS
  <2>2. a.start = height /\ a.scan = height /\ height <= height
    <3>1. a.start = height /\ a.scan = height
      BY <1>1, <2>1, NewAccountIs DEF AddAccount
    <3> QED
      BY <3>1, Bounds DEF Height
  <2>3. accounts' = accounts \cup {a} /\ UNCHANGED <<outputs, batches>>
    BY <1>1, <2>1 DEF AddAccount
  <2>4. Lower(accounts, accounts')
    BY <2>3, LowerStay
  <2>5. \A b \in accounts' : b.start <= b.scan
    BY <1>0, <2>2, <2>3
  <2> QED
    BY <1>01, <2>3, <2>4, <2>5, StartKept
<1>2. ASSUME UNCHANGED <<accounts, outputs, batches>>
      PROVE  StartInv'
  <2>1. Lower(accounts, accounts')
    BY <1>2, LowerStay
  <2> QED
    BY <1>0, <1>01, <1>2, <2>1, StartKept
<1>3. ASSUME NEW a \in accounts, NEW b, Shrinks(a, b)
      PROVE  StartInv'
  <2>1. Lower(accounts, accounts')
    BY <1>0, <1>3, LowerReplaced DEF Shrinks
  <2>2. \A c \in accounts' : c.start <= c.scan
    BY <1>0, <1>3 DEF Shrinks, Replaced
  <2> QED
    BY <1>01, <1>3, <2>1, <2>2, StartKept DEF Shrinks
<1>4. ASSUME NEW q \in requests, NEW a, CreatedBy(q, a)
      PROVE  StartInv'
  <2>1. accounts \subseteq accounts' /\ \A b \in accounts' : b.start <= b.scan
    BY <1>0, <1>4 DEF CreatedBy
  <2>2. Lower(accounts, accounts')
    BY <2>1, LowerStay
  <2> QED
    BY <1>01, <1>4, <2>1, <2>2, StartKept DEF CreatedBy
<1>5. ASSUME NEW a \in accounts, NEW b, NEW height \in Height, Moves(a, b, height)
      PROVE  StartInv'
  <2>1. Lower(accounts, accounts')
    BY <1>5, LowerReplaced DEF Moves, Moved
  <2>2. \A c \in accounts' : c.start <= c.scan
    BY <1>0, <1>5 DEF Moves, Moved, Replaced
  <2>3. outputs' \subseteq outputs /\ UNCHANGED batches
    BY <1>5 DEF Moves, Moved
  <2> QED
    BY <2>1, <2>2, <2>3, StartKept
<1> QED
  BY <1>1, <1>2, <1>3, <1>4, <1>5 DEF WalletSteps, Asks, Fills

\* StartInv after a step of a scan thread or a rollback.
LEMMA StartScan ==
    ASSUME TypeInv, TypeInv', StartInv, ScanSteps
    PROVE  StartInv'
<1>0. /\ \A a \in accounts : a.start <= a.scan
      /\ \A a \in accounts : a.start \in Nat /\ a.scan \in Nat
  BY AccountFields DEF TypeInv, StartInv
<1>1. ASSUME NEW height \in Height, RollbackAccounts(height)
      PROVE  StartInv'
  <2>1. /\ Same(accounts, accounts')
        /\ \A b \in accounts' : \E a \in accounts :
              b.id = a.id /\ b.start <= a.start /\ (a.start <= a.scan => b.start <= b.scan)
    <3>1. Same(accounts, accounts')
      BY <1>1, RolledBack
    <3>2. \A b \in accounts' : \E a \in accounts :
              b.id = a.id /\ b.start <= a.start /\ (a.start <= a.scan => b.start <= b.scan)
      BY <1>1, RolledBack
    <3> QED
      BY <3>1, <3>2
  <2>2. Lower(accounts, accounts')
    <3> SUFFICES ASSUME NEW a \in accounts
                 PROVE  \E b \in accounts' : b.id = a.id /\ b.start <= a.start
      BY DEF Lower
    <3>1. PICK b \in accounts' : b.id = a.id
      BY <2>1 DEF Same, Has
    <3>2. PICK c \in accounts : b.id = c.id /\ b.start <= c.start
      BY <2>1
    <3>3. c = a
      BY <3>1, <3>2 DEF TypeInv, Numbered, Unique
    <3> QED
      BY <3>1, <3>2, <3>3
  <2>3. \A b \in accounts' : b.start <= b.scan
    BY <1>0, <2>1
  <2>4. outputs' \subseteq outputs /\ UNCHANGED batches
    BY <1>1 DEF RollbackAccounts
  <2> QED
    BY <2>2, <2>3, <2>4, StartKept
<1>2. ASSUME NEW a \in accounts, Load(a)
      PROVE  StartInv'
  <2>1. PICK b : /\ b.id = a.id /\ b.base = a.scan /\ batches' = batches \cup {b}
                 /\ UNCHANGED <<accounts, outputs>>
    BY <1>2, LoadIs
  <2>2. Lower(accounts, accounts')
    BY <2>1, LowerStay
  <2>3. \A c \in batches' : \/ \E d \in batches : d.id = c.id /\ d.base = c.base
                            \/ \E d \in accounts : d.id = c.id /\ d.scan = c.base
    BY <2>1
  <2> QED
    BY <1>0, <2>1, <2>2, <2>3, StartKept
<1>3. ASSUME NEW b \in batches, ScanOutput(b)
      PROVE  StartInv'
  <2>a1. PICK a \in accounts : \E c :
              /\ BatchTo(b, c)
              /\ \/ UNCHANGED <<accounts, ranges, indexes>>
                 \/ \E o : Finds(a, b, c, o)
    BY <1>3, ScanOutputIs
  <2>1. PICK c :
              /\ BatchTo(b, c)
              /\ \/ UNCHANGED <<accounts, ranges, indexes>>
                 \/ \E o : Finds(a, b, c, o)
    BY <2>a1
  <2>2. accounts' = accounts \/ \E d : NotedIn(a, d, b.height)
    BY <2>1, UpdateReplaces DEF Finds
  <2>3. Lower(accounts, accounts') /\ \A d \in accounts' : d.start <= d.scan
    <3>1. CASE accounts' = accounts
      BY <1>0, <3>1, LowerStay
    <3>2. CASE \E d : NotedIn(a, d, b.height)
      <4>1. PICK d : NotedIn(a, d, b.height)
        BY <3>2
      <4>2. Replaced(a, d) /\ d.start = a.start /\ d.scan = a.scan /\ d.start <= a.start
        BY <1>0, <4>1 DEF NotedIn
      <4>3. Lower(accounts, accounts')
        BY <4>2, LowerReplaced
      <4>4. \A e \in accounts' : e.start <= e.scan
        BY <1>0, <4>2 DEF Replaced
      <4> QED
        BY <4>3, <4>4
    <3> QED
      BY <2>2, <3>1, <3>2
  <2>4. outputs' = outputs
    BY <1>3 DEF ScanOutput
  <2>5. \A d \in batches' : \E e \in batches : e.id = d.id /\ e.base = d.base
    BY <2>1 DEF BatchTo
  <2> QED
    BY <2>3, <2>4, <2>5, StartKept
<1>4. ASSUME NEW b \in batches, CheckIn(b)
      PROVE  StartInv'
  <2>1. batches' = batches \ {b} /\ \E a \in accounts : \E c : Checks(a, b, c)
    BY <1>4, CheckInIs
  <2>a2. PICK a \in accounts : \E c : Checks(a, b, c)
    BY <2>1
  <2>2. PICK c : Checks(a, b, c)
    BY <2>a2
  <2>3. Replaced(a, c) /\ c.start = a.start /\ a.scan <= c.scan /\ c.start <= a.start
        /\ outputs' \subseteq outputs \cup b.found
    BY <1>0, <2>2 DEF Checks
  <2>4. Lower(accounts, accounts')
    BY <2>3, LowerReplaced
  <2>5. \A e \in accounts' : e.start <= e.scan
    <3>1. c.scan \in Nat
      BY <2>3, AccountFields DEF Replaced
    <3>2. c.start <= c.scan
      BY <1>0, <2>3, <3>1
    <3> QED
      BY <1>0, <2>3, <3>2 DEF Replaced
  <2>6. \A o \in outputs' : o \in outputs \/ \E d \in batches : o \in d.found
    BY <2>3
  <2>7. \A d \in batches' : \E e \in batches : e.id = d.id /\ e.base = d.base
    BY <2>1
  <2> QED
    BY <2>4, <2>5, <2>6, <2>7, StartKept
<1>5. ASSUME NEW b \in batches, Reset(b)
      PROVE  StartInv'
  <2>1. UNCHANGED <<accounts, outputs>> /\ batches' \subseteq batches
    BY <1>5 DEF Reset
  <2>2. Lower(accounts, accounts')
    BY <2>1, LowerStay
  <2> QED
    BY <1>0, <2>1, <2>2, StartKept
<1> QED
  BY <1>1, <1>2, <1>3, <1>4, <1>5 DEF ScanSteps

\* StartInv holds throughout.
LEMMA StartsHold == Spec => []StartInv
<1>1. Init => StartInv
  BY DEF Init, StartInv
<1>2. TypeInv /\ TypeInv' /\ StartInv /\ [Next]_vars => StartInv'
  <2> SUFFICES ASSUME TypeInv, TypeInv', StartInv, [Next]_vars PROVE StartInv'
    OBVIOUS
  <2>1. CASE Next
    BY <2>1, StepKinds, StartWallet, StartScan
  <2>2. CASE UNCHANGED vars
    BY <2>2 DEF vars, StartInv
  <2> QED
    BY <2>1, <2>2
<1> QED
  BY <1>1, <1>2, TypesHold, PTL DEF Spec

-----------------------------------------------------------------------------
(* The lookahead of an account *)

\* Outputs that are stored or in the hands of scan threads, and those of them
\* that were not held while the lookahead changed.
Known == outputs \cup UNION {b.found : b \in batches}
Seen == Known \ raced

\* An account covers the outputs below the height at which its lookahead is
\* noted as failed: all, when none is.
Safe(a, o, rows) ==
    Looks(a.lookahead) /\ o.id = a.id /\ IsSub(o) /\ (a.fail = 0 \/ o.height < a.fail)
        => Covered(rows, a.id, a.address, a.lookahead, o)
CoverInv == \A a \in accounts : \A o \in Seen : Safe(a, o, indexes)

\* Safety depends on these fields of the account, and stays with more rows.
LEMMA SafeSame ==
    ASSUME NEW a, NEW b, NEW o, NEW I, NEW J, I \subseteq J, Safe(a, o, I),
           b.id = a.id, b.address = a.address, b.lookahead = a.lookahead, b.fail = a.fail
    PROVE  Safe(b, o, J)
  BY CoveredMore DEF Safe

\* What is seen belongs to an account, which starts below it.
LEMMA SeenAbove ==
    ASSUME TypeInv, StartInv, NEW o \in Seen
    PROVE  o \in Found /\ \E a \in accounts : a.id = o.id /\ a.start < o.height
<1>1. CASE o \in outputs
  BY <1>1 DEF TypeInv, StartInv
<1>2. CASE o \in UNION {b.found : b \in batches}
  <2>1. PICK b \in batches : o \in b.found
    BY <1>2
  <2>2. b \in Batch /\ o.id = b.id /\ b.base < o.height
    BY <2>1 DEF TypeInv, Placed
  <2>3. o \in Found /\ b.base \in Height
    BY <2>1, <2>2 DEF Batch
  <2>4. PICK a \in accounts : a.id = b.id /\ a.start <= b.base
    BY DEF StartInv
  <2>5. a.start \in Nat /\ b.base \in Nat /\ o.height \in Nat
    BY <2>3, AccountFields, Heights DEF TypeInv, Found
  <2>6. a.start < o.height
    BY <2>2, <2>4, <2>5
  <2> QED
    BY <2>2, <2>3, <2>4, <2>6
<1> QED
  BY <1>1, <1>2 DEF Seen, Known

\* Steps that see nothing new, keep rows and leave the accounts' lookaheads.
LEMMA CoverKept ==
    ASSUME CoverInv, Seen' \subseteq Seen, indexes \subseteq indexes',
           \A b \in accounts' : \E a \in accounts :
              /\ b.id = a.id /\ b.address = a.address
              /\ b.lookahead = a.lookahead /\ b.fail = a.fail
    PROVE  CoverInv'
<1>1. ASSUME NEW b \in accounts', NEW o \in Seen'
      PROVE  Safe(b, o, indexes')
  <2>1. PICK a \in accounts : /\ b.id = a.id /\ b.address = a.address
                              /\ b.lookahead = a.lookahead /\ b.fail = a.fail
    OBVIOUS
  <2>2. Safe(a, o, indexes)
    BY DEF CoverInv
  <2> QED
    BY <2>1, <2>2, SafeSame
<1> QED
  BY <1>1 DEF CoverInv

\* A smaller sum, and a smaller sum that is clamped.
LEMMA ClampedLess ==
    ASSUME NEW a \in Nat, NEW b \in Nat, NEW c \in Nat, b <= c
    PROVE  AddAndClamp(a, b) <= AddAndClamp(a, c)
  BY Bounds DEF AddAndClamp, Smaller

\* A smaller lookahead is covered too.
LEMMA CoveredLess ==
    ASSUME NEW I, NEW id, NEW address, NEW look \in Lookahead, NEW less \in Lookahead,
           NEW o \in Found, Looks(less),
           less.major <= look.major, less.minor <= look.minor,
           Covered(I, id, address, look, o)
    PROVE  Covered(I, id, address, less, o)
<1>1. /\ look.major \in Nat /\ less.major \in Nat
      /\ look.minor \in Nat /\ less.minor \in Nat /\ less.minor > 0
      /\ o.major \in Nat /\ o.minor \in Nat
  BY IndexNat DEF Lookahead, Looks, Found
<1>2. PICK x \in Nat, y \in Nat : /\ x = less.minor - 1 /\ y = look.minor - 1 /\ x <= y
  BY <1>1
<1>3. PICK p \in Nat, q \in Nat : /\ p = AddAndClamp(o.major, less.major)
                                  /\ q = AddAndClamp(o.major, look.major) /\ p <= q
  <2>1. AddAndClamp(o.major, less.major) \in Nat /\ AddAndClamp(o.major, look.major) \in Nat
    BY <1>1, Clamped
  <2>2. AddAndClamp(o.major, less.major) <= AddAndClamp(o.major, look.major)
    BY <1>1, ClampedLess
  <2> QED
    BY <2>1, <2>2
<1>4. PICK s \in Nat, t \in Nat : /\ s = AddAndClamp(o.minor, x)
                                  /\ t = AddAndClamp(o.minor, y) /\ s <= t
  <2>1. AddAndClamp(o.minor, x) \in Nat /\ AddAndClamp(o.minor, y) \in Nat
    BY <1>1, <1>2, Clamped
  <2>2. AddAndClamp(o.minor, x) <= AddAndClamp(o.minor, y)
    BY <1>1, <1>2, ClampedLess
  <2> QED
    BY <2>1, <2>2
<1>5. \A m, i \in Index : m < q /\ i <= (IF m = o.major THEN t ELSE y)
                              => Key(id, address, m, i) \in I
  BY <1>2, <1>3, <1>4 DEF Covered
<1>6. ASSUME NEW m \in Index, NEW i \in Index, m < p, i <= IF m = o.major THEN s ELSE x
      PROVE  Key(id, address, m, i) \in I
  <2>1. m \in Nat /\ i \in Nat
    BY IndexNat
  <2>2. m < q /\ i <= IF m = o.major THEN t ELSE y
    BY <1>2, <1>3, <1>4, <1>6, <2>1
  <2> QED
    BY <1>5, <2>2
<1> QED
  BY <1>2, <1>3, <1>4, <1>6 DEF Covered

\* One account is replaced; it is safe afterwards.
LEMMA CoverReplaced ==
    ASSUME CoverInv, NEW a \in accounts, NEW b, Replaced(a, b), indexes \subseteq indexes',
           Seen' \subseteq Seen, \A o \in Seen' : Safe(b, o, indexes')
    PROVE  CoverInv'
<1>1. ASSUME NEW c \in accounts', NEW o \in Seen'
      PROVE  Safe(c, o, indexes')
  <2>1. CASE c = b
    BY <2>1
  <2>2. CASE c # b
    <3>1. c \in accounts /\ o \in Seen
      BY <2>2 DEF Replaced
    <3> QED
      BY <3>1, SafeSame DEF CoverInv
  <2> QED
    BY <2>1, <2>2
<1> QED
  BY <1>1 DEF CoverInv

\* Rows that are written are more rows.
LEMMA RowsGrow ==
    ASSUME NEW u, NEW id, NEW i, NEW address, Wrote(u, id, address), Write(i, u)
    PROVE  indexes \subseteq indexes'
  BY DEF Wrote, Write

\* CoverInv when an account is added, of which nothing has been seen.
LEMMA CoverAdded ==
    ASSUME TypeInv, StartInv, CoverInv, NEW a, a.id = NextId,
           accounts' \subseteq accounts \cup {a}, Seen' \subseteq Seen,
           indexes \subseteq indexes'
    PROVE  CoverInv'
<1>1. \A o \in Seen : o.id # a.id
  BY SeenAbove, NextIdIsNew DEF TypeInv
<1>2. ASSUME NEW c \in accounts', NEW o \in Seen'
      PROVE  Safe(c, o, indexes')
  <2>1. CASE c = a
    BY <1>1, <2>1 DEF Safe
  <2>2. CASE c # a
    <3>1. c \in accounts /\ o \in Seen
      BY <2>2
    <3> QED
      BY <3>1, SafeSame DEF CoverInv
  <2> QED
    BY <2>1, <2>2
<1> QED
  BY <1>2 DEF CoverInv

\* CoverInv when heights change.  What scan threads hold of the account is
\* left out from now on, unless its lookahead and failure stay as they are.
LEMMA CoverMoved ==
    ASSUME TypeInv, TypeInv', StartInv, CoverInv, NEW a \in accounts, NEW b,
           NEW height \in Height, Moves(a, b, height)
    PROVE  CoverInv'
<1>1. /\ outputs' \subseteq outputs /\ batches' = batches /\ raced \subseteq raced'
      /\ \/ b.lookahead = a.lookahead /\ b.fail = a.fail
         \/ Held(a.id) \subseteq raced'
  BY DEF Moves, Moved
<1>2. Replaced(a, b) /\ b.start <= a.start /\ b \in Account /\ a \in Account
  BY DEF Moves, Moved, Replaced, TypeInv
<1>3. /\ a.start \in Nat /\ a.fail \in Nat /\ b.start \in Nat /\ b.fail \in Nat
      /\ height \in Nat /\ b.start \in Height
  BY <1>2, AccountFields, Heights
<1>4. \A o \in outputs' : /\ o \in Found /\ o.height \in Nat
                          /\ o.id = a.id => o.height < height
  <2>1. \A o \in outputs' : o \in Found
    BY DEF TypeInv
  <2>2. \A o \in Found : o.height \in Nat
    BY Heights DEF Found
  <2>3. \A o \in outputs' : o.id = a.id => o.height < height
    BY DEF Moves, Moved
  <2> QED
    BY <2>1, <2>2, <2>3
<1>0. Seen' \subseteq Seen
  BY <1>1 DEF Seen, Known
<1>5. ASSUME NEW o \in Seen, o \in outputs', MovedAlone(a, b, height)
      PROVE  Safe(b, o, indexes')
  <2> SUFFICES ASSUME Looks(b.lookahead), o.id = b.id, IsSub(o), b.fail = 0 \/ o.height < b.fail
               PROVE  Covered(indexes', b.id, b.address, b.lookahead, o)
    BY DEF Safe
  <2>1. /\ b.lookahead = a.lookahead /\ indexes' = indexes
        /\ b.fail = a.fail \/ (b.fail = 0 /\ height <= a.fail)
    BY <1>5 DEF MovedAlone
  <2>2. b.id = a.id /\ b.address = a.address
    BY <1>2 DEF Replaced
  <2>3. o.height < height /\ o.height \in Nat
    BY <1>4, <1>5, <2>2
  <2>4. a.fail = 0 \/ o.height < a.fail
    <3>1. CASE b.fail = a.fail
      BY <3>1
    <3>2. CASE height <= a.fail
      BY <1>3, <2>3, <3>2
    <3> QED
      BY <2>1, <3>1, <3>2
  <2>5. Safe(a, o, indexes)
    BY <1>5 DEF CoverInv
  <2> QED
    BY <2>1, <2>2, <2>4, <2>5 DEF Safe
<1>6. ASSUME NEW o \in Seen, o \in outputs', NEW u, MovedAndLooked(a, b, u)
      PROVE  Safe(b, o, indexes')
  <2> SUFFICES ASSUME Looks(b.lookahead), o.id = b.id, IsSub(o), b.fail = 0 \/ o.height < b.fail
               PROVE  Covered(indexes', b.id, b.address, b.lookahead, o)
    BY DEF Safe
  <2>1. b.id = a.id /\ b.address = a.address /\ indexes' = u.indexes
    BY <1>2, <1>6 DEF Replaced, MovedAndLooked, Write
  <2>2. CASE Looks(b.lookahead) =>
                \A p \in outputs' : p.id = a.id /\ IsSub(p) =>
                    Covered(u.indexes, a.id, a.address, b.lookahead, p)
    BY <1>6, <2>1, <2>2
  <2>3. CASE b.fail = Larger(1, b.start)
    <3>1. PICK d \in accounts : d.id = o.id /\ d.start < o.height
      BY <1>6, SeenAbove
    <3>2. d = a
      BY <2>1, <3>1 DEF TypeInv, Numbered, Unique
    <3>3. o.height \in Nat /\ b.start < o.height
      BY <1>2, <1>3, <1>4, <1>6, <3>1, <3>2
    <3>4. b.fail <= o.height /\ b.fail # 0
      BY <1>3, <2>3, <3>3 DEF Larger
    <3> QED
      BY <1>3, <3>3, <3>4
  <2> QED
    BY <1>6, <2>2, <2>3 DEF MovedAndLooked
<1>7. indexes \subseteq indexes'
  <2>1. ASSUME NEW u, MovedAndLooked(a, b, u)
        PROVE  indexes \subseteq indexes'
    BY <2>1, RowsGrow DEF MovedAndLooked
  <2> QED
    BY <2>1 DEF Moves, MovedAlone
<1>8. ASSUME NEW o \in Seen'
      PROVE  Safe(b, o, indexes')
  <2>1. o \in Seen /\ o \notin raced' /\ b.id = a.id /\ b.address = a.address
    BY <1>0, <1>2 DEF Seen, Known, Replaced
  <2>2. CASE o \in outputs'
    BY <1>5, <1>6, <2>1, <2>2 DEF Moves
  <2>3. CASE o \notin outputs' /\ o.id = a.id
    <3>1. PICK c \in batches : o \in c.found
      BY <1>1, <2>3 DEF Seen, Known
    <3>2. c.id = a.id
      BY <2>3, <3>1 DEF TypeInv, Placed
    <3>3. o \in Held(a.id)
      BY <3>1, <3>2 DEF Held
    <3>4. b.lookahead = a.lookahead /\ b.fail = a.fail
      BY <1>1, <2>1, <3>3
    <3>5. Safe(a, o, indexes)
      BY <2>1 DEF CoverInv
    <3> QED
      BY <1>7, <2>1, <3>4, <3>5, SafeSame
  <2>4. CASE o.id # a.id
    BY <2>1, <2>4 DEF Safe
  <2> QED
    BY <2>2, <2>3, <2>4
<1> QED
  BY <1>0, <1>2, <1>7, <1>8, CoverReplaced

\* CoverInv after a step of a wallet.
LEMMA CoverWallet ==
    ASSUME TypeInv, TypeInv', StartInv, CoverInv, WalletSteps
    PROVE  CoverInv'
<1>0. ASSUME UNCHANGED <<outputs, batches, raced>>
      PROVE  Seen' \subseteq Seen
  BY <1>0 DEF Seen, Known
<1>1. ASSUME NEW address \in Address, NEW height \in Height, AddAccount(address, height)
      PROVE  CoverInv'
  <2>1. PICK a : a = NewAccount(address, height)
    OBVIOUS
  <2>2. a.id = NextId
    BY <1>1, <2>1, NewAccountIs DEF AddAccount
  <2>3. accounts' = accounts \cup {a} /\ UNCHANGED <<indexes, outputs, batches, raced>>
    BY <1>1, <2>1 DEF AddAccount
  <2> QED
    BY <1>0, <2>2, <2>3, CoverAdded
<1>2. ASSUME UNCHANGED <<accounts, outputs, batches, raced>>, indexes \subseteq indexes'
      PROVE  CoverInv'
  BY <1>0, <1>2, CoverKept
<1>3. ASSUME NEW a \in accounts, NEW u, Fills(a, u)
      PROVE  CoverInv'
  BY <1>2, <1>3, RowsGrow DEF Fills
<1>4. ASSUME NEW a \in accounts, NEW b, Shrinks(a, b)
      PROVE  CoverInv'
  <2>1. Seen' \subseteq Seen /\ indexes' = indexes
    BY <1>0, <1>4 DEF Shrinks
  <2>2. ASSUME NEW o \in Seen'
        PROVE  Safe(b, o, indexes')
    <3> SUFFICES ASSUME Looks(b.lookahead), o.id = b.id, IsSub(o), b.fail = 0 \/ o.height < b.fail
                 PROVE  Covered(indexes, b.id, b.address, b.lookahead, o)
      BY <2>1 DEF Safe
    <3>1. /\ b.id = a.id /\ b.address = a.address /\ b.fail = a.fail
          /\ b.lookahead.major <= a.lookahead.major /\ b.lookahead.minor <= a.lookahead.minor
          /\ a \in Account /\ b \in Account
      BY <1>4 DEF Shrinks, Replaced, TypeInv
    <3>2. a.lookahead \in Lookahead /\ b.lookahead \in Lookahead /\ o \in Found
      BY <2>1, <3>1, AccountFields, SeenAbove
    <3>3. Looks(a.lookahead)
      <4>1. /\ a.lookahead.major \in Nat /\ a.lookahead.minor \in Nat
            /\ b.lookahead.major \in Nat /\ b.lookahead.minor \in Nat
        BY <3>2, IndexNat DEF Lookahead
      <4> QED
        BY <3>1, <4>1 DEF Looks
    <3>4. Covered(indexes, a.id, a.address, a.lookahead, o)
      BY <2>1, <3>1, <3>3 DEF CoverInv, Safe
    <3>5. Covered(indexes, a.id, a.address, b.lookahead, o)
      BY <3>1, <3>2, <3>4, CoveredLess
    <3> QED
      BY <3>1, <3>5
  <2> QED
    BY <1>4, <2>1, <2>2, CoverReplaced DEF Shrinks
<1>5. ASSUME NEW q \in requests, NEW a, CreatedBy(q, a)
      PROVE  CoverInv'
  <2>1. /\ a.id = NextId /\ accounts' \subseteq accounts \cup {a}
        /\ UNCHANGED <<outputs, batches, raced>>
    BY <1>5 DEF CreatedBy
  <2>2. indexes \subseteq indexes'
    BY <1>5, RowsGrow DEF CreatedBy
  <2> QED
    BY <1>0, <2>1, <2>2, CoverAdded
<1>6. ASSUME NEW a \in accounts, NEW b, NEW height \in Height, Moves(a, b, height)
      PROVE  CoverInv'
  BY <1>6, CoverMoved
<1> QED
  BY <1>1, <1>2, <1>3, <1>4, <1>5, <1>6 DEF WalletSteps, Asks

\* CoverInv when a scan finds an output.
LEMMA CoverFound ==
    ASSUME TypeInv, TypeInv', StartInv, CoverInv, NEW a \in accounts, NEW b \in batches,
           NEW o, NEW u, UpdateDone(a, b.height, o, u),
           o \in Found, o.id = a.id, o.height = b.height, Seen' \subseteq Seen \cup {o}
    PROVE  CoverInv'
<1>1. Wrote(u, a.id, a.address) /\ Write(a.id, u)
  BY DEF UpdateDone
<1>2. indexes \subseteq indexes' /\ indexes' = u.indexes
  BY <1>1, RowsGrow DEF Write
<1>3. \A c \in accounts : \A p \in Seen : Safe(c, p, indexes')
  BY <1>2, SafeSame DEF CoverInv
<1>4. \A c \in accounts : c # a => c.id # o.id
  BY DEF TypeInv, Numbered, Unique
<1>5. \A c \in accounts : c # a => Safe(c, o, indexes')
  BY <1>4 DEF Safe
<1>6. CASE /\ accounts' = accounts
           /\ Covered(u.indexes, a.id, a.address, a.lookahead, o)
  <2>1. Safe(a, o, indexes')
    BY <1>2, <1>6 DEF Safe
  <2> QED
    BY <1>3, <1>5, <1>6, <2>1 DEF CoverInv
<1>7. ASSUME NEW d, NotedIn(a, d, b.height)
      PROVE  CoverInv'
  <2>1. /\ Replaced(a, d) /\ d.lookahead = a.lookahead /\ d.id = a.id /\ d.address = a.address
        /\ 1 <= d.fail /\ d.fail <= b.height /\ (a.fail # 0 => d.fail <= a.fail)
    BY <1>7 DEF NotedIn, Noted, Replaced
  <2>2. /\ d.fail \in Nat /\ a.fail \in Nat /\ b.height \in Nat
        /\ \A p \in Found : p.height \in Nat
    <3>1. d \in Account /\ a \in Account /\ b \in Batch
      BY <2>1 DEF Replaced, TypeInv
    <3>2. b.height \in Nat
      BY <3>1, Bounds DEF Batch, Height
    <3>3. \A p \in Found : p.height \in Nat
      BY Heights DEF Found
    <3> QED
      BY <3>1, <3>2, <3>3, AccountFields
  <2>3. ASSUME NEW p \in Seen
        PROVE  Safe(d, p, indexes')
    <3>1. p.height \in Nat
      BY <2>2, SeenAbove
    <3>2. p.height < d.fail => a.fail = 0 \/ p.height < a.fail
      BY <2>1, <2>2, <3>1
    <3>3. d.fail # 0
      BY <2>1, <2>2
    <3> QED
      BY <1>3, <2>1, <3>2, <3>3 DEF Safe
  <2>4. Safe(d, o, indexes')
    <3>1. ~(d.fail = 0 \/ o.height < d.fail)
      BY <2>1, <2>2
    <3> QED
      BY <3>1 DEF Safe
  <2>5. ASSUME NEW c \in accounts', NEW p \in Seen'
        PROVE  Safe(c, p, indexes')
    <3>1. CASE c = d
      BY <2>3, <2>4, <3>1
    <3>2. CASE c # d
      <4>1. c \in accounts /\ c # a
        BY <2>1, <3>2 DEF Replaced
      <4> QED
        BY <1>3, <1>5, <4>1
    <3> QED
      BY <3>1, <3>2
  <2> QED
    BY <2>5 DEF CoverInv
<1> QED
  BY <1>6, <1>7, UpdateReplaces

\* CoverInv after a step of a scan thread or a rollback.
LEMMA CoverScan ==
    ASSUME TypeInv, TypeInv', StartInv, CoverInv, ScanSteps
    PROVE  CoverInv'
<1>1. ASSUME NEW height \in Height, RollbackAccounts(height)
      PROVE  CoverInv'
  <2>1. \A b \in accounts' : \E a \in accounts :
            /\ b.id = a.id /\ b.address = a.address
            /\ b.lookahead = a.lookahead /\ b.fail = a.fail
    BY <1>1, RolledBack
  <2>2. Seen' \subseteq Seen /\ indexes' = indexes
    BY <1>1 DEF RollbackAccounts, Seen, Known
  <2> QED
    BY <2>1, <2>2, CoverKept
<1>2. ASSUME NEW a \in accounts, Load(a)
      PROVE  CoverInv'
  <2>1. PICK b : /\ b.found = {} /\ batches' = batches \cup {b}
                 /\ UNCHANGED <<accounts, indexes, outputs, raced>>
    BY <1>2, LoadIs
  <2>2. Seen' \subseteq Seen
    BY <2>1 DEF Seen, Known
  <2> QED
    BY <2>1, <2>2, CoverKept
<1>3. ASSUME NEW b \in batches, ScanOutput(b)
      PROVE  CoverInv'
  <2>a1. PICK a \in accounts : \E c :
              /\ a.id = b.id /\ BatchTo(b, c)
              /\ \/ c.found = b.found /\ UNCHANGED <<accounts, ranges, indexes, raced>>
                 \/ \E o : Finds(a, b, c, o)
    BY <1>3, ScanOutputIs
  <2>1. PICK c :
              /\ a.id = b.id /\ BatchTo(b, c)
              /\ \/ c.found = b.found /\ UNCHANGED <<accounts, ranges, indexes, raced>>
                 \/ \E o : Finds(a, b, c, o)
    BY <2>a1
  <2>2. outputs' = outputs /\ batches' = (batches \ {b}) \cup {c}
    BY <1>3, <2>1 DEF ScanOutput, BatchTo
  <2>3. Known' \subseteq Known \cup c.found
    BY <2>2 DEF Known
  <2>4. b.found \subseteq Known
    BY DEF Known
  <2>5. CASE c.found = b.found /\ UNCHANGED <<accounts, ranges, indexes, raced>>
    <3>1. Seen' \subseteq Seen
      BY <2>3, <2>4, <2>5 DEF Seen
    <3> QED
      BY <2>5, <3>1, CoverKept
  <2>6. ASSUME NEW o, Finds(a, b, c, o)
        PROVE  CoverInv'
    <3>1. /\ c.found = b.found \cup {o} /\ o \in Found /\ o.id = a.id /\ o.height = b.height
          /\ raced' = raced \ {o}
          /\ \/ /\ UNCHANGED <<accounts, ranges, indexes>>
                /\ ~IsSub(o) \/ ~Looks(a.lookahead)
             \/ \E u : UpdateDone(a, b.height, o, u)
      BY <2>6 DEF Finds
    <3>2. Seen' \subseteq Seen \cup {o}
      BY <2>3, <2>4, <3>1 DEF Seen
    <3>3. CASE UNCHANGED <<accounts, ranges, indexes>> /\ (~IsSub(o) \/ ~Looks(a.lookahead))
      <4>1. ASSUME NEW d \in accounts PROVE Safe(d, o, indexes)
        <5>1. d = a \/ d.id # o.id
          BY <3>1 DEF TypeInv, Numbered, Unique
        <5> QED
          BY <3>3, <5>1 DEF Safe
      <4> QED
        BY <3>2, <3>3, <4>1 DEF CoverInv
    <3>4. ASSUME NEW u, UpdateDone(a, b.height, o, u)
          PROVE  CoverInv'
      BY <3>1, <3>2, <3>4, CoverFound
    <3> QED
      BY <3>1, <3>3, <3>4
  <2> QED
    BY <2>1, <2>5, <2>6
<1>4. ASSUME NEW b \in batches, CheckIn(b)
      PROVE  CoverInv'
  <2>1. /\ batches' = batches \ {b} /\ indexes' = indexes /\ raced' = raced
        /\ \E a \in accounts : \E c : Checks(a, b, c)
    BY <1>4, CheckInIs
  <2>a2. PICK a \in accounts : \E c : Checks(a, b, c)
    BY <2>1
  <2>2. PICK c : Checks(a, b, c)
    BY <2>a2
  <2>3. /\ Replaced(a, c) /\ c.fail = a.fail /\ c.lookahead = a.lookahead
        /\ outputs' \subseteq outputs \cup b.found
    BY <2>2 DEF Checks
  <2>4. Seen' \subseteq Seen
    BY <2>1, <2>3 DEF Seen, Known
  <2>5. \A d \in accounts' : \E e \in accounts :
            /\ d.id = e.id /\ d.address = e.address
            /\ d.lookahead = e.lookahead /\ d.fail = e.fail
    BY <2>3 DEF Replaced
  <2> QED
    BY <2>1, <2>4, <2>5, CoverKept
<1>5. ASSUME NEW b \in batches, Reset(b)
      PROVE  CoverInv'
  <2>1. UNCHANGED <<accounts, indexes, outputs, raced>> /\ batches' \subseteq batches
    BY <1>5 DEF Reset
  <2>2. Seen' \subseteq Seen
    BY <2>1 DEF Seen, Known
  <2> QED
    BY <2>1, <2>2, CoverKept
<1> QED
  BY <1>1, <1>2, <1>3, <1>4, <1>5 DEF ScanSteps

\* CoverInv holds throughout.
LEMMA CoversHold == Spec => []CoverInv
<1>1. Init => CoverInv
  BY DEF Init, CoverInv
<1>2. TypeInv /\ TypeInv' /\ StartInv /\ CoverInv /\ [Next]_vars => CoverInv'
  <2> SUFFICES ASSUME TypeInv, TypeInv', StartInv, CoverInv, [Next]_vars PROVE CoverInv'
    OBVIOUS
  <2>1. CASE Next
    BY <2>1, StepKinds, CoverWallet, CoverScan
  <2>2. CASE UNCHANGED vars
    BY <2>2 DEF vars, CoverInv, Seen, Known
  <2> QED
    BY <2>1, <2>2
<1> QED
  BY <1>1, <1>2, TypesHold, StartsHold, PTL DEF Spec

\* What is covered can be found.
LEMMA CoveredIsFound ==
    ASSUME NEW a, NEW o, Covered(indexes, a.id, a.address, a.lookahead, o)
    PROVE  Window(a, o) \subseteq Findable(a)
<1> SUFFICES ASSUME NEW w \in Window(a, o) PROVE w \in Findable(a)
  OBVIOUS
<1>1. PICK m \in Index, x \in Index : w = <<m, x>>
  BY DEF Window
<1>2. Key(a.id, a.address, m, x) \in indexes
  BY <1>1 DEF Window, Covered
<1>3. PICK r : r = Key(a.id, a.address, m, x)
  OBVIOUS
<1>4. r.id = a.id /\ r.address = a.address /\ r.major = m /\ r.minor = x
  BY <1>3 DEF Key
<1> QED
  BY <1>1, <1>2, <1>3, <1>4 DEF Findable

\* update_lookahead, do_lookahead and shrink_lookahead leave no hole: an
\* account whose lookahead is not reported as failed recognises every
\* subaddress within its lookahead of each of its outputs.  This holds for all
\* limits, ranges, payments and requests, and whatever rescans and imports do
\* during a scan to other outputs than those that the scan has found by then.
THEOREM LookaheadCoversHolds == Spec => []LookaheadCovers
<1>1. CoverInv => LookaheadCovers
  <2> SUFFICES ASSUME CoverInv, NEW a \in accounts, a.fail = 0, a.lookahead.major > 0,
                      a.lookahead.minor > 0, NEW o \in outputs \ raced, o.id = a.id,
                      o.major # 0 \/ o.minor # 0
               PROVE  Window(a, o) \subseteq Findable(a)
    BY DEF LookaheadCovers
  <2>1. Covered(indexes, a.id, a.address, a.lookahead, o)
    BY DEF CoverInv, Seen, Known, Safe, Looks, IsSub
  <2> QED
    BY <2>1, CoveredIsFound
<1> QED
  BY <1>1, CoversHold, PTL
=============================================================================
