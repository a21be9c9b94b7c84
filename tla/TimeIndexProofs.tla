--------------------------- MODULE TimeIndexProofs ---------------------------
(***************************************************************************)
(* What the operators of TimeIndex do to any index.                        *)
(*                                                                         *)
(* insertDatablock is recursive.  The lemmas below give what one call of   *)
(* it can do, that it ends, what it keeps and what it reaches; with those  *)
(* no other proof unfolds it.                                              *)
(***************************************************************************)
EXTENDS TimeIndex, SequenceTheorems, FiniteSetTheorems, Recursion

-----------------------------------------------------------------------------
\* A set of natural numbers that is not empty has a least element.
LEMMA MinOfNats ==
    ASSUME NEW S, S \subseteq Nat, S # {}
    PROVE  Min(S) \in S /\ \A x \in S : Min(S) <= x
<1> DEFINE id == [n \in S |-> n]
<1>1. \A x \in S : id[x] \in Nat
  OBVIOUS
<1>2. \E x \in S : \A y \in S : id[x] <= id[y]
  <2> HIDE DEF id
  <2> QED
    BY <1>1, LeastMeasure
<1>3. PICK x \in S : \A y \in S : x <= y
  BY <1>2
<1> QED
  BY <1>3 DEF Min

-----------------------------------------------------------------------------
(* The time index.  What each step of insertDatablock does to the records. *)

\* The records before the insertion point end at or before the new range.
LEMMA PointFacts ==
    ASSUME NEW idx \in Seq(Record), NEW n0 \in Time
    PROVE  /\ InsertionPoint(idx, n0) \in 1 .. Len(idx) + 1
           /\ \A k \in 1 .. Len(idx) : k < InsertionPoint(idx, n0) => idx[k].e <= n0
           /\ InsertionPoint(idx, n0) <= Len(idx) => idx[InsertionPoint(idx, n0)].e > n0
<1> DEFINE beyond == {i \in 1 .. Len(idx) : idx[i].e > n0}
<1>1. n0 \in Nat /\ \A k \in 1 .. Len(idx) : idx[k].e \in Nat
  <2>1. \A k \in 1 .. Len(idx) : idx[k] \in Record
    OBVIOUS
  <2> QED
    BY <2>1, TimeAssumption DEF Record
<1>2. CASE beyond = {}
  <2>1. InsertionPoint(idx, n0) = Len(idx) + 1
    BY <1>2 DEF InsertionPoint
  <2>2. \A k \in 1 .. Len(idx) : idx[k].e <= n0
    BY <1>1, <1>2
  <2> HIDE DEF beyond
  <2> QED
    BY <2>1, <2>2
<1>3. CASE beyond # {}
  <2>1. beyond \subseteq Nat
    OBVIOUS
  <2>2. Min(beyond) \in beyond /\ \A x \in beyond : Min(beyond) <= x
    <3> HIDE DEF beyond
    <3> QED
      BY <1>3, <2>1, MinOfNats
  <2>3. InsertionPoint(idx, n0) = Min(beyond)
    BY <1>3 DEF InsertionPoint
  <2>4. \A k \in 1 .. Len(idx) : k < Min(beyond) => k \notin beyond
    <3> TAKE k \in 1 .. Len(idx)
    <3>1. Min(beyond) \in Nat /\ k \in Nat
      BY <2>1, <2>2
    <3> QED
      BY <2>2, <3>1
  <2> QED
    BY <1>1, <2>2, <2>3, <2>4
<1> QED
  BY <1>2, <1>3

\* The record x at place i of a sequence, and the rest moved up.
Placed(s, i, x, t) ==
    /\ Len(t) = Len(s) + 1
    /\ \A k \in 1 .. Len(s) : k < i => t[k] = s[k]
    /\ t[i] = x
    /\ \A k \in 1 .. Len(s) : k >= i => t[k + 1] = s[k]

LEMMA InsertAtPlaces ==
    ASSUME NEW S, NEW s \in Seq(S), NEW i \in 1 .. Len(s) + 1, NEW x \in S
    PROVE  InsertAt(s, i, x) \in Seq(S) /\ Placed(s, i, x, InsertAt(s, i, x))
<1> DEFINE a == SubSeq(s, 1, i - 1)
           c == SubSeq(s, i, Len(s))
           t == a \o <<x>> \o c
<1>1. /\ Len(s) \in Nat /\ i \in Nat /\ a \in Seq(S) /\ c \in Seq(S)
      /\ Len(a) = i - 1 /\ Len(c) = Len(s) + 1 - i
      /\ \A k \in 1 .. i - 1 : a[k] = s[k]
      /\ \A k \in 1 .. Len(s) + 1 - i : c[k] = s[i + k - 1]
  OBVIOUS
<1> HIDE DEF a, c
<1>2. a \o <<x>> \in Seq(S) /\ Len(a \o <<x>>) = i
      /\ (\A k \in 1 .. i - 1 : (a \o <<x>>)[k] = a[k]) /\ (a \o <<x>>)[i] = x
  BY <1>1
<1>3. t \in Seq(S) /\ Len(t) = Len(s) + 1
  BY <1>1, <1>2
<1>4. \A k \in 1 .. i : t[k] = (a \o <<x>>)[k]
  BY <1>1, <1>2
<1>5. \A k \in 1 .. Len(s) : k >= i => t[k + 1] = s[k]
  <2> TAKE k \in 1 .. Len(s)
  <2> HAVE k >= i
  <2>1. t[k + 1] = c[k + 1 - i]
    <3>1. PICK u \in Seq(S) : u = a \o <<x>>
      BY <1>2
    <3>2. Len(u) = i /\ k + 1 - i \in 1 .. Len(c) /\ Len(u) + (k + 1 - i) = k + 1
      <4>1. Len(u) = i
        BY <1>2, <3>1
      <4> QED
        BY <1>1, <4>1
    <3>3. \A j \in 1 .. Len(c) : (u \o c)[Len(u) + j] = c[j]
      BY <1>1
    <3> QED
      BY <3>1, <3>2, <3>3
  <2>2. k + 1 - i \in 1 .. Len(s) + 1 - i /\ i + (k + 1 - i) - 1 = k
    BY <1>1
  <2> QED
    BY <1>1, <2>1, <2>2
<1>6. \A k \in 1 .. Len(s) : k < i => t[k] = s[k]
  <2> TAKE k \in 1 .. Len(s)
  <2> HAVE k < i
  <2>1. k \in 1 .. i - 1 /\ k \in 1 .. i
    BY <1>1
  <2>2. t[k] = (a \o <<x>>)[k]
    BY <1>4, <2>1
  <2> QED
    BY <1>1, <1>2, <2>1, <2>2
<1>7. t[i] = x
  <2>1. i \in 1 .. i
    BY <1>1
  <2>2. t[i] = (a \o <<x>>)[i]
    BY <1>4, <2>1
  <2> QED
    BY <1>2, <2>2
<1>8. InsertAt(s, i, x) = t
  BY DEF InsertAt, a, c
<1> HIDE DEF t
<1> QED
  BY <1>3, <1>5, <1>6, <1>7, <1>8 DEF Placed

Ending(x, cut) == [x EXCEPT !.e = cut]
Starting(x, cut) == [x EXCEPT !.s = cut]

LEMMA CutRecord ==
    ASSUME NEW x \in Record, NEW cut \in Time
    PROVE  /\ Ending(x, cut) \in Record /\ Ending(x, cut).s = x.s
           /\ Ending(x, cut).e = cut /\ Ending(x, cut).blocks = x.blocks
           /\ Starting(x, cut) \in Record /\ Starting(x, cut).s = cut
           /\ Starting(x, cut).e = x.e /\ Starting(x, cut).blocks = x.blocks
BY DEF Ending, Starting, Record

\* Record i of s is two in t, which meet at the cut.
Parted(s, i, cut, t) ==
    /\ Len(t) = Len(s) + 1
    /\ \A k \in 1 .. Len(s) : k < i => t[k] = s[k]
    /\ t[i] = Ending(s[i], cut) /\ t[i + 1] = Starting(s[i], cut)
    /\ \A k \in 1 .. Len(s) : k > i => t[k + 1] = s[k]

LEMMA SplitParts ==
    ASSUME NEW idx \in Seq(Record), NEW i \in 1 .. Len(idx), NEW cut \in Time
    PROVE  /\ SplitRecord(idx, i, cut) \in Seq(Record)
           /\ Parted(idx, i, cut, SplitRecord(idx, i, cut))
<1> DEFINE s == [idx EXCEPT ![i].e = cut]
           x == Starting(idx[i], cut)
<1>1. idx[i] \in Record /\ Ending(idx[i], cut) \in Record /\ x \in Record
  BY CutRecord
<1>2. s = [idx EXCEPT ![i] = Ending(idx[i], cut)]
  BY DEF Ending
<1>3. /\ s \in Seq(Record) /\ Len(s) = Len(idx) /\ s[i] = Ending(idx[i], cut)
      /\ \A k \in 1 .. Len(idx) : k # i => s[k] = idx[k]
  <2> HIDE DEF s
  <2> QED
    BY <1>1, <1>2
<1>4. SplitRecord(idx, i, cut) = InsertAt(s, i + 1, x)
  BY DEF SplitRecord, Starting
<1> HIDE DEF s, x
<1>5. i + 1 \in 1 .. Len(s) + 1
  BY <1>3
<1>6. InsertAt(s, i + 1, x) \in Seq(Record) /\ Placed(s, i + 1, x, InsertAt(s, i + 1, x))
  BY <1>1, <1>3, <1>5, InsertAtPlaces
<1>7. ASSUME NEW t, Placed(s, i + 1, x, t) PROVE Parted(idx, i, cut, t)
  <2>1. Len(t) = Len(idx) + 1 /\ t[i + 1] = x
    BY <1>3, <1>7 DEF Placed
  <2>2. \A k \in 1 .. Len(idx) : k <= i => t[k] = s[k]
    BY <1>3, <1>7 DEF Placed
  <2>3. \A k \in 1 .. Len(idx) : k > i => t[k + 1] = s[k]
    BY <1>3, <1>7 DEF Placed
  <2> QED
    BY <1>3, <2>1, <2>2, <2>3 DEF Parted, x
<1> QED
  BY <1>4, <1>6, <1>7

\* The chain of record i of s has the block b in t, at its end if it is new.
Chained(s, i, b, t) ==
    /\ Len(t) = Len(s)
    /\ \A k \in 1 .. Len(s) : k # i => t[k] = s[k]
    /\ t[i] \in Record /\ t[i].s = s[i].s /\ t[i].e = s[i].e
    /\ \/ t[i].blocks = s[i].blocks /\ b \in ToSet(s[i].blocks)
       \/ b \notin ToSet(s[i].blocks) /\ t[i].blocks = Append(s[i].blocks, b)

LEMMA AddChains ==
    ASSUME NEW idx \in Seq(Record), NEW i \in 1 .. Len(idx), NEW b \in Nat
    PROVE  AddToRecord(idx, i, b) \in Seq(Record) /\ Chained(idx, i, b, AddToRecord(idx, i, b))
<1> DEFINE x == idx[i]
           y == [x EXCEPT !.blocks = Append(@, b)]
<1>1. x \in Record
  OBVIOUS
<1>2. CASE Contains(x.blocks, b)
  <2>1. b \in ToSet(x.blocks)
    BY <1>1, <1>2 DEF Contains, ToSet, Record
  <2>2. AddToRecord(idx, i, b) = idx
    BY <1>2 DEF AddToRecord
  <2> QED
    BY <1>1, <2>1, <2>2 DEF Chained
<1>3. CASE ~Contains(x.blocks, b)
  <2>1. y \in Record /\ y.s = x.s /\ y.e = x.e /\ y.blocks = Append(x.blocks, b)
    <3>1. Append(x.blocks, b) \in Seq(Nat)
      BY <1>1 DEF Record
    <3> QED
      BY <1>1, <3>1 DEF Record
  <2>2. AddToRecord(idx, i, b) = [idx EXCEPT ![i] = y]
    BY <1>3 DEF AddToRecord
  <2>3. b \notin ToSet(x.blocks)
    <3>1. x.blocks \in Seq(Nat)
      BY <1>1 DEF Record
    <3>2. DOMAIN x.blocks = 1 .. Len(x.blocks)
      BY <3>1
    <3> QED
      BY <1>3, <3>2 DEF Contains, ToSet
  <2> HIDE DEF y
  <2> QED
    BY <1>1, <2>1, <2>2, <2>3 DEF Chained
<1> QED
  BY <1>2, <1>3

\* The point is the first record that ends after the start of the range.
LEMMA PointIs ==
    ASSUME NEW idx \in Seq(Record), NEW n0 \in Time, NEW j \in 1 .. Len(idx),
           idx[j].e > n0, \A k \in 1 .. Len(idx) : k < j => idx[k].e <= n0
    PROVE  InsertionPoint(idx, n0) = j
<1> DEFINE i == InsertionPoint(idx, n0)
<1>1. /\ i \in 1 .. Len(idx) + 1
      /\ \A k \in 1 .. Len(idx) : k < i => idx[k].e <= n0
      /\ i <= Len(idx) => idx[i].e > n0
  BY PointFacts
<1>2. n0 \in Nat /\ \A k \in 1 .. Len(idx) : idx[k].e \in Nat
  <2>1. \A k \in 1 .. Len(idx) : idx[k] \in Record
    OBVIOUS
  <2> QED
    BY <2>1, TimeAssumption DEF Record
<1> HIDE DEF i
<1>3. ~(j < i)
  <2>1. j < i => idx[j].e <= n0
    BY <1>1
  <2> QED
    BY <1>2, <2>1
<1>4. ~(i < j)
  <2> SUFFICES ASSUME i < j PROVE FALSE
    OBVIOUS
  <2>1. i \in 1 .. Len(idx)
    BY <1>1
  <2> QED
    BY <1>1, <1>2, <2>1
<1>5. i = j
  BY <1>1, <1>3, <1>4
<1> QED
  BY <1>5 DEF i

-----------------------------------------------------------------------------
(* The recursion of insertDatablock.  A call has a smaller range, or its   *)
(* range fits the records better.                                          *)

Span(n0, n1) == IF n0 < n1 THEN n1 - n0 ELSE 0

Unfit(idx, n0, n1) ==
    LET i == InsertionPoint(idx, n0)
    IN  IF i > Len(idx) THEN 0
        ELSE IF idx[i].s < n0 /\ n1 <= idx[i].e THEN 2
        ELSE IF idx[i].s = n0 /\ n0 < n1 /\ n1 < idx[i].e THEN 1
        ELSE 0

Effort(idx, n0, n1) == 3 * Span(n0, n1) + Unfit(idx, n0, n1)

LEMMA EffortType ==
    ASSUME NEW idx, NEW n0 \in Nat, NEW n1 \in Nat
    PROVE  /\ Span(n0, n1) \in Nat /\ Unfit(idx, n0, n1) \in 0 .. 2
           /\ Effort(idx, n0, n1) \in Nat
<1>1. Span(n0, n1) \in Nat
  BY DEF Span
<1>2. Unfit(idx, n0, n1) \in 0 .. 2
  BY DEF Unfit
<1> QED
  BY <1>1, <1>2 DEF Effort

LEMMA LessEffort ==
    ASSUME NEW idx, NEW n0 \in Nat, NEW n1 \in Nat, NEW t, NEW m0 \in Nat, NEW m1 \in Nat,
           \/ Span(m0, m1) < Span(n0, n1)
           \/ Span(m0, m1) = Span(n0, n1) /\ Unfit(t, m0, m1) < Unfit(idx, n0, n1)
    PROVE  Effort(t, m0, m1) < Effort(idx, n0, n1)
<1> DEFINE a == Span(n0, n1)
           b == Span(m0, m1)
           x == Unfit(idx, n0, n1)
           y == Unfit(t, m0, m1)
<1>1. a \in Nat /\ b \in Nat /\ x \in 0 .. 2 /\ y \in 0 .. 2
  BY EffortType
<1>2. b < a \/ (b = a /\ y < x)
  OBVIOUS
<1>3. Effort(t, m0, m1) = 3 * b + y /\ Effort(idx, n0, n1) = 3 * a + x
  BY DEF Effort
<1> HIDE DEF a, b, x, y
<1> QED
  BY <1>1, <1>2, <1>3

\* What a call does to the record at the insertion point.
AddedAt(idx, n0, b) == AddToRecord(idx, InsertionPoint(idx, n0), b)
CutAt(idx, n0, t) == SplitRecord(idx, InsertionPoint(idx, n0), t)

\* The range meets the record at its insertion point.
Meets(idx, n0, n1) ==
    LET i == InsertionPoint(idx, n0)
    IN  i \in 1 .. Len(idx) /\ idx[i].s < n1 /\ n0 < idx[i].e

Met(idx, n0) == idx[InsertionPoint(idx, n0)]

\* A range that meets no record, or just the one, ends the recursion.
Ends(b, idx, n0, n1, t) ==
    \/ ~Meets(idx, n0, n1)
         /\ t = InsertAt(idx, InsertionPoint(idx, n0), [s |-> n0, e |-> n1, blocks |-> <<b>>])
    \/ Meets(idx, n0, n1) /\ Met(idx, n0).s = n0 /\ Met(idx, n0).e = n1 /\ t = AddedAt(idx, n0, b)

\* The index t is passed on: the record lies in the range and has the block added,
\* or it is cut where the range starts or ends.
Passes(b, idx, n0, n1, t) ==
    /\ Meets(idx, n0, n1)
    /\ \/ n0 <= Met(idx, n0).s /\ Met(idx, n0).e <= n1 /\ t = AddedAt(idx, n0, b)
       \/ \E c \in {n0, n1} : Met(idx, n0).s < c /\ c < Met(idx, n0).e /\ t = CutAt(idx, n0, c)

\* The ranges that are left start and end where the range or the record does.
Border(idx, n0, n1, m) ==
    /\ m \in {n0, n1, Met(idx, n0).s, Met(idx, n0).e}
    /\ n0 <= n1 => n0 <= m /\ m <= n1

\* A time, or the moment between two times that follow each other: no cut parts them.
Together(x, y) == x <= y /\ y <= x + 1

\* From time x to y there is nothing left to be done.
Settles(b, idx, n0, t, x, y) ==
    t = AddedAt(idx, n0, b) /\ Met(idx, n0).s <= x /\ y <= Met(idx, n0).e

GoesOn(b, idx, n0, n1, t, m0, m1) ==
    /\ Passes(b, idx, n0, n1, t)
    /\ m0 \in Time /\ m1 \in Time /\ (n0 <= n1 => m0 <= m1)
    /\ Border(idx, n0, n1, m0) /\ Border(idx, n0, n1, m1)
    /\ Effort(t, m0, m1) < Effort(idx, n0, n1)
    /\ \A x, y \in n0 .. n1 : Together(x, y) =>
          (m0 <= x /\ y <= m1) \/ Settles(b, idx, n0, t, x, y)

GoesTwice(b, idx, n0, n1, t, m, k) ==
    /\ Passes(b, idx, n0, n1, t)
    /\ m \in Time /\ k \in Time /\ n0 <= m /\ k <= n1
    /\ Border(idx, n0, n1, m) /\ Border(idx, n0, n1, k)
    /\ Effort(t, n0, m) < Effort(idx, n0, n1)
    /\ \A u : Effort(u, k, n1) < Effort(idx, n0, n1)
    /\ \A x, y \in n0 .. n1 : Together(x, y) =>
          y <= m \/ k <= x \/ Settles(b, idx, n0, t, x, y)

LEMMA MeetsType ==
    ASSUME NEW idx \in Seq(Record), NEW n0 \in Time, NEW n1 \in Time
    PROVE  /\ n0 \in Nat /\ n1 \in Nat
           /\ InsertionPoint(idx, n0) \in 1 .. Len(idx) + 1
           /\ InsertionPoint(idx, n0) <= Len(idx) =>
                 /\ Met(idx, n0) \in Record /\ Met(idx, n0).s \in Time /\ Met(idx, n0).e \in Time
                 /\ Met(idx, n0).s \in Nat /\ Met(idx, n0).e \in Nat
                 /\ n0 < Met(idx, n0).e
<1> DEFINE i == InsertionPoint(idx, n0)
<1>1. i \in 1 .. Len(idx) + 1 /\ (i <= Len(idx) => idx[i].e > n0)
  BY PointFacts
<1>2. n0 \in Nat /\ n1 \in Nat
  BY TimeAssumption
<1>3. i <= Len(idx) => idx[i] \in Record
  <2> HIDE DEF i
  <2> QED
    BY <1>1
<1>4. i <= Len(idx) => idx[i].s \in Time /\ idx[i].e \in Time
  <2> HIDE DEF i
  <2> QED
    BY <1>3 DEF Record
<1>5. i <= Len(idx) => idx[i].s \in Nat /\ idx[i].e \in Nat
  <2> HIDE DEF i
  <2> QED
    BY <1>4, TimeAssumption
<1>6. i <= Len(idx) => n0 < idx[i].e
  <2> HIDE DEF i
  <2> QED
    BY <1>1, <1>2, <1>5
<1> QED
  BY <1>1, <1>2, <1>3, <1>4, <1>5, <1>6 DEF Met

\* A record that is cut at an end of the range fits it better.
LEMMA CutFits ==
    ASSUME NEW idx \in Seq(Record), NEW n0 \in Time, NEW n1 \in Time, Meets(idx, n0, n1)
    PROVE  /\ Met(idx, n0).s < n0 /\ n1 <= Met(idx, n0).e =>
                 Effort(CutAt(idx, n0, n0), n0, n1) < Effort(idx, n0, n1)
           /\ Met(idx, n0).s = n0 /\ n1 < Met(idx, n0).e =>
                 Effort(CutAt(idx, n0, n1), n0, n1) < Effort(idx, n0, n1)
<1> DEFINE i == InsertionPoint(idx, n0)
           o == idx[i]
<1>1. /\ i \in 1 .. Len(idx) /\ n0 \in Nat /\ n1 \in Nat /\ o \in Record
      /\ o.s \in Nat /\ o.e \in Nat /\ n0 < o.e /\ o.s < n1 /\ Met(idx, n0) = o
  BY MeetsType DEF Meets, Met
<1>2. \A k \in 1 .. Len(idx) : k < i => idx[k].e <= n0
  BY PointFacts
<1>3. ASSUME NEW t \in Seq(Record), Parted(idx, i, n0, t), o.s < n0, n1 <= o.e
      PROVE  Unfit(t, n0, n1) < Unfit(idx, n0, n1)
  <2> DEFINE j == i + 1
  <2>1. Len(t) = Len(idx) + 1 /\ t[i] = Ending(o, n0) /\ t[j] = Starting(o, n0)
    BY <1>3 DEF Parted
  <2>2. t[i].e = n0 /\ t[j].s = n0 /\ t[j].e = o.e
    <3>1. o \in Record /\ n0 \in Time
      BY <1>1
    <3> HIDE DEF o, i
    <3> QED
      BY <2>1, <3>1, CutRecord
  <2>3. j \in 1 .. Len(t) /\ t[j].e > n0
    BY <1>1, <2>1, <2>2
  <2>4. \A k \in 1 .. Len(t) : k < j => t[k].e <= n0
    <3> TAKE k \in 1 .. Len(t)
    <3> HAVE k < j
    <3>1. CASE k = i
      BY <1>1, <2>2, <3>1
    <3>2. CASE k # i
      <4>1. k \in 1 .. Len(idx) /\ k < i
        BY <1>1, <3>2
      <4>2. t[k] = idx[k]
        BY <1>3, <4>1 DEF Parted
      <4> QED
        BY <1>2, <4>1, <4>2
    <3> QED
      BY <3>1, <3>2
  <2> HIDE DEF j
  <2>5. InsertionPoint(t, n0) = j
    BY <2>3, <2>4, PointIs
  <2>6. Unfit(t, n0, n1) \in {0, 1}
    BY <1>1, <2>2, <2>3, <2>5 DEF Unfit
  <2>7. Unfit(idx, n0, n1) = 2
    BY <1>1, <1>3 DEF Unfit
  <2> QED
    BY <2>6, <2>7
<1>4. ASSUME NEW t \in Seq(Record), Parted(idx, i, n1, t), o.s = n0, n1 < o.e
      PROVE  Unfit(t, n0, n1) < Unfit(idx, n0, n1)
  <2>1. Len(t) = Len(idx) + 1 /\ t[i] = Ending(o, n1)
    BY <1>4 DEF Parted
  <2>2. t[i].e = n1 /\ t[i].s = n0
    <3>1. o \in Record /\ n1 \in Time /\ o.s = n0
      BY <1>1, <1>4
    <3> HIDE DEF o, i
    <3>2. Ending(o, n1).s = o.s /\ Ending(o, n1).e = n1
      BY <3>1, CutRecord
    <3> QED
      BY <2>1, <3>1, <3>2
  <2>3. i \in 1 .. Len(t) /\ t[i].e > n0
    BY <1>1, <1>4, <2>1, <2>2
  <2>4. \A k \in 1 .. Len(t) : k < i => t[k].e <= n0
    <3> TAKE k \in 1 .. Len(t)
    <3> HAVE k < i
    <3>1. k \in 1 .. Len(idx)
      BY <1>1, <2>1
    <3>2. t[k] = idx[k]
      BY <1>4, <3>1 DEF Parted
    <3> QED
      BY <1>2, <3>1, <3>2
  <2> HIDE DEF i
  <2>5. InsertionPoint(t, n0) = i
    BY <2>3, <2>4, PointIs
  <2>6. Unfit(t, n0, n1) = 0
    BY <1>1, <2>2, <2>3, <2>5 DEF Unfit
  <2>7. Unfit(idx, n0, n1) = 1
    BY <1>1, <1>4 DEF Unfit, i
  <2> QED
    BY <2>6, <2>7
<1>5. /\ CutAt(idx, n0, n0) \in Seq(Record) /\ Parted(idx, i, n0, CutAt(idx, n0, n0))
      /\ CutAt(idx, n0, n1) \in Seq(Record) /\ Parted(idx, i, n1, CutAt(idx, n0, n1))
  BY <1>1, SplitParts DEF CutAt
<1>6. ASSUME o.s < n0, n1 <= o.e
      PROVE  Effort(CutAt(idx, n0, n0), n0, n1) < Effort(idx, n0, n1)
  <2>1. Unfit(CutAt(idx, n0, n0), n0, n1) < Unfit(idx, n0, n1)
    BY <1>3, <1>5, <1>6
  <2> QED
    BY <1>1, <2>1, LessEffort
<1>7. ASSUME o.s = n0, n1 < o.e
      PROVE  Effort(CutAt(idx, n0, n1), n0, n1) < Effort(idx, n0, n1)
  <2>1. Unfit(CutAt(idx, n0, n1), n0, n1) < Unfit(idx, n0, n1)
    BY <1>4, <1>5, <1>7
  <2> QED
    BY <1>1, <2>1, LessEffort
<1> QED
  BY <1>1, <1>6, <1>7

\* The cases of insertDatablock, with the record at the insertion point from o0 to o1.
Cases(f, b, idx, n0, n1, o0, o1) ==
    LET I     == Insertion(f, idx, n0, n1, b)
        added == AddedAt(idx, n0, b)
        low   == CutAt(idx, n0, n0)
        high  == CutAt(idx, n0, n1)
    IN  IF ~Meets(idx, n0, n1)
        THEN I = InsertAt(idx, InsertionPoint(idx, n0), [s |-> n0, e |-> n1, blocks |-> <<b>>])
        ELSE /\ o0 = n0 /\ o1 = n1 => I = added
             /\ o0 = n0 /\ o1 < n1 => I = f[<<added, o1, n1>>]
             /\ o0 < n0 /\ o1 < n1 => I = f[<<f[<<low, n0, o1>>], o1, n1>>]
             /\ n0 < o0 /\ n1 = o1 => I = f[<<added, n0, o0>>]
             /\ n0 < o0 /\ n1 < o1 => I = f[<<f[<<high, n0, o0>>], o0, n1>>]
             /\ n0 < o0 /\ o1 < n1 => I = f[<<f[<<added, n0, o0>>], o1, n1>>]
             /\ o0 = n0 /\ n1 < o1 => I = f[<<high, n0, n1>>]
             /\ o0 < n0 /\ n1 <= o1 => I = f[<<low, n0, n1>>]

LEMMA InsertionCases ==
    ASSUME NEW f, NEW b, NEW idx \in Seq(Record), NEW n0 \in Time, NEW n1 \in Time
    PROVE  Cases(f, b, idx, n0, n1, Met(idx, n0).s, Met(idx, n0).e)
<1> DEFINE i == InsertionPoint(idx, n0)
           p0 == idx[i].s
           p1 == idx[i].e
           put == InsertAt(idx, i, [s |-> n0, e |-> n1, blocks |-> <<b>>])
           added == AddToRecord(idx, i, b)
           low == SplitRecord(idx, i, n0)
           high == SplitRecord(idx, i, n1)
           o0 == Met(idx, n0).s
           o1 == Met(idx, n0).e
<1>1. /\ i \in 1 .. Len(idx) + 1 /\ n0 \in Nat /\ n1 \in Nat /\ Len(idx) \in Nat
      /\ o0 = p0 /\ o1 = p1
      /\ i <= Len(idx) => o0 \in Nat /\ o1 \in Nat /\ n0 < o1
  BY MeetsType DEF Met
<1>2. /\ AddedAt(idx, n0, b) = added /\ CutAt(idx, n0, n0) = low /\ CutAt(idx, n0, n1) = high
      /\ Meets(idx, n0, n1) <=> i \in 1 .. Len(idx) /\ p0 < n1 /\ n0 < p1
  BY DEF AddedAt, CutAt, Meets
<1>3. Insertion(f, idx, n0, n1, b) =
          IF i > Len(idx) \/ n1 <= p0 THEN put ELSE
          CASE p0 = n0 /\ p1 = n1 -> added
          [] p0 = n0 /\ p1 < n1 -> f[<<added, p1, n1>>]
          [] p0 < n0 /\ p1 < n1 -> f[<<f[<<low, n0, p1>>], p1, n1>>]
          [] n0 < p0 /\ p0 < n1 /\ n1 = p1 -> f[<<added, n0, p0>>]
          [] n0 < p0 /\ p0 < n1 /\ n1 < p1 -> f[<<f[<<high, n0, p0>>], p0, n1>>]
          [] n0 < p0 /\ p1 < n1 -> f[<<f[<<added, n0, p0>>], p1, n1>>]
          [] p0 = n0 /\ n0 < n1 /\ n1 < p1 -> f[<<high, n0, n1>>]
          [] p0 < n0 /\ n1 <= p1 -> f[<<low, n0, n1>>]
  BY DEF Insertion
<1>4. CASE ~Meets(idx, n0, n1)
  <2>1. i > Len(idx) \/ n1 <= p0
    <3> HIDE DEF p0, p1, i
    <3> QED
      BY <1>1, <1>2, <1>4
  <2> HIDE DEF added, low, high, p0, p1
  <2>2. Insertion(f, idx, n0, n1, b) = put
    BY <1>3, <2>1
  <2> QED
    BY <1>4, <2>2 DEF Cases
<1>5. CASE Meets(idx, n0, n1)
  <2> HIDE DEF put, added, low, high, p0, p1, i, o0, o1
  <2>1. i \in 1 .. Len(idx) /\ o0 \in Nat /\ o1 \in Nat /\ n0 < o1 /\ o0 < n1
    BY <1>1, <1>2, <1>5
  <2>2. ~(i > Len(idx) \/ n1 <= p0)
    BY <1>1, <2>1
  <2>3. Cases(f, b, idx, n0, n1, o0, o1)
    BY <1>1, <1>2, <1>3, <1>5, <2>1, <2>2 DEF Cases
  <2> QED
    BY <2>3 DEF o0, o1
<1> QED
  BY <1>4, <1>5

\* What a call is, whatever the function f is that it calls.
IsEnd(b, idx, n0, n1, t) ==
    Ends(b, idx, n0, n1, t) /\ \A f : Insertion(f, idx, n0, n1, b) = t
IsOne(b, idx, n0, n1, t, m0, m1) ==
    GoesOn(b, idx, n0, n1, t, m0, m1) /\ \A f : Insertion(f, idx, n0, n1, b) = f[<<t, m0, m1>>]
IsTwo(b, idx, n0, n1, t, m, k) ==
    /\ GoesTwice(b, idx, n0, n1, t, m, k)
    /\ \A f : Insertion(f, idx, n0, n1, b) = f[<<f[<<t, n0, m>>], k, n1>>]

LEMMA TwoSmaller ==
    ASSUME NEW idx, NEW n0 \in Nat, NEW n1 \in Nat, NEW t, NEW m \in Nat, NEW k \in Nat,
           n0 < n1, m < n1, n0 < k
    PROVE  /\ Effort(t, n0, m) < Effort(idx, n0, n1)
           /\ \A u : Effort(u, k, n1) < Effort(idx, n0, n1)
<1>1. Span(n0, m) < Span(n0, n1) /\ Span(k, n1) < Span(n0, n1)
  BY DEF Span
<1> QED
  BY <1>1, LessEffort

LEMMA InsertionSteps ==
    ASSUME NEW b, NEW idx \in Seq(Record), NEW n0 \in Time, NEW n1 \in Time
    PROVE  \/ \E t : IsEnd(b, idx, n0, n1, t)
           \/ \E t, m0, m1 : IsOne(b, idx, n0, n1, t, m0, m1)
           \/ \E t, m, k : IsTwo(b, idx, n0, n1, t, m, k)
<1> DEFINE i == InsertionPoint(idx, n0)
           put == InsertAt(idx, i, [s |-> n0, e |-> n1, blocks |-> <<b>>])
           added == AddedAt(idx, n0, b)
           low == CutAt(idx, n0, n0)
           high == CutAt(idx, n0, n1)
           o0 == Met(idx, n0).s
           o1 == Met(idx, n0).e
<1> HIDE DEF added, low, high, o0, o1, i
<1>0. \A f : Cases(f, b, idx, n0, n1, o0, o1)
  BY InsertionCases DEF o0, o1
<1>1. CASE ~Meets(idx, n0, n1)
  <2>1. \A f : Insertion(f, idx, n0, n1, b) = put
    BY <1>0, <1>1 DEF Cases, i
  <2>2. Ends(b, idx, n0, n1, put)
    BY <1>1 DEF Ends, i
  <2> QED
    BY <2>1, <2>2 DEF IsEnd
<1> SUFFICES ASSUME Meets(idx, n0, n1)
             PROVE  \/ \E t : IsEnd(b, idx, n0, n1, t)
                    \/ \E t, m0, m1 : IsOne(b, idx, n0, n1, t, m0, m1)
                    \/ \E t, m, k : IsTwo(b, idx, n0, n1, t, m, k)
  BY <1>1
<1>2. /\ n0 \in Nat /\ n1 \in Nat /\ o0 \in Time /\ o1 \in Time /\ o0 \in Nat /\ o1 \in Nat
      /\ n0 < o1 /\ o0 < n1
  BY MeetsType DEF Meets, Met, o0, o1
<1>3. /\ n0 <= o0 /\ o1 <= n1 => Passes(b, idx, n0, n1, added)
      /\ o0 < n0 => Passes(b, idx, n0, n1, low)
      /\ n1 < o1 => Passes(b, idx, n0, n1, high)
  BY <1>2 DEF Passes, added, low, high, o0, o1
<1>14. /\ Border(idx, n0, n1, n0) /\ Border(idx, n0, n1, n1)
       /\ n0 <= o0 => Border(idx, n0, n1, o0)
       /\ o1 <= n1 => Border(idx, n0, n1, o1)
  BY <1>2 DEF Border, o0, o1
<1>4. \A x, y : o0 <= x /\ y <= o1 => Settles(b, idx, n0, added, x, y)
  BY DEF Settles, added, o0, o1
<1>5. \A x, y \in n0 .. n1 :
         /\ x \in Nat /\ n0 <= x /\ x <= n1 /\ y \in Nat /\ n0 <= y /\ y <= n1
         /\ Together(x, y) => \A m \in Nat : y <= m \/ m <= x
  BY <1>2 DEF Together
<1>6. CASE o0 = n0 /\ o1 = n1
  <2>1. Ends(b, idx, n0, n1, added)
    BY <1>6 DEF Ends, added, o0, o1
  <2>2. \A f : Insertion(f, idx, n0, n1, b) = added
    BY <1>0, <1>6 DEF Cases, added
  <2> QED
    BY <2>1, <2>2 DEF IsEnd
<1>7. CASE o0 = n0 /\ o1 < n1
  <2>1. \A f : Insertion(f, idx, n0, n1, b) = f[<<added, o1, n1>>]
    BY <1>0, <1>7 DEF Cases, added
  <2>2. Span(o1, n1) < Span(n0, n1)
    BY <1>2, <1>7 DEF Span
  <2>3. Effort(added, o1, n1) < Effort(idx, n0, n1)
    BY <1>2, <2>2, LessEffort
  <2>4. \A x, y \in n0 .. n1 : Together(x, y) =>
           (o1 <= x /\ y <= n1) \/ Settles(b, idx, n0, added, x, y)
    BY <1>2, <1>4, <1>5, <1>7
  <2>5. GoesOn(b, idx, n0, n1, added, o1, n1)
    BY <1>2, <1>3, <1>14, <1>7, <2>3, <2>4 DEF GoesOn
  <2> QED
    BY <2>1, <2>5 DEF IsOne
<1>8. CASE o0 < n0 /\ o1 < n1
  <2>1. \A f : Insertion(f, idx, n0, n1, b) = f[<<f[<<low, n0, o1>>], o1, n1>>]
    BY <1>0, <1>8 DEF Cases, low
  <2>2. /\ Effort(low, n0, o1) < Effort(idx, n0, n1)
        /\ \A u : Effort(u, o1, n1) < Effort(idx, n0, n1)
    <3>1. n0 < n1 /\ o1 < n1 /\ n0 < o1
      BY <1>2, <1>8
    <3> QED
      BY <1>2, <3>1, TwoSmaller
  <2>3. \A x, y \in n0 .. n1 : Together(x, y) => y <= o1 \/ o1 <= x
    BY <1>2, <1>5
  <2>4. GoesTwice(b, idx, n0, n1, low, o1, o1)
    BY <1>2, <1>3, <1>14, <1>8, <2>2, <2>3 DEF GoesTwice
  <2> QED
    BY <2>1, <2>4 DEF IsTwo
<1>9. CASE n0 < o0 /\ n1 = o1
  <2>1. \A f : Insertion(f, idx, n0, n1, b) = f[<<added, n0, o0>>]
    BY <1>0, <1>9 DEF Cases, added
  <2>2. Span(n0, o0) < Span(n0, n1)
    BY <1>2, <1>9 DEF Span
  <2>3. Effort(added, n0, o0) < Effort(idx, n0, n1)
    BY <1>2, <2>2, LessEffort
  <2>4. \A x, y \in n0 .. n1 : Together(x, y) =>
           (n0 <= x /\ y <= o0) \/ Settles(b, idx, n0, added, x, y)
    BY <1>2, <1>4, <1>5, <1>9
  <2>5. GoesOn(b, idx, n0, n1, added, n0, o0)
    BY <1>2, <1>3, <1>14, <1>9, <2>3, <2>4 DEF GoesOn
  <2> QED
    BY <2>1, <2>5 DEF IsOne
<1>10. CASE n0 < o0 /\ n1 < o1
  <2>1. \A f : Insertion(f, idx, n0, n1, b) = f[<<f[<<high, n0, o0>>], o0, n1>>]
    BY <1>0, <1>10 DEF Cases, high
  <2>2. /\ Effort(high, n0, o0) < Effort(idx, n0, n1)
        /\ \A u : Effort(u, o0, n1) < Effort(idx, n0, n1)
    BY <1>2, <1>10, TwoSmaller
  <2>3. \A x, y \in n0 .. n1 : Together(x, y) => y <= o0 \/ o0 <= x
    BY <1>2, <1>5
  <2>4. GoesTwice(b, idx, n0, n1, high, o0, o0)
    BY <1>2, <1>3, <1>14, <1>10, <2>2, <2>3 DEF GoesTwice
  <2> QED
    BY <2>1, <2>4 DEF IsTwo
<1>11. CASE n0 < o0 /\ o1 < n1
  <2>1. \A f : Insertion(f, idx, n0, n1, b) = f[<<f[<<added, n0, o0>>], o1, n1>>]
    BY <1>0, <1>11 DEF Cases, added
  <2>2. /\ Effort(added, n0, o0) < Effort(idx, n0, n1)
        /\ \A u : Effort(u, o1, n1) < Effort(idx, n0, n1)
    BY <1>2, <1>11, TwoSmaller
  <2>3. \A x, y \in n0 .. n1 : Together(x, y) =>
           y <= o0 \/ o1 <= x \/ Settles(b, idx, n0, added, x, y)
    BY <1>2, <1>4, <1>5
  <2>4. GoesTwice(b, idx, n0, n1, added, o0, o1)
    BY <1>2, <1>3, <1>14, <1>11, <2>2, <2>3 DEF GoesTwice
  <2> QED
    BY <2>1, <2>4 DEF IsTwo
<1>12. CASE o0 = n0 /\ n1 < o1
  <2>1. \A f : Insertion(f, idx, n0, n1, b) = f[<<high, n0, n1>>]
    BY <1>0, <1>12 DEF Cases, high
  <2>2. Effort(high, n0, n1) < Effort(idx, n0, n1)
    BY <1>12, CutFits DEF high, o0, o1
  <2>3. GoesOn(b, idx, n0, n1, high, n0, n1)
    BY <1>2, <1>3, <1>5, <1>14, <1>12, <2>2 DEF GoesOn
  <2> QED
    BY <2>1, <2>3 DEF IsOne
<1>13. CASE o0 < n0 /\ n1 <= o1
  <2>1. \A f : Insertion(f, idx, n0, n1, b) = f[<<low, n0, n1>>]
    BY <1>0, <1>13 DEF Cases, low
  <2>2. Effort(low, n0, n1) < Effort(idx, n0, n1)
    BY <1>13, CutFits DEF low, o0, o1
  <2>3. GoesOn(b, idx, n0, n1, low, n0, n1)
    BY <1>2, <1>3, <1>5, <1>14, <1>13, <2>2 DEF GoesOn
  <2> QED
    BY <2>1, <2>3 DEF IsOne
<1> QED
  BY <1>2, <1>6, <1>7, <1>8, <1>9, <1>10, <1>11, <1>12, <1>13

LEMMA StepTypes ==
    ASSUME NEW b \in Nat, NEW idx \in Seq(Record), NEW n0 \in Time, NEW n1 \in Time, NEW t
    PROVE  /\ Ends(b, idx, n0, n1, t) => t \in Seq(Record)
           /\ Passes(b, idx, n0, n1, t) => t \in Seq(Record)
<1> DEFINE i == InsertionPoint(idx, n0)
           x == [s |-> n0, e |-> n1, blocks |-> <<b>>]
<1>1. i \in 1 .. Len(idx) + 1 /\ (Meets(idx, n0, n1) => i \in 1 .. Len(idx))
  BY PointFacts DEF Meets
<1>2. x \in Record
  BY DEF Record
<1>3. InsertAt(idx, i, x) \in Seq(Record)
  <2> HIDE DEF i, x
  <2> QED
    BY <1>1, <1>2, InsertAtPlaces
<1>4. i \in 1 .. Len(idx) => AddedAt(idx, n0, b) \in Seq(Record)
  BY AddChains DEF AddedAt
<1>5. i \in 1 .. Len(idx) => \A c \in Time : CutAt(idx, n0, c) \in Seq(Record)
  BY SplitParts DEF CutAt
<1> HIDE DEF i
<1> QED
  BY <1>1, <1>3, <1>4, <1>5 DEF Ends, Passes, i

\* The function that insertDatablock is.
IsInsertion(f, b) ==
    /\ f \in [Calls -> Seq(Record)]
    /\ \A idx \in Seq(Record), n0 \in Time, n1 \in Time :
          f[<<idx, n0, n1>>] = Insertion(f, idx, n0, n1, b)

LEMMA InsertionDefined ==
    ASSUME NEW b \in Nat
    PROVE  \E f : /\ IsInsertion(f, b)
                  /\ \A idx \in Seq(Record), n0 \in Time, n1 \in Time :
                        InsertDatablock(idx, n0, n1, b) = f[<<idx, n0, n1>>]
<1> DEFINE V == Seq(Record)
           body(f) == [call \in Calls |-> Insertion(f, call[1], call[2], call[3], b)]
           F == [f \in [Calls -> V] |-> body(f)]
           m == [call \in Calls |-> Effort(call[1], call[2], call[3])]
<1>1. V # {} /\ m \in [Calls -> Nat]
  <2>1. <<>> \in V
    OBVIOUS
  <2>2. \A call \in Calls : call[2] \in Nat /\ call[3] \in Nat
    BY TimeAssumption DEF Calls
  <2>3. \A call \in Calls : Effort(call[1], call[2], call[3]) \in Nat
    BY <2>2, EffortType
  <2> QED
    BY <2>1, <2>3
<1>2. ASSUME NEW idx \in V, NEW n0 \in Time, NEW n1 \in Time
      PROVE  <<idx, n0, n1>> \in Calls /\ m[<<idx, n0, n1>>] = Effort(idx, n0, n1)
  BY DEF Calls
<1>3. ASSUME NEW call \in Calls
      PROVE  \E idx \in V, n0 \in Time, n1 \in Time : call = <<idx, n0, n1>>
  BY DEF Calls
<1> HIDE DEF m, V, F
<1>4. ASSUME NEW f \in [Calls -> V], NEW idx \in V, NEW n0 \in Time, NEW n1 \in Time
      PROVE  Insertion(f, idx, n0, n1, b) \in V
  <2>1. idx \in Seq(Record)
    BY DEF V
  <2>2. ASSUME NEW t, Ends(b, idx, n0, n1, t) \/ Passes(b, idx, n0, n1, t) PROVE t \in V
    BY <2>1, <2>2, StepTypes DEF V
  <2>3. ASSUME NEW u \in V, NEW m0 \in Time, NEW m1 \in Time PROVE f[<<u, m0, m1>>] \in V
    BY <1>2
  <2>4. ASSUME NEW t, IsEnd(b, idx, n0, n1, t) PROVE Insertion(f, idx, n0, n1, b) \in V
    BY <2>2, <2>4 DEF IsEnd
  <2>5. ASSUME NEW t, NEW m0, NEW m1, IsOne(b, idx, n0, n1, t, m0, m1)
        PROVE  Insertion(f, idx, n0, n1, b) \in V
    BY <2>2, <2>3, <2>5 DEF IsOne, GoesOn
  <2>6. ASSUME NEW t, NEW k, NEW j, IsTwo(b, idx, n0, n1, t, k, j)
        PROVE  Insertion(f, idx, n0, n1, b) \in V
    BY <2>2, <2>3, <2>6 DEF IsTwo, GoesTwice
  <2> QED
    BY <2>1, <2>4, <2>5, <2>6, InsertionSteps
<1>5. F \in [[Calls -> V] -> [Calls -> V]]
  <2>1. ASSUME NEW f \in [Calls -> V], NEW call \in Calls
        PROVE  Insertion(f, call[1], call[2], call[3], b) \in V
    <3>1. PICK idx \in V, n0 \in Time, n1 \in Time : call = <<idx, n0, n1>>
      BY <1>3
    <3> QED
      BY <1>4, <3>1
  <2> QED
    BY <2>1 DEF F
<1>6. ASSUME NEW f \in [Calls -> V], NEW g \in [Calls -> V],
             NEW idx \in V, NEW n0 \in Time, NEW n1 \in Time,
             \A c \in Calls : m[c] < Effort(idx, n0, n1) => f[c] = g[c]
      PROVE  Insertion(f, idx, n0, n1, b) = Insertion(g, idx, n0, n1, b)
  <2>1. idx \in Seq(Record)
    BY DEF V
  <2>2. ASSUME NEW t, Passes(b, idx, n0, n1, t) PROVE t \in V
    BY <2>1, <2>2, StepTypes DEF V
  <2>3. ASSUME NEW u \in V, NEW m0 \in Time, NEW m1 \in Time, Effort(u, m0, m1) < Effort(idx, n0, n1)
        PROVE  f[<<u, m0, m1>>] = g[<<u, m0, m1>>] /\ f[<<u, m0, m1>>] \in V
    BY <1>2, <1>6, <2>3
  <2>4. ASSUME NEW t, IsEnd(b, idx, n0, n1, t)
        PROVE  Insertion(f, idx, n0, n1, b) = Insertion(g, idx, n0, n1, b)
    BY <2>4 DEF IsEnd
  <2>5. ASSUME NEW t, NEW m0, NEW m1, IsOne(b, idx, n0, n1, t, m0, m1)
        PROVE  Insertion(f, idx, n0, n1, b) = Insertion(g, idx, n0, n1, b)
    BY <2>2, <2>3, <2>5 DEF IsOne, GoesOn
  <2>6. ASSUME NEW t, NEW k, NEW j, IsTwo(b, idx, n0, n1, t, k, j)
        PROVE  Insertion(f, idx, n0, n1, b) = Insertion(g, idx, n0, n1, b)
    <3>1. /\ t \in V /\ k \in Time /\ j \in Time /\ Effort(t, n0, k) < Effort(idx, n0, n1)
          /\ \A u : Effort(u, j, n1) < Effort(idx, n0, n1)
      BY <2>2, <2>6 DEF IsTwo, GoesTwice
    <3> DEFINE u == f[<<t, n0, k>>]
    <3>2. u = g[<<t, n0, k>>] /\ u \in V
      BY <2>3, <3>1
    <3> HIDE DEF u
    <3>3. f[<<u, j, n1>>] = g[<<u, j, n1>>]
      BY <2>3, <3>1, <3>2
    <3>4. Insertion(f, idx, n0, n1, b) = f[<<u, j, n1>>]
      BY <2>6 DEF IsTwo, u
    <3>5. Insertion(g, idx, n0, n1, b) = g[<<u, j, n1>>]
      BY <2>6, <3>2 DEF IsTwo
    <3> QED
      BY <3>3, <3>4, <3>5
  <2> QED
    BY <2>1, <2>4, <2>5, <2>6, InsertionSteps
<1>7. DependsBelow(F, m, Calls, V)
  <2> SUFFICES ASSUME NEW f \in [Calls -> V], NEW g \in [Calls -> V], NEW call \in Calls,
                      \A c \in Calls : m[c] < m[call] => f[c] = g[c]
               PROVE  F[f][call] = F[g][call]
    BY DEF DependsBelow
  <2>1. PICK idx \in V, n0 \in Time, n1 \in Time : call = <<idx, n0, n1>>
    BY <1>3
  <2>2. \A c \in Calls : m[c] < Effort(idx, n0, n1) => f[c] = g[c]
    BY <1>2, <2>1
  <2>3. Insertion(f, idx, n0, n1, b) = Insertion(g, idx, n0, n1, b)
    BY <1>6, <2>2
  <2>4. F[f][call] = Insertion(f, idx, n0, n1, b) /\ F[g][call] = Insertion(g, idx, n0, n1, b)
    BY <2>1 DEF F
  <2> QED
    BY <2>3, <2>4
<1>8. Recursive(F, m, Calls, V)
  BY <1>1, <1>5, <1>7 DEF Recursive
<1>9. PICK f \in [Calls -> V] : f = F[f]
  BY <1>8, RecursionDefines
<1>10. f = body(f)
  BY <1>9 DEF F
<1> DEFINE I == CHOOSE g : g = body(g)
<1>11. I = body(I)
  BY <1>10
<1>12. ASSUME NEW idx \in V, NEW n0 \in Time, NEW n1 \in Time
       PROVE  InsertDatablock(idx, n0, n1, b) = I[<<idx, n0, n1>>]
  BY DEF InsertDatablock
<1>13. ASSUME NEW idx \in V, NEW n0 \in Time, NEW n1 \in Time
       PROVE  I[<<idx, n0, n1>>] = Insertion(I, idx, n0, n1, b)
  <2> HIDE DEF I
  <2>1. I[<<idx, n0, n1>>] = body(I)[<<idx, n0, n1>>]
    BY <1>11
  <2> QED
    BY <1>2, <2>1
<1> HIDE DEF I
<1>14. \A call \in Calls : I[call] \in V
  <2> DEFINE T == {call \in Calls : I[call] \notin V}
  <2>1. SUFFICES ASSUME T # {} PROVE FALSE
    OBVIOUS
  <2>2. PICK call \in T : \A c \in Calls : m[c] < m[call] => c \notin T
    <3>1. (\A c \in Calls : m[c] \in Nat) /\ T \subseteq Calls
      BY <1>1
    <3> HIDE DEF T
    <3> QED
      BY <2>1, <3>1, LeastOf
  <2>3. PICK idx \in V, n0 \in Time, n1 \in Time : call = <<idx, n0, n1>>
    BY <1>3
  <2>4. \A c \in Calls : m[c] < Effort(idx, n0, n1) => I[c] \in V
    BY <1>2, <2>2, <2>3
  <2>5. idx \in Seq(Record)
    BY DEF V
  <2>6. ASSUME NEW t, Ends(b, idx, n0, n1, t) \/ Passes(b, idx, n0, n1, t) PROVE t \in V
    BY <2>5, <2>6, StepTypes DEF V
  <2>7. ASSUME NEW u \in V, NEW m0 \in Time, NEW m1 \in Time, Effort(u, m0, m1) < Effort(idx, n0, n1)
        PROVE  I[<<u, m0, m1>>] \in V
    BY <1>2, <2>4, <2>7
  <2>8. ASSUME NEW t, IsEnd(b, idx, n0, n1, t) PROVE Insertion(I, idx, n0, n1, b) \in V
    BY <2>6, <2>8 DEF IsEnd
  <2>9. ASSUME NEW t, NEW m0, NEW m1, IsOne(b, idx, n0, n1, t, m0, m1)
        PROVE  Insertion(I, idx, n0, n1, b) \in V
    BY <2>6, <2>7, <2>9 DEF IsOne, GoesOn
  <2>10. ASSUME NEW t, NEW k, NEW j, IsTwo(b, idx, n0, n1, t, k, j)
         PROVE  Insertion(I, idx, n0, n1, b) \in V
    BY <2>6, <2>7, <2>10 DEF IsTwo, GoesTwice
  <2>11. Insertion(I, idx, n0, n1, b) \in V
    BY <2>5, <2>8, <2>9, <2>10, InsertionSteps
  <2> QED
    BY <1>13, <2>2, <2>3, <2>11
<1>15. I \in [Calls -> V]
  BY <1>11, <1>14
<1> QED
  BY <1>12, <1>13, <1>15 DEF IsInsertion, V

-----------------------------------------------------------------------------
(* What insertDatablock keeps, and what it reaches.                        *)

\* Each step of the insertion of b leads from an index of G to another.
Keeps(G, b, ordered) ==
    /\ G \subseteq Seq(Record)
    /\ \A idx \in G : \A i \in 1 .. Len(idx) :
          /\ AddToRecord(idx, i, b) \in G
          /\ \A c \in Time : idx[i].s < c /\ c < idx[i].e => SplitRecord(idx, i, c) \in G
    /\ \A idx \in G : \A n0, n1 \in Time :
          ~Meets(idx, n0, n1) /\ (ordered => n0 <= n1) =>
             InsertAt(idx, InsertionPoint(idx, n0), [s |-> n0, e |-> n1, blocks |-> <<b>>]) \in G

LEMMA StepKeeps ==
    ASSUME NEW G, NEW b, NEW ordered, Keeps(G, b, ordered),
           NEW idx \in G, NEW n0 \in Time, NEW n1 \in Time, ordered => n0 <= n1, NEW t,
           Ends(b, idx, n0, n1, t) \/ Passes(b, idx, n0, n1, t)
    PROVE  t \in G
<1> DEFINE i == InsertionPoint(idx, n0)
<1>1. Meets(idx, n0, n1) => i \in 1 .. Len(idx)
  BY DEF Meets
<1>2. Meets(idx, n0, n1) => AddedAt(idx, n0, b) \in G
  BY <1>1 DEF Keeps, AddedAt
<1>3. ASSUME Meets(idx, n0, n1), NEW c \in Time, Met(idx, n0).s < c, c < Met(idx, n0).e
      PROVE  CutAt(idx, n0, c) \in G
  BY <1>1, <1>3 DEF Keeps, CutAt, Met
<1>4. ~Meets(idx, n0, n1) =>
         InsertAt(idx, i, [s |-> n0, e |-> n1, blocks |-> <<b>>]) \in G
  BY DEF Keeps
<1> QED
  BY <1>2, <1>3, <1>4 DEF Ends, Passes

LEMMA CallMeasure ==
    LET m == [call \in Calls |-> Effort(call[1], call[2], call[3])]
    IN  /\ \A call \in Calls : m[call] \in Nat
        /\ \A idx \in Seq(Record), n0 \in Time, n1 \in Time :
              m[<<idx, n0, n1>>] = Effort(idx, n0, n1)
<1> DEFINE m == [call \in Calls |-> Effort(call[1], call[2], call[3])]
<1>1. \A call \in Calls : call[2] \in Nat /\ call[3] \in Nat
  BY TimeAssumption DEF Calls
<1>2. \A call \in Calls : m[call] \in Nat
  BY <1>1, EffortType
<1>3. \A idx \in Seq(Record), n0 \in Time, n1 \in Time : m[<<idx, n0, n1>>] = Effort(idx, n0, n1)
  BY DEF Calls
<1> QED
  BY <1>2, <1>3

\* A set of calls that is not empty has one of least effort.
LEMMA LeastCall ==
    ASSUME NEW T, T \subseteq Calls, T # {}
    PROVE  \E idx \in Seq(Record), n0 \in Time, n1 \in Time :
              /\ <<idx, n0, n1>> \in T
              /\ \A u \in Seq(Record), m0 \in Time, m1 \in Time :
                    Effort(u, m0, m1) < Effort(idx, n0, n1) => <<u, m0, m1>> \notin T
<1> DEFINE m == [call \in Calls |-> Effort(call[1], call[2], call[3])]
<1>1. /\ \A call \in Calls : m[call] \in Nat
      /\ \A idx \in Seq(Record), n0 \in Time, n1 \in Time : m[<<idx, n0, n1>>] = Effort(idx, n0, n1)
  BY CallMeasure
<1> HIDE DEF m
<1>2. PICK call \in T : \A c \in Calls : m[c] < m[call] => c \notin T
  BY <1>1, LeastOf
<1>3. PICK idx \in Seq(Record), n0 \in Time, n1 \in Time : call = <<idx, n0, n1>>
  BY DEF Calls
<1>4. <<idx, n0, n1>> \in T /\ m[call] = Effort(idx, n0, n1)
  BY <1>1, <1>2, <1>3
<1>5. ASSUME NEW u \in Seq(Record), NEW m0 \in Time, NEW m1 \in Time,
             Effort(u, m0, m1) < Effort(idx, n0, n1)
      PROVE  <<u, m0, m1>> \notin T
  <2>1. <<u, m0, m1>> \in Calls
    BY DEF Calls
  <2>2. m[<<u, m0, m1>>] < m[call]
    BY <1>1, <1>4, <1>5
  <2> QED
    BY <1>2, <2>1, <2>2
<1> QED
  BY <1>4, <1>5

LEMMA InsertKeeps ==
    ASSUME NEW b \in Nat, NEW f, IsInsertion(f, b), NEW G, NEW ordered, Keeps(G, b, ordered),
           NEW start \in G, NEW s \in Time, NEW e \in Time, ordered => s <= e
    PROVE  f[<<start, s, e>>] \in G
<1> DEFINE Good(idx, n0, n1) == idx \in G /\ (ordered => n0 <= n1)
           T == {call \in Calls : Good(call[1], call[2], call[3]) /\ f[call] \notin G}
<1>1. G \subseteq Seq(Record)
  BY DEF Keeps
<1>2. ASSUME NEW idx \in Seq(Record), NEW n0 \in Time, NEW n1 \in Time
      PROVE  /\ <<idx, n0, n1>> \in T <=> Good(idx, n0, n1) /\ f[<<idx, n0, n1>>] \notin G
  BY DEF Calls
<1>3. SUFFICES ASSUME T # {} PROVE FALSE
  BY <1>1, <1>2
<1>4. T \subseteq Calls
  OBVIOUS
<1> HIDE DEF T
<1>5. PICK idx \in Seq(Record), n0 \in Time, n1 \in Time :
         /\ <<idx, n0, n1>> \in T
         /\ \A u \in Seq(Record), m0 \in Time, m1 \in Time :
               Effort(u, m0, m1) < Effort(idx, n0, n1) => <<u, m0, m1>> \notin T
  BY <1>3, <1>4, LeastCall
<1>6. idx \in G /\ (ordered => n0 <= n1) /\ f[<<idx, n0, n1>>] \notin G
  BY <1>2, <1>5
<1>7. ASSUME NEW u \in G, NEW m0 \in Time, NEW m1 \in Time, ordered => m0 <= m1,
             Effort(u, m0, m1) < Effort(idx, n0, n1)
      PROVE  f[<<u, m0, m1>>] \in G
  BY <1>1, <1>2, <1>5, <1>7
<1>8. f[<<idx, n0, n1>>] = Insertion(f, idx, n0, n1, b)
  BY DEF IsInsertion
<1>9. ASSUME NEW t, Ends(b, idx, n0, n1, t) \/ Passes(b, idx, n0, n1, t) PROVE t \in G
  BY <1>6, <1>9, StepKeeps
<1>10. ASSUME NEW t, IsEnd(b, idx, n0, n1, t) PROVE FALSE
  BY <1>6, <1>8, <1>9, <1>10 DEF IsEnd
<1>11. ASSUME NEW t, NEW m0, NEW m1, IsOne(b, idx, n0, n1, t, m0, m1) PROVE FALSE
  BY <1>6, <1>7, <1>8, <1>9, <1>11 DEF IsOne, GoesOn
<1>12. ASSUME NEW t, NEW k, NEW j, IsTwo(b, idx, n0, n1, t, k, j) PROVE FALSE
  <2>1. /\ t \in G /\ k \in Time /\ j \in Time /\ Effort(t, n0, k) < Effort(idx, n0, n1)
        /\ \A u : Effort(u, j, n1) < Effort(idx, n0, n1)
        /\ n0 <= k /\ j <= n1
    BY <1>9, <1>12 DEF IsTwo, GoesTwice
  <2> DEFINE u == f[<<t, n0, k>>]
  <2>2. u \in G
    BY <1>7, <2>1
  <2> HIDE DEF u
  <2>3. f[<<u, j, n1>>] \in G
    BY <1>7, <2>1, <2>2
  <2>4. Insertion(f, idx, n0, n1, b) = f[<<u, j, n1>>]
    BY <1>12 DEF IsTwo, u
  <2> QED
    BY <1>6, <1>8, <2>3, <2>4
<1> QED
  BY <1>10, <1>11, <1>12, InsertionSteps

\* The indices with a record for the times from x to y whose chain is in C.
Reaching(C, x, y) ==
    {idx \in Seq(Record) :
        \E k \in 1 .. Len(idx) : idx[k].s <= x /\ y <= idx[k].e /\ idx[k].blocks \in C}

\* The chains that name b, and those whose first block is h.
ChainsWith(b) == {chain \in Seq(Nat) : b \in ToSet(chain)}
ChainsFrom(h) == {chain \in Seq(Nat) : chain # <<>> /\ Head(chain) = h}

\* A chain stays in C when b goes to its end.
Grows(C, b) == \A chain \in Seq(Nat) : chain \in C => Append(chain, b) \in C

LEMMA AddedElement ==
    ASSUME NEW s \in Seq(Nat), NEW b \in Nat
    PROVE  ToSet(Append(s, b)) = ToSet(s) \cup {b}
<1>1. /\ Append(s, b) \in Seq(Nat) /\ Len(Append(s, b)) = Len(s) + 1 /\ Len(s) \in Nat
      /\ Append(s, b)[Len(s) + 1] = b
      /\ \A k \in 1 .. Len(s) : Append(s, b)[k] = s[k]
  OBVIOUS
<1>2. DOMAIN s = 1 .. Len(s) /\ DOMAIN Append(s, b) = (1 .. Len(s)) \cup {Len(s) + 1}
  BY <1>1
<1> QED
  BY <1>1, <1>2 DEF ToSet

LEMMA ChainsGrow ==
    ASSUME NEW b \in Nat, NEW c
    PROVE  Grows(ChainsWith(c), b) /\ Grows(ChainsFrom(c), b)
<1> SUFFICES ASSUME NEW chain \in Seq(Nat)
             PROVE  /\ chain \in ChainsWith(c) => Append(chain, b) \in ChainsWith(c)
                    /\ chain \in ChainsFrom(c) => Append(chain, b) \in ChainsFrom(c)
  BY DEF Grows
<1>1. Append(chain, b) \in Seq(Nat) /\ ToSet(Append(chain, b)) = ToSet(chain) \cup {b}
  BY AddedElement
<1>2. chain # <<>> => Append(chain, b) # <<>> /\ Head(Append(chain, b)) = Head(chain)
  <2>1. Len(Append(chain, b)) = Len(chain) + 1 /\ Len(chain) \in Nat
    OBVIOUS
  <2>2. Append(chain, b) # <<>>
    <3>1. Len(<<>>) = 0 /\ Len(Append(chain, b)) # 0
      BY <2>1
    <3> QED
      BY <3>1, Zenon
  <2>3. chain # <<>> => Append(chain, b)[1] = chain[1]
    OBVIOUS
  <2> QED
    BY <1>1, <2>2, <2>3
<1> QED
  BY <1>1, <1>2 DEF ChainsWith, ChainsFrom

LEMMA ReachingStays ==
    ASSUME NEW b \in Nat, NEW C, Grows(C, b), NEW x \in Nat, NEW y \in Nat, Together(x, y)
    PROVE  Keeps(Reaching(C, x, y), b, FALSE)
<1>1. ASSUME NEW idx \in Reaching(C, x, y), NEW i \in 1 .. Len(idx), NEW t \in Seq(Record),
             Chained(idx, i, b, t)
      PROVE  t \in Reaching(C, x, y)
  <2>1. PICK k \in 1 .. Len(idx) : idx[k].s <= x /\ y <= idx[k].e /\ idx[k].blocks \in C
    BY DEF Reaching
  <2>2. idx[i] \in Record /\ Len(t) = Len(idx)
    BY <1>1 DEF Reaching, Chained
  <2>3. CASE k # i
    <3>1. t[k] = idx[k]
      BY <1>1, <2>3 DEF Chained
    <3> QED
      BY <2>1, <2>2, <3>1 DEF Reaching
  <2>4. CASE k = i
    <3>1. idx[i].blocks \in Seq(Nat)
      BY <2>2 DEF Record
    <3>2. Append(idx[i].blocks, b) \in C
      BY <2>1, <2>4, <3>1 DEF Grows
    <3>3. t[i].s = idx[i].s /\ t[i].e = idx[i].e /\ t[i].blocks \in C
      BY <1>1, <2>1, <2>4, <3>2 DEF Chained
    <3> QED
      BY <2>1, <2>2, <2>4, <3>3 DEF Reaching
  <2> QED
    BY <2>3, <2>4
<1>2. ASSUME NEW idx \in Reaching(C, x, y), NEW i \in 1 .. Len(idx), NEW cut \in Time,
             NEW t \in Seq(Record), Parted(idx, i, cut, t)
      PROVE  t \in Reaching(C, x, y)
  <2>1. PICK k \in 1 .. Len(idx) : idx[k].s <= x /\ y <= idx[k].e /\ idx[k].blocks \in C
    BY DEF Reaching
  <2>2. Len(t) = Len(idx) + 1 /\ Len(idx) \in Nat /\ idx[i] \in Record
    BY <1>2 DEF Reaching, Parted
  <2>3. CASE k < i
    <3>1. t[k] = idx[k] /\ k \in 1 .. Len(t)
      BY <1>2, <2>2, <2>3 DEF Parted
    <3> QED
      BY <2>1, <3>1 DEF Reaching
  <2>4. CASE k > i
    <3>1. t[k + 1] = idx[k] /\ k + 1 \in 1 .. Len(t)
      BY <1>2, <2>2, <2>4 DEF Parted
    <3> QED
      BY <2>1, <3>1 DEF Reaching
  <2>5. CASE k = i
    <3>1. t[i] = Ending(idx[i], cut) /\ t[i + 1] = Starting(idx[i], cut)
      BY <1>2 DEF Parted
    <3>2. /\ t[i].s = idx[i].s /\ t[i].e = cut /\ t[i].blocks = idx[i].blocks
          /\ t[i + 1].s = cut /\ t[i + 1].e = idx[i].e /\ t[i + 1].blocks = idx[i].blocks
      BY <2>2, <3>1, CutRecord
    <3>3. i \in 1 .. Len(t) /\ i + 1 \in 1 .. Len(t)
      BY <2>2
    <3>4. cut \in Nat
      BY TimeAssumption
    <3>5. CASE y <= cut
      BY <2>1, <2>5, <3>2, <3>3, <3>5 DEF Reaching
    <3>6. CASE cut <= x
      BY <2>1, <2>5, <3>2, <3>3, <3>6 DEF Reaching
    <3>7. y <= cut \/ cut <= x
      BY <3>4 DEF Together
    <3> QED
      BY <3>5, <3>6, <3>7
  <2> QED
    BY <2>3, <2>4, <2>5
<1>3. ASSUME NEW idx \in Reaching(C, x, y), NEW i \in 1 .. Len(idx) + 1, NEW z \in Record,
             NEW t \in Seq(Record), Placed(idx, i, z, t)
      PROVE  t \in Reaching(C, x, y)
  <2>1. PICK k \in 1 .. Len(idx) : idx[k].s <= x /\ y <= idx[k].e /\ idx[k].blocks \in C
    BY DEF Reaching
  <2>2. Len(t) = Len(idx) + 1 /\ Len(idx) \in Nat
    BY <1>3 DEF Reaching, Placed
  <2>3. CASE k < i
    <3>1. t[k] = idx[k] /\ k \in 1 .. Len(t)
      BY <1>3, <2>2, <2>3 DEF Placed
    <3> QED
      BY <2>1, <3>1 DEF Reaching
  <2>4. CASE k >= i
    <3>1. t[k + 1] = idx[k] /\ k + 1 \in 1 .. Len(t)
      BY <1>3, <2>2, <2>4 DEF Placed
    <3> QED
      BY <2>1, <3>1 DEF Reaching
  <2> QED
    BY <2>3, <2>4
<1>4. ASSUME NEW idx \in Reaching(C, x, y), NEW i \in 1 .. Len(idx)
      PROVE  /\ AddToRecord(idx, i, b) \in Reaching(C, x, y)
             /\ \A cut \in Time : SplitRecord(idx, i, cut) \in Reaching(C, x, y)
  <2>1. idx \in Seq(Record)
    BY DEF Reaching
  <2> QED
    BY <1>1, <1>2, <2>1, AddChains, SplitParts
<1>5. ASSUME NEW idx \in Reaching(C, x, y), NEW n0 \in Time, NEW n1 \in Time
      PROVE  InsertAt(idx, InsertionPoint(idx, n0), [s |-> n0, e |-> n1, blocks |-> <<b>>])
                 \in Reaching(C, x, y)
  <2> DEFINE i == InsertionPoint(idx, n0)
             z == [s |-> n0, e |-> n1, blocks |-> <<b>>]
  <2>1. idx \in Seq(Record) /\ z \in Record
    BY DEF Reaching, Record
  <2>2. i \in 1 .. Len(idx) + 1
    BY <2>1, PointFacts
  <2> HIDE DEF i, z
  <2>3. InsertAt(idx, i, z) \in Reaching(C, x, y)
    BY <1>3, <2>1, <2>2, InsertAtPlaces
  <2> QED
    BY <2>3 DEF i, z
<1> QED
  BY <1>4, <1>5 DEF Keeps, Reaching

LEMMA AddedHolds ==
    ASSUME NEW b \in Nat, NEW x \in Nat, NEW idx \in Seq(Record), NEW i \in 1 .. Len(idx),
           NEW y \in Nat, idx[i].s <= x, y <= idx[i].e
    PROVE  AddToRecord(idx, i, b) \in Reaching(ChainsWith(b), x, y)
<1> DEFINE t == AddToRecord(idx, i, b)
<1>1. t \in Seq(Record) /\ Chained(idx, i, b, t)
  BY AddChains
<1> HIDE DEF t
<1>2. idx[i].blocks \in Seq(Nat)
  <2>1. idx[i] \in Record
    OBVIOUS
  <2> QED
    BY <2>1 DEF Record
<1>3. Append(idx[i].blocks, b) \in ChainsWith(b)
  BY <1>2, AddedElement DEF ChainsWith
<1>4. t[i].blocks \in ChainsWith(b) /\ t[i].s = idx[i].s /\ t[i].e = idx[i].e /\ Len(t) = Len(idx)
  BY <1>1, <1>2, <1>3 DEF Chained, ChainsWith
<1>5. t \in Reaching(ChainsWith(b), x, y)
  BY <1>1, <1>4 DEF Reaching
<1> QED
  BY <1>5 DEF t

LEMMA PutHolds ==
    ASSUME NEW b \in Nat, NEW idx \in Seq(Record), NEW i \in 1 .. Len(idx) + 1,
           NEW n0 \in Time, NEW n1 \in Time, NEW x \in Nat, NEW y \in Nat,
           n0 <= x, y <= n1
    PROVE  InsertAt(idx, i, [s |-> n0, e |-> n1, blocks |-> <<b>>]) \in Reaching(ChainsWith(b), x, y)
<1> DEFINE z == [s |-> n0, e |-> n1, blocks |-> <<b>>]
           t == InsertAt(idx, i, z)
<1>1. z \in Record /\ z.s = n0 /\ z.e = n1 /\ z.blocks \in ChainsWith(b)
  <2>1. <<b>> \in ChainsWith(b)
    BY DEF ToSet, ChainsWith
  <2> QED
    BY <2>1 DEF Record
<1> HIDE DEF z
<1>2. t \in Seq(Record) /\ Placed(idx, i, z, t)
  BY <1>1, InsertAtPlaces
<1> HIDE DEF t
<1>3. i \in 1 .. Len(t) /\ t[i] = z
  BY <1>2 DEF Placed
<1>4. t \in Reaching(ChainsWith(b), x, y)
  BY <1>1, <1>2, <1>3 DEF Reaching
<1> QED
  BY <1>4 DEF t, z

\* Whatever is cut, each time and each moment of the range leads to the block
\* that is inserted.
LEMMA InsertCovers ==
    ASSUME NEW b \in Nat, NEW f, IsInsertion(f, b),
           NEW start \in Seq(Record), NEW s \in Time, NEW e \in Time,
           NEW x \in Nat, NEW y \in Nat, Together(x, y), s <= x, y <= e
    PROVE  f[<<start, s, e>>] \in Reaching(ChainsWith(b), x, y)
<1> DEFINE G == Reaching(ChainsWith(b), x, y)
           Good(n0, n1) == n0 <= x /\ y <= n1
           T == {call \in Calls : Good(call[2], call[3]) /\ f[call] \notin G}
<1>1. Keeps(G, b, FALSE)
  BY ChainsGrow, ReachingStays
<1>2. ASSUME NEW idx \in Seq(Record), NEW n0 \in Time, NEW n1 \in Time
      PROVE  <<idx, n0, n1>> \in T <=> Good(n0, n1) /\ f[<<idx, n0, n1>>] \notin G
  BY DEF Calls
<1>3. SUFFICES ASSUME T # {} PROVE FALSE
  BY <1>2
<1>4. T \subseteq Calls
  OBVIOUS
<1> HIDE DEF T
<1>5. PICK idx \in Seq(Record), n0 \in Time, n1 \in Time :
         /\ <<idx, n0, n1>> \in T
         /\ \A u \in Seq(Record), m0 \in Time, m1 \in Time :
               Effort(u, m0, m1) < Effort(idx, n0, n1) => <<u, m0, m1>> \notin T
  BY <1>3, <1>4, LeastCall
<1>6. n0 <= x /\ y <= n1 /\ f[<<idx, n0, n1>>] \notin G /\ n0 \in Nat /\ n1 \in Nat
  BY <1>2, <1>5, TimeAssumption
<1>7. ASSUME NEW u \in Seq(Record), NEW m0 \in Time, NEW m1 \in Time, m0 <= x, y <= m1,
             Effort(u, m0, m1) < Effort(idx, n0, n1)
      PROVE  f[<<u, m0, m1>>] \in G
  BY <1>2, <1>5, <1>7
<1>8. f[<<idx, n0, n1>>] = Insertion(f, idx, n0, n1, b)
  BY DEF IsInsertion
<1>14. x \in n0 .. n1 /\ y \in n0 .. n1
  BY <1>6 DEF Together
<1> HIDE DEF G
<1>9. ASSUME NEW u \in G, NEW m0 \in Time, NEW m1 \in Time
      PROVE  f[<<u, m0, m1>>] \in G
  BY <1>1, <1>9, InsertKeeps
<1>10. ASSUME NEW t, Settles(b, idx, n0, t, x, y), Meets(idx, n0, n1)
       PROVE  t \in G
  <2>1. InsertionPoint(idx, n0) \in 1 .. Len(idx)
    BY <1>10 DEF Meets
  <2> QED
    BY <1>10, <2>1, AddedHolds DEF Settles, Met, AddedAt, G
<1>11. ASSUME NEW t, IsEnd(b, idx, n0, n1, t) PROVE FALSE
  <2>1. InsertionPoint(idx, n0) \in 1 .. Len(idx) + 1
    BY PointFacts
  <2>2. ~Meets(idx, n0, n1) =>
          InsertAt(idx, InsertionPoint(idx, n0), [s |-> n0, e |-> n1, blocks |-> <<b>>]) \in G
    BY <1>6, <2>1, PutHolds DEF G
  <2>3. Met(idx, n0).s = n0 /\ Met(idx, n0).e = n1 /\ t = AddedAt(idx, n0, b)
          => Settles(b, idx, n0, t, x, y)
    BY <1>6 DEF Settles
  <2> QED
    BY <1>6, <1>8, <1>10, <1>11, <2>2, <2>3 DEF IsEnd, Ends
<1>12. ASSUME NEW t, NEW m0, NEW m1, IsOne(b, idx, n0, n1, t, m0, m1) PROVE FALSE
  <2>1. /\ Passes(b, idx, n0, n1, t) /\ m0 \in Time /\ m1 \in Time
        /\ Effort(t, m0, m1) < Effort(idx, n0, n1)
        /\ (m0 <= x /\ y <= m1) \/ Settles(b, idx, n0, t, x, y)
    BY <1>14, <1>12 DEF IsOne, GoesOn
  <2>2. t \in Seq(Record) /\ Meets(idx, n0, n1)
    BY <2>1, StepTypes DEF Passes
  <2>3. f[<<t, m0, m1>>] \in G
    BY <1>7, <1>9, <1>10, <2>1, <2>2
  <2> QED
    BY <1>6, <1>8, <1>12, <2>3 DEF IsOne
<1>13. ASSUME NEW t, NEW k, NEW j, IsTwo(b, idx, n0, n1, t, k, j) PROVE FALSE
  <2>1. /\ Passes(b, idx, n0, n1, t) /\ k \in Time /\ j \in Time
        /\ Effort(t, n0, k) < Effort(idx, n0, n1)
        /\ \A u : Effort(u, j, n1) < Effort(idx, n0, n1)
        /\ y <= k \/ j <= x \/ Settles(b, idx, n0, t, x, y)
    BY <1>14, <1>13 DEF IsTwo, GoesTwice
  <2>2. t \in Seq(Record) /\ Meets(idx, n0, n1)
    BY <2>1, StepTypes DEF Passes
  <2> DEFINE u == f[<<t, n0, k>>]
  <2>3. u \in Seq(Record)
    BY <2>1, <2>2 DEF IsInsertion, Calls
  <2>4. y <= k => u \in G
    BY <1>6, <1>7, <2>1, <2>2
  <2>5. t \in G => u \in G
    BY <1>9, <2>1
  <2>6. Insertion(f, idx, n0, n1, b) = f[<<u, j, n1>>]
    BY <1>13 DEF IsTwo
  <2> HIDE DEF u
  <2>7. f[<<u, j, n1>>] \in G
    BY <1>6, <1>7, <1>9, <1>10, <2>1, <2>2, <2>3, <2>4, <2>5
  <2> QED
    BY <1>6, <1>8, <2>6, <2>7
<1> QED
  BY <1>11, <1>12, <1>13, InsertionSteps

\* The index that insertDatablock leaves.
LEMMA InsertHolds ==
    ASSUME NEW idx \in Seq(Record), NEW s \in Time, NEW e \in Time, NEW b \in Nat,
           NEW x \in Nat, NEW y \in Nat, Together(x, y)
    PROVE  LET new == InsertDatablock(idx, s, e, b)
           IN  /\ new \in Seq(Record)
               /\ s <= x /\ y <= e => new \in Reaching(ChainsWith(b), x, y)
               /\ \A C : Grows(C, b) /\ idx \in Reaching(C, x, y) => new \in Reaching(C, x, y)
<1> DEFINE new == InsertDatablock(idx, s, e, b)
<1>1. PICK f : /\ IsInsertion(f, b)
               /\ \A i \in Seq(Record), n0 \in Time, n1 \in Time :
                     InsertDatablock(i, n0, n1, b) = f[<<i, n0, n1>>]
  BY InsertionDefined
<1>2. new = f[<<idx, s, e>>]
  BY <1>1
<1> HIDE DEF new
<1>3. new \in Seq(Record)
  BY <1>1, <1>2 DEF IsInsertion, Calls
<1>4. s <= x /\ y <= e => new \in Reaching(ChainsWith(b), x, y)
  BY <1>1, <1>2, InsertCovers
<1>5. ASSUME NEW C, Grows(C, b), idx \in Reaching(C, x, y)
      PROVE  new \in Reaching(C, x, y)
  <2>1. Keeps(Reaching(C, x, y), b, FALSE)
    BY <1>5, ReachingStays
  <2> QED
    BY <1>1, <1>2, <1>5, <2>1, InsertKeeps
<1> QED
  BY <1>3, <1>4, <1>5 DEF new

\* The index that updateLastDatablock leaves.
LEMMA UpdateHolds ==
    ASSUME NEW idx \in Seq(Record), NEW s \in Time, NEW e \in Time, NEW b \in Nat,
           NEW x \in Nat, NEW y \in Nat, Together(x, y)
    PROVE  LET new == UpdateLastDatablock(idx, s, e, b)
           IN  /\ new \in Seq(Record)
               /\ s <= x /\ y <= e => new \in Reaching(ChainsWith(b), x, y)
               /\ \A C : Grows(C, b) /\ idx \in Reaching(C, x, y) => new \in Reaching(C, x, y)
<1> DEFINE n == Len(idx)
           new == UpdateLastDatablock(idx, s, e, b)
<1>1. CASE n > 0 /\ idx[n].s = s /\ idx[n].e <= e /\ idx[n].blocks = <<b>>
  <2>1. new = [idx EXCEPT ![n] = Ending(idx[n], e)]
    BY <1>1 DEF UpdateLastDatablock, Ending
  <2>2. n \in 1 .. Len(idx) /\ idx[n] \in Record
    BY <1>1
  <2> DEFINE z == Ending(idx[n], e)
  <2>3. z \in Record /\ z.s = s /\ z.e = e /\ z.blocks = <<b>>
    BY <1>1, <2>2, CutRecord
  <2> HIDE DEF z
  <2>4. /\ new \in Seq(Record) /\ Len(new) = Len(idx) /\ new[n] = z
        /\ \A k \in 1 .. Len(idx) : k # n => new[k] = idx[k]
    <3>1. new = [idx EXCEPT ![n] = z]
      BY <2>1 DEF z
    <3> QED
      BY <2>2, <2>3, <3>1
  <2> HIDE DEF new
  <2>5. <<b>> \in ChainsWith(b)
    BY DEF ToSet, ChainsWith
  <2>6. s <= x /\ y <= e => new \in Reaching(ChainsWith(b), x, y)
    BY <2>2, <2>3, <2>4, <2>5 DEF Reaching
  <2>7. ASSUME NEW C, idx \in Reaching(C, x, y)
        PROVE  new \in Reaching(C, x, y)
    <3>1. PICK k \in 1 .. Len(idx) : idx[k].s <= x /\ y <= idx[k].e /\ idx[k].blocks \in C
      BY <2>7 DEF Reaching
    <3>2. CASE k # n
      BY <2>4, <3>1, <3>2 DEF Reaching
    <3>3. CASE k = n
      <4>1. y <= e
        <5>1. idx[n].e \in Nat /\ e \in Nat
          BY <2>2, TimeAssumption DEF Record
        <5> QED
          BY <1>1, <3>1, <3>3, <5>1
      <4>2. new[n].s <= x /\ y <= new[n].e /\ new[n].blocks \in C
        BY <1>1, <2>3, <2>4, <3>1, <3>3, <4>1
      <4> QED
        BY <2>2, <2>4, <4>2 DEF Reaching
    <3> QED
      BY <3>2, <3>3
  <2> QED
    BY <2>4, <2>6, <2>7 DEF new
<1>2. CASE ~(n > 0 /\ idx[n].s = s /\ idx[n].e <= e /\ idx[n].blocks = <<b>>)
  <2>1. new = InsertDatablock(idx, s, e, b)
    BY <1>2 DEF UpdateLastDatablock
  <2> HIDE DEF new
  <2> QED
    BY <2>1, InsertHolds DEF new
<1> QED
  BY <1>1, <1>2

LEMMA UpdateLeads ==
    ASSUME NEW idx \in Seq(Record), NEW s \in Time, NEW e \in Time, NEW b \in Nat
    PROVE  /\ UpdateLastDatablock(idx, s, e, b) \in Seq(Record)
           /\ \A x \in Nat : s <= x /\ x <= e => LeadsTo(UpdateLastDatablock(idx, s, e, b), b, x)
           /\ \A c, x \in Nat : LeadsTo(idx, c, x) => LeadsTo(UpdateLastDatablock(idx, s, e, b), c, x)
<1> DEFINE new == UpdateLastDatablock(idx, s, e, b)
<1>1. \A u \in Seq(Record) : \A c, x : LeadsTo(u, c, x) <=> u \in Reaching(ChainsWith(c), x, x)
  <2> TAKE u \in Seq(Record)
  <2>1. \A k \in 1 .. Len(u) : u[k].blocks \in Seq(Nat)
    <3>1. \A k \in 1 .. Len(u) : u[k] \in Record
      OBVIOUS
    <3> QED
      BY <3>1 DEF Record
  <2> QED
    BY <2>1 DEF LeadsTo, Reaching, ChainsWith
<1>2. \A x \in Nat : Together(x, x)
  BY DEF Together
<1>3. \A c \in Nat : Grows(ChainsWith(c), b)
  BY ChainsGrow
<1>4. \A x \in Nat :
         /\ new \in Seq(Record)
         /\ s <= x /\ x <= e => new \in Reaching(ChainsWith(b), x, x)
         /\ \A C : Grows(C, b) /\ idx \in Reaching(C, x, x) => new \in Reaching(C, x, x)
  BY <1>2, UpdateHolds
<1> HIDE DEF new
<1>5. new \in Seq(Record)
  BY <1>4
<1> QED
  BY <1>1, <1>3, <1>4, <1>5 DEF new

\* The indices whose records lead to the blocks of D.
Chains(D) ==
    {idx \in Seq(Record) : \A k \in 1 .. Len(idx) :
        idx[k].blocks # <<>> /\ ToSet(idx[k].blocks) \subseteq D}

LEMMA ChainsStay ==
    ASSUME NEW D, NEW b \in Nat, b \in D
    PROVE  Keeps(Chains(D), b, FALSE)
<1> DEFINE Fit(x) == x.blocks # <<>> /\ ToSet(x.blocks) \subseteq D
<1>0. \A idx : idx \in Chains(D) <=> idx \in Seq(Record) /\ \A k \in 1 .. Len(idx) : Fit(idx[k])
  BY DEF Chains
<1>1. ASSUME NEW idx \in Seq(Record), idx \in Chains(D), NEW i \in 1 .. Len(idx),
             NEW t \in Seq(Record), Chained(idx, i, b, t)
      PROVE  t \in Chains(D)
  <2>1. idx[i] \in Record /\ idx[i].blocks \in Seq(Nat) /\ Fit(idx[i])
    <3>1. idx[i] \in Record /\ Fit(idx[i])
      <4> HIDE DEF Fit
      <4> QED
        BY <1>0, <1>1
    <3> QED
      BY <3>1 DEF Record
  <2>2. ToSet(Append(idx[i].blocks, b)) = ToSet(idx[i].blocks) \cup {b}
    BY <2>1, AddedElement
  <2>3. Append(idx[i].blocks, b) # <<>>
    <3>1. PICK chain \in Seq(Nat) : chain = idx[i].blocks
      BY <2>1
    <3>2. Len(Append(chain, b)) = Len(chain) + 1 /\ Len(chain) \in Nat
      OBVIOUS
    <3>3. Append(chain, b) # <<>>
      <4>1. Len(<<>>) = 0 /\ Len(Append(chain, b)) # 0
        BY <3>2
      <4> QED
        BY <4>1, Zenon
    <3> QED
      BY <3>1, <3>3
  <2>4. Fit(t[i])
    BY <1>1, <2>1, <2>2, <2>3 DEF Chained
  <2> HIDE DEF Fit
  <2> QED
    BY <1>0, <1>1, <2>4 DEF Chained
<1>2. ASSUME NEW idx \in Seq(Record), idx \in Chains(D), NEW i \in 1 .. Len(idx),
             NEW cut \in Time, NEW t \in Seq(Record), Parted(idx, i, cut, t)
      PROVE  t \in Chains(D)
  <2>1. idx[i] \in Record /\ Fit(idx[i]) /\ Len(idx) \in Nat
    BY <1>0, <1>2
  <2>2. t[i] = Ending(idx[i], cut) /\ t[i + 1] = Starting(idx[i], cut)
    BY <1>2 DEF Parted
  <2>3. Fit(t[i]) /\ Fit(t[i + 1])
    BY <2>1, <2>2, CutRecord
  <2> HIDE DEF Fit
  <2>4. ASSUME NEW k \in 1 .. Len(t)
        PROVE  Fit(t[k])
    <3>1. Len(t) = Len(idx) + 1
      BY <1>2 DEF Parted
    <3>2. CASE k < i
      <4>1. k \in 1 .. Len(idx) /\ t[k] = idx[k]
        BY <1>2, <3>1, <3>2 DEF Parted
      <4> QED
        BY <1>0, <1>2, <4>1
    <3>3. CASE k > i + 1
      <4>1. k - 1 \in 1 .. Len(idx) /\ k - 1 > i /\ (k - 1) + 1 = k
        BY <2>1, <3>1, <3>3
      <4>2. t[k] = idx[k - 1]
        BY <1>2, <4>1 DEF Parted
      <4> QED
        BY <1>0, <1>2, <4>1, <4>2
    <3> QED
      BY <2>1, <2>3, <3>1, <3>2, <3>3
  <2> QED
    BY <1>0, <2>4
<1>3. ASSUME NEW idx \in Seq(Record), idx \in Chains(D), NEW i \in 1 .. Len(idx) + 1,
             NEW y \in Record, Fit(y), NEW t \in Seq(Record), Placed(idx, i, y, t)
      PROVE  t \in Chains(D)
  <2> HIDE DEF Fit
  <2>1. ASSUME NEW k \in 1 .. Len(t)
        PROVE  Fit(t[k])
    <3>1. Len(t) = Len(idx) + 1 /\ t[i] = y /\ Len(idx) \in Nat
      BY <1>3 DEF Placed
    <3>2. CASE k < i
      <4>1. k \in 1 .. Len(idx) /\ t[k] = idx[k]
        BY <1>3, <3>1, <3>2 DEF Placed
      <4> QED
        BY <1>0, <1>3, <4>1
    <3>3. CASE k > i
      <4>1. k - 1 \in 1 .. Len(idx) /\ k - 1 >= i /\ (k - 1) + 1 = k
        BY <3>1, <3>3
      <4>2. t[k] = idx[k - 1]
        BY <1>3, <4>1 DEF Placed
      <4> QED
        BY <1>0, <1>3, <4>1, <4>2
    <3> QED
      BY <1>3, <3>1, <3>2, <3>3
  <2> QED
    BY <1>0, <2>1
<1>4. ASSUME NEW idx \in Chains(D), NEW i \in 1 .. Len(idx)
      PROVE  /\ AddToRecord(idx, i, b) \in Chains(D)
             /\ \A cut \in Time : SplitRecord(idx, i, cut) \in Chains(D)
  <2>1. idx \in Seq(Record)
    BY <1>0
  <2> QED
    BY <1>1, <1>2, <2>1, AddChains, SplitParts
<1>5. ASSUME NEW idx \in Chains(D), NEW n0 \in Time, NEW n1 \in Time
      PROVE  InsertAt(idx, InsertionPoint(idx, n0), [s |-> n0, e |-> n1, blocks |-> <<b>>])
                 \in Chains(D)
  <2> DEFINE i == InsertionPoint(idx, n0)
             y == [s |-> n0, e |-> n1, blocks |-> <<b>>]
  <2>1. idx \in Seq(Record) /\ y \in Record /\ Fit(y)
    <3>1. <<b>> # <<>> /\ ToSet(<<b>>) = {b}
      BY DEF ToSet
    <3>2. y \in Record /\ y.blocks = <<b>>
      BY DEF Record
    <3> QED
      BY <1>0, <3>1, <3>2
  <2>2. i \in 1 .. Len(idx) + 1
    BY <2>1, PointFacts
  <2> HIDE DEF i, y, Fit
  <2>3. InsertAt(idx, i, y) \in Chains(D)
    BY <1>3, <2>1, <2>2, InsertAtPlaces
  <2> QED
    BY <2>3 DEF i, y
<1>6. Chains(D) \subseteq Seq(Record)
  BY <1>0
<1> QED
  BY <1>4, <1>5, <1>6 DEF Keeps

\* The records of the index lead to blocks that exist.
LEMMA UpdateChains ==
    ASSUME NEW D, NEW idx \in Chains(D), NEW s \in Time, NEW e \in Time, NEW b \in Nat, b \in D
    PROVE  UpdateLastDatablock(idx, s, e, b) \in Chains(D)
<1> DEFINE n == Len(idx)
           new == UpdateLastDatablock(idx, s, e, b)
<1>0. idx \in Seq(Record) /\ Keeps(Chains(D), b, FALSE)
  BY ChainsStay DEF Chains
<1>1. CASE n > 0 /\ idx[n].s = s /\ idx[n].e <= e /\ idx[n].blocks = <<b>>
  <2> DEFINE y == Ending(idx[n], e)
  <2>1. new = [idx EXCEPT ![n] = y]
    BY <1>1 DEF UpdateLastDatablock, Ending
  <2>2. n \in 1 .. Len(idx) /\ idx[n] \in Record
    BY <1>0, <1>1
  <2>3. y \in Record /\ y.blocks = idx[n].blocks
    BY <2>2, CutRecord
  <2> HIDE DEF y, new
  <2>4. /\ new \in Seq(Record) /\ Len(new) = Len(idx)
        /\ \A k \in 1 .. Len(idx) : new[k].blocks = idx[k].blocks
    BY <1>0, <2>1, <2>2, <2>3
  <2>5. new \in Chains(D)
    BY <2>4 DEF Chains
  <2> QED
    BY <2>5 DEF new
<1>2. CASE ~(n > 0 /\ idx[n].s = s /\ idx[n].e <= e /\ idx[n].blocks = <<b>>)
  <2>1. new = InsertDatablock(idx, s, e, b)
    BY <1>2 DEF UpdateLastDatablock
  <2>2. PICK f : /\ IsInsertion(f, b)
                 /\ \A i \in Seq(Record), n0 \in Time, n1 \in Time :
                       InsertDatablock(i, n0, n1, b) = f[<<i, n0, n1>>]
    BY InsertionDefined
  <2>3. new = f[<<idx, s, e>>]
    BY <1>0, <2>1, <2>2
  <2> QED
    BY <1>0, <2>2, <2>3, InsertKeeps
<1> QED
  BY <1>1, <1>2

-----------------------------------------------------------------------------
(* Indices in order, whose records are all of one kind.                    *)

LEMMA MaxIn ==
    ASSUME NEW n \in Nat, NEW S, S \subseteq 1 .. n, S # {}
    PROVE  Max(S) \in S /\ \A k \in S : k <= Max(S)
<1> DEFINE m == [k \in 1 .. n |-> n - k]
<1>1. \A k \in S : m[k] \in Nat /\ m[k] = n - k /\ k \in Nat
  OBVIOUS
<1> HIDE DEF m
<1>2. PICK x \in S : \A y \in S : m[x] <= m[y]
  BY <1>1, LeastMeasure
<1>3. \A y \in S : x >= y
  <2> TAKE y \in S
  <2>1. n - x <= n - y
    BY <1>1, <1>2
  <2> QED
    BY <1>1, <2>1
<1>4. Max(S) \in S /\ \A y \in S : Max(S) >= y
  BY <1>3 DEF Max
<1> QED
  BY <1>1, <1>4

LEMMA RecordFound ==
    ASSUME NEW idx \in Seq(Record), idx # <<>>, NEW t \in Nat
    PROVE  SearchRecord(idx, t) \in 1 .. Len(idx)
<1> DEFINE before == {i \in 1 .. Len(idx) : idx[i].s <= t}
<1>1. Len(idx) \in Nat /\ 1 \in 1 .. Len(idx)
  OBVIOUS
<1>2. idx[1].s \in Nat
  <2>1. idx[1] \in Record
    BY <1>1
  <2> QED
    BY <2>1, TimeAssumption DEF Record
<1>3. CASE t < idx[1].s
  <2>1. SearchRecord(idx, t) = 1
    BY <1>3 DEF SearchRecord
  <2> QED
    BY <1>1, <2>1
<1>4. CASE ~(t < idx[1].s)
  <2>1. 1 \in before
    BY <1>1, <1>2, <1>4
  <2>2. Max(before) \in 1 .. Len(idx)
    <3>1. before \subseteq 1 .. Len(idx)
      OBVIOUS
    <3> HIDE DEF before
    <3>2. Max(before) \in before
      BY <1>1, <2>1, <3>1, MaxIn
    <3> QED
      BY <3>1, <3>2
  <2>3. SearchRecord(idx, t) = Max(before)
    BY <1>4 DEF SearchRecord
  <2> QED
    BY <2>2, <2>3
<1> QED
  BY <1>3, <1>4


\* What a search comes to: the last record that starts by then, or the first.
LEMMA SearchEnds ==
    ASSUME NEW idx \in Seq(Record), idx # <<>>, NEW t \in Nat
    PROVE  LET k == SearchRecord(idx, t)
           IN  /\ k \in 1 .. Len(idx)
               /\ k = 1 \/ idx[k].s <= t
               /\ idx[1].s <= t => idx[k].s <= t /\ \A j \in 1 .. Len(idx) : j > k => idx[j].s > t
<1> DEFINE before == {i \in 1 .. Len(idx) : idx[i].s <= t}
           k == SearchRecord(idx, t)
<1>1. k \in 1 .. Len(idx) /\ Len(idx) \in Nat /\ 1 \in 1 .. Len(idx)
  <2>1. Len(idx) # 0
    BY DEF Seq
  <2> QED
    BY <2>1, RecordFound
<1>2. \A i \in 1 .. Len(idx) : idx[i].s \in Nat
  <2>1. \A i \in 1 .. Len(idx) : idx[i] \in Record
    OBVIOUS
  <2> QED
    BY <2>1, TimeAssumption DEF Record
<1>3. CASE t < idx[1].s
  <2>1. k = 1
    BY <1>3 DEF SearchRecord
  <2> QED
    BY <1>1, <1>2, <1>3, <2>1
<1>4. CASE ~(t < idx[1].s)
  <2>1. 1 \in before
    BY <1>1, <1>2, <1>4
  <2>2. k = Max(before)
    BY <1>4 DEF SearchRecord
  <2>3. k \in before /\ \A i \in before : i <= k
    <3>1. before \subseteq 1 .. Len(idx)
      OBVIOUS
    <3> HIDE DEF before, k
    <3> QED
      BY <1>1, <2>1, <2>2, <3>1, MaxIn
  <2>4. \A j \in 1 .. Len(idx) : j > k => idx[j].s > t
    <3> TAKE j \in 1 .. Len(idx)
    <3> HAVE j > k
    <3>1. j \notin before
      <4> HIDE DEF before, k
      <4> QED
        BY <1>1, <2>3
    <3> QED
      BY <1>2, <3>1
  <2>5. idx[k].s <= t
    BY <2>3
  <2> QED
    BY <1>1, <2>4, <2>5
<1> QED
  BY <1>3, <1>4

\* The indices in order with records of P.
Tidy(P) == {idx \in Seq(Record) : Ordered(idx) /\ \A k \in 1 .. Len(idx) : idx[k] \in P}

WithBlock(x, b) == [x EXCEPT !.blocks = Append(@, b)]

\* What makes the records stay in P when block b is inserted at ranges with ends in W.
Fits(P, W, b) ==
    /\ P \subseteq Record /\ W \subseteq Time
    /\ \A n0, n1 \in W : n0 <= n1 => [s |-> n0, e |-> n1, blocks |-> <<b>>] \in P
    /\ \A x \in P : \A n0, n1 \in W : x.s < n1 /\ n0 < x.e /\ n0 <= n1 =>
          /\ n0 <= x.s => x.s \in W
          /\ x.e <= n1 => x.e \in W
          /\ n0 <= x.s /\ x.e <= n1 /\ b \notin ToSet(x.blocks) => WithBlock(x, b) \in P
    /\ \A x \in P : \A c \in W : x.s < c /\ c < x.e => Ending(x, c) \in P /\ Starting(x, c) \in P
    /\ \A x \in P : \A e \in W : x.blocks = <<b>> /\ x.s \in W /\ x.e <= e => Ending(x, e) \in P

LEMMA TidyTimes ==
    ASSUME NEW P, NEW idx \in Tidy(P)
    PROVE  /\ idx \in Seq(Record) /\ Ordered(idx) /\ Len(idx) \in Nat
           /\ \A k \in 1 .. Len(idx) :
                 /\ idx[k] \in P /\ idx[k] \in Record
                 /\ idx[k].s \in Time /\ idx[k].e \in Time /\ idx[k].blocks \in Seq(Nat)
                 /\ idx[k].s \in Nat /\ idx[k].e \in Nat
<1>1. idx \in Seq(Record) /\ Ordered(idx) /\ \A k \in 1 .. Len(idx) : idx[k] \in P
  BY DEF Tidy
<1>2. Len(idx) \in Nat /\ \A k \in 1 .. Len(idx) : idx[k] \in Record
  BY <1>1
<1>3. \A k \in 1 .. Len(idx) : idx[k].s \in Time /\ idx[k].e \in Time /\ idx[k].blocks \in Seq(Nat)
  BY <1>2 DEF Record
<1> QED
  BY <1>1, <1>2, <1>3, TimeAssumption

\* A new record goes between those before and those behind its range.
LEMMA PlacedTidy ==
    ASSUME NEW P, NEW idx \in Tidy(P), NEW n0 \in Time, NEW n1 \in Time, NEW b, n0 <= n1,
           ~Meets(idx, n0, n1), P \subseteq Record,
           [s |-> n0, e |-> n1, blocks |-> <<b>>] \in P
    PROVE  InsertAt(idx, InsertionPoint(idx, n0), [s |-> n0, e |-> n1, blocks |-> <<b>>]) \in Tidy(P)
<1> DEFINE i == InsertionPoint(idx, n0)
           x == [s |-> n0, e |-> n1, blocks |-> <<b>>]
           t == InsertAt(idx, i, x)
<1>1. /\ idx \in Seq(Record) /\ Ordered(idx) /\ Len(idx) \in Nat
      /\ \A k \in 1 .. Len(idx) :
            idx[k] \in P /\ idx[k] \in Record /\ idx[k].s \in Nat /\ idx[k].e \in Nat
  BY TidyTimes
<1>2. n0 \in Nat /\ n1 \in Nat /\ x.s = n0 /\ x.e = n1 /\ x \in P /\ x \in Record
  BY TimeAssumption
<1>3. /\ i \in 1 .. Len(idx) + 1
      /\ \A k \in 1 .. Len(idx) : k < i => idx[k].e <= n0
      /\ i <= Len(idx) => idx[i].e > n0
  BY <1>1, PointFacts
<1>4. i <= Len(idx) => n1 <= idx[i].s
  BY <1>1, <1>2, <1>3 DEF Meets
<1> HIDE DEF i, x
<1>5. t \in Seq(Record) /\ Placed(idx, i, x, t)
  BY <1>1, <1>2, <1>3, InsertAtPlaces
<1> HIDE DEF t
<1>6. /\ Len(t) = Len(idx) + 1
      /\ \A k \in 1 .. Len(idx) : k < i => t[k] = idx[k]
      /\ t[i] = x
      /\ \A k \in 1 .. Len(idx) : i <= k => t[k + 1] = idx[k]
  BY <1>5 DEF Placed
<1>7. \A k \in 1 .. Len(t) : \/ k < i /\ k \in 1 .. Len(idx) /\ t[k] = idx[k]
                             \/ k = i /\ t[k] = x
                             \/ k > i /\ k - 1 \in 1 .. Len(idx) /\ i <= k - 1 /\ t[k] = idx[k - 1]
  <2> TAKE k \in 1 .. Len(t)
  <2>1. k \in Nat /\ k <= Len(idx) + 1 /\ i \in Nat
    BY <1>1, <1>3, <1>6
  <2>2. k > i => k - 1 \in 1 .. Len(idx) /\ i <= k - 1 /\ t[(k - 1) + 1] = idx[k - 1] /\ (k - 1) + 1 = k
    BY <1>1, <1>3, <1>6, <2>1
  <2>3. k < i => k \in 1 .. Len(idx) /\ t[k] = idx[k]
    BY <1>1, <1>3, <1>6, <2>1
  <2> QED
    BY <1>6, <2>1, <2>2, <2>3
<1>8. \A k \in 1 .. Len(t) : t[k] \in P /\ t[k].s <= t[k].e
  BY <1>1, <1>2, <1>7 DEF Ordered
<1>9. \A k \in 1 .. Len(idx) : i <= k => n1 <= idx[k].s
  <2> TAKE k \in 1 .. Len(idx)
  <2> HAVE i <= k
  <2>1. i \in 1 .. Len(idx) /\ n1 <= idx[i].s
    BY <1>1, <1>3, <1>4
  <2>2. idx[i].s <= idx[i].e /\ (i < k => idx[i].e <= idx[k].s)
    BY <1>1, <2>1 DEF Ordered
  <2> QED
    BY <1>1, <1>2, <2>1, <2>2
<1>10. ASSUME NEW k \in 1 .. Len(t), NEW j \in 1 .. Len(t), k < j PROVE t[k].e <= t[j].s
  <2>1. k \in Nat /\ j \in Nat /\ i \in Nat
    BY <1>1, <1>3
  <2>2. CASE j < i
    BY <1>1, <1>7, <1>10, <2>1, <2>2 DEF Ordered
  <2>3. CASE j = i
    <3>1. k \in 1 .. Len(idx) /\ t[k] = idx[k] /\ k < i
      BY <1>7, <1>10, <2>1, <2>3
    <3>2. idx[k].e <= n0
      BY <1>3, <3>1
    <3>3. t[j] = x
      BY <1>6, <2>3
    <3> QED
      BY <1>2, <3>1, <3>2, <3>3
  <2>4. CASE j > i /\ k < i
    <3>1. k \in 1 .. Len(idx) /\ t[k] = idx[k] /\ j - 1 \in 1 .. Len(idx) /\ t[j] = idx[j - 1] /\ k < j - 1
      BY <1>7, <1>10, <2>1, <2>4
    <3> QED
      BY <1>1, <3>1 DEF Ordered
  <2>5. CASE j > i /\ k = i
    <3>1. j - 1 \in 1 .. Len(idx) /\ t[j] = idx[j - 1] /\ i <= j - 1
      BY <1>7, <2>1, <2>5
    <3>2. t[k] = x
      BY <1>6, <2>5
    <3> QED
      BY <1>2, <1>9, <3>1, <3>2
  <2>6. CASE j > i /\ k > i
    <3>1. /\ k - 1 \in 1 .. Len(idx) /\ t[k] = idx[k - 1]
          /\ j - 1 \in 1 .. Len(idx) /\ t[j] = idx[j - 1] /\ k - 1 < j - 1
      BY <1>7, <1>10, <2>1, <2>6
    <3> QED
      BY <1>1, <3>1 DEF Ordered
  <2> QED
    BY <2>1, <2>2, <2>3, <2>4, <2>5, <2>6
<1>11. Ordered(t)
  BY <1>8, <1>10 DEF Ordered
<1>12. t \in Tidy(P)
  BY <1>5, <1>8, <1>11 DEF Tidy
<1> QED
  BY <1>12 DEF t, i, x

\* A record that is changed in place, with the same time.
LEMMA ChainedTidy ==
    ASSUME NEW P, NEW idx \in Tidy(P), NEW i \in 1 .. Len(idx), NEW t \in Seq(Record),
           Len(t) = Len(idx), \A k \in 1 .. Len(idx) : k # i => t[k] = idx[k],
           t[i].s = idx[i].s, t[i].e = idx[i].e, t[i] \in P
    PROVE  t \in Tidy(P)
<1>1. /\ idx \in Seq(Record) /\ Ordered(idx) /\ Len(idx) \in Nat
      /\ \A k \in 1 .. Len(idx) : idx[k] \in P
  BY TidyTimes
<1>2. \A k \in 1 .. Len(t) : t[k].s = idx[k].s /\ t[k].e = idx[k].e /\ t[k] \in P
  BY <1>1
<1>3. Ordered(t)
  BY <1>1, <1>2 DEF Ordered
<1> QED
  BY <1>2, <1>3 DEF Tidy

\* A record that is cut into two.
LEMMA CutTidy ==
    ASSUME NEW P, NEW idx \in Tidy(P), NEW i \in 1 .. Len(idx), NEW c \in Time,
           idx[i].s < c, c < idx[i].e, Ending(idx[i], c) \in P, Starting(idx[i], c) \in P
    PROVE  SplitRecord(idx, i, c) \in Tidy(P)
<1> DEFINE t == SplitRecord(idx, i, c)
           x == Ending(idx[i], c)
           y == Starting(idx[i], c)
<1>1. /\ idx \in Seq(Record) /\ Ordered(idx) /\ Len(idx) \in Nat
      /\ \A k \in 1 .. Len(idx) :
            idx[k] \in P /\ idx[k] \in Record /\ idx[k].s \in Nat /\ idx[k].e \in Nat
  BY TidyTimes
<1>2. t \in Seq(Record) /\ Parted(idx, i, c, t)
  BY <1>1, SplitParts
<1>3. x.s = idx[i].s /\ x.e = c /\ y.s = c /\ y.e = idx[i].e /\ c \in Nat
  BY <1>1, CutRecord, TimeAssumption
<1> HIDE DEF t, x, y
<1>4. /\ Len(t) = Len(idx) + 1
      /\ \A k \in 1 .. Len(idx) : k < i => t[k] = idx[k]
      /\ t[i] = x /\ t[i + 1] = y
      /\ \A k \in 1 .. Len(idx) : i < k => t[k + 1] = idx[k]
  BY <1>2 DEF Parted, x, y
<1> DEFINE from(k) == IF k <= i THEN k ELSE k - 1
<1>5. ASSUME NEW k \in 1 .. Len(t)
      PROVE  /\ k \in Nat /\ i \in Nat /\ from(k) \in 1 .. Len(idx)
             /\ from(k) # i => t[k] = idx[from(k)]
             /\ from(k) = i => (k = i /\ t[k] = x) \/ (k = i + 1 /\ t[k] = y)
  <2>1. k \in Nat /\ i \in Nat /\ from(k) \in 1 .. Len(idx)
    BY <1>1, <1>4
  <2>2. CASE k = i
    BY <1>1, <1>4, <2>1, <2>2
  <2>5. CASE k < i
    <3>1. k \in 1 .. Len(idx) /\ from(k) = k
      BY <1>1, <1>4, <2>1, <2>5
    <3>2. t[k] = idx[k]
      BY <1>4, <2>5, <3>1
    <3> QED
      BY <2>1, <2>5, <3>1, <3>2
  <2>3. CASE k = i + 1
    BY <1>4, <2>1, <2>3
  <2>4. CASE k > i + 1
    <3>1. k - 1 \in 1 .. Len(idx) /\ i < k - 1 /\ (k - 1) + 1 = k /\ from(k) = k - 1
      BY <1>1, <1>4, <2>1, <2>4
    <3>2. t[k] = idx[k - 1]
      BY <1>4, <3>1
    <3> QED
      BY <2>1, <3>1, <3>2
  <2> QED
    BY <2>1, <2>2, <2>3, <2>4, <2>5
<1>6. \A k \in 1 .. Len(t) : t[k] \in P /\ t[k].s <= t[k].e
  <2> TAKE k \in 1 .. Len(t)
  <2>1. CASE from(k) # i
    BY <1>1, <1>5, <2>1 DEF Ordered
  <2>2. CASE from(k) = i
    BY <1>1, <1>3, <1>5, <2>2 DEF x, y
  <2> QED
    BY <2>1, <2>2
<1>10. ASSUME NEW k \in 1 .. Len(t)
       PROVE  /\ t[k].s \in Nat /\ idx[from(k)].s <= t[k].s
              /\ t[k].e \in Nat /\ t[k].e <= idx[from(k)].e
  <2>1. CASE from(k) # i
    BY <1>1, <1>5, <2>1
  <2>2. CASE from(k) = i
    <3>1. idx[i].s \in Nat /\ idx[i].e \in Nat
      BY <1>1
    <3> QED
      BY <1>3, <1>5, <2>2, <3>1
  <2> QED
    BY <2>1, <2>2
<1>7. ASSUME NEW k \in 1 .. Len(t), NEW j \in 1 .. Len(t), k < j PROVE t[k].e <= t[j].s
  <2>1. /\ k \in Nat /\ j \in Nat /\ i \in Nat
        /\ from(k) \in 1 .. Len(idx) /\ from(j) \in 1 .. Len(idx)
        /\ from(k) < from(j) \/ (k = i /\ j = i + 1)
    BY <1>5, <1>7
  <2>2. CASE k = i /\ j = i + 1
    BY <1>3, <1>4, <2>2
  <2>3. CASE from(k) < from(j)
    <3>1. idx[from(k)].e <= idx[from(j)].s
      BY <1>1, <2>1, <2>3 DEF Ordered
    <3>2. t[k].e \in Nat /\ t[k].e <= idx[from(k)].e
      BY <1>10, <2>1
    <3>3. t[j].s \in Nat /\ idx[from(j)].s <= t[j].s
      BY <1>10, <2>1
    <3>4. idx[from(k)].e \in Nat /\ idx[from(j)].s \in Nat
      BY <1>1, <2>1
    <3> HIDE DEF from
    <3> QED
      BY <3>1, <3>2, <3>3, <3>4
  <2> QED
    BY <2>1, <2>2, <2>3
<1>8. Ordered(t)
  BY <1>6, <1>7 DEF Ordered
<1>9. t \in Tidy(P)
  BY <1>2, <1>6, <1>8 DEF Tidy
<1> QED
  BY <1>9 DEF t

\* Each step of the insertion of b leaves the index tidy.
LEMMA FitsStep ==
    ASSUME NEW b \in Nat, NEW P, NEW W, Fits(P, W, b), NEW idx \in Tidy(P),
           NEW n0 \in W, NEW n1 \in W, n0 <= n1, NEW t,
           Ends(b, idx, n0, n1, t) \/ Passes(b, idx, n0, n1, t)
    PROVE  t \in Tidy(P)
<1> DEFINE i == InsertionPoint(idx, n0)
<1>1. n0 \in Time /\ n1 \in Time /\ P \subseteq Record
  BY DEF Fits
<1>2. idx \in Seq(Record) /\ (Meets(idx, n0, n1) => i \in 1 .. Len(idx) /\ idx[i].s < n1 /\ n0 < idx[i].e)
  BY TidyTimes DEF Meets
<1>3. CASE ~Meets(idx, n0, n1)
  <2>1. t = InsertAt(idx, InsertionPoint(idx, n0), [s |-> n0, e |-> n1, blocks |-> <<b>>])
    BY <1>3 DEF Ends, Passes
  <2>2. [s |-> n0, e |-> n1, blocks |-> <<b>>] \in P
    BY DEF Fits
  <2> QED
    BY <1>1, <1>3, <2>1, <2>2, PlacedTidy
<1>4. CASE Meets(idx, n0, n1) /\ t = AddedAt(idx, n0, b) /\ n0 <= idx[i].s /\ idx[i].e <= n1
  <2> HIDE DEF i
  <2>1. t = AddToRecord(idx, i, b)
    BY <1>4 DEF AddedAt, i
  <2>2. t \in Seq(Record) /\ Chained(idx, i, b, t)
    BY <1>2, <1>4, <2>1, AddChains
  <2>3. idx[i] \in P /\ idx[i] \in Record /\ t[i] \in Record
    BY <1>2, <1>4, <2>2, TidyTimes DEF Chained
  <2>4. t[i].s = idx[i].s /\ t[i].e = idx[i].e
    BY <2>2 DEF Chained
  <2>5. CASE t[i].blocks = idx[i].blocks
    <3>1. t[i] = idx[i]
      BY <2>3, <2>4, <2>5 DEF Record
    <3> QED
      BY <1>2, <1>4, <2>2, <2>3, <2>4, <3>1, ChainedTidy DEF Chained
  <2>6. CASE b \notin ToSet(idx[i].blocks) /\ t[i].blocks = Append(idx[i].blocks, b)
    <3>1. t[i] = WithBlock(idx[i], b)
      BY <2>3, <2>4, <2>6 DEF Record, WithBlock
    <3>2. WithBlock(idx[i], b) \in P
      BY <1>2, <1>4, <2>3, <2>6 DEF Fits
    <3> QED
      BY <1>2, <1>4, <2>2, <2>4, <3>1, <3>2, ChainedTidy DEF Chained
  <2> QED
    BY <2>2, <2>5, <2>6 DEF Chained
<1>5. ASSUME NEW c \in {n0, n1}, Meets(idx, n0, n1), idx[i].s < c, c < idx[i].e, t = CutAt(idx, n0, c)
      PROVE  t \in Tidy(P)
  <2> HIDE DEF i
  <2>1. t = SplitRecord(idx, i, c)
    BY <1>5 DEF CutAt, i
  <2>2. idx[i] \in P /\ c \in W /\ c \in Time
    BY <1>1, <1>2, <1>5, TidyTimes
  <2>3. Ending(idx[i], c) \in P /\ Starting(idx[i], c) \in P
    BY <1>5, <2>2 DEF Fits
  <2> QED
    BY <1>2, <1>5, <2>1, <2>2, <2>3, CutTidy
<1>6. Meets(idx, n0, n1) /\ idx[i].s = n0 /\ idx[i].e = n1 => n0 <= idx[i].s /\ idx[i].e <= n1
  BY <1>1, TimeAssumption
<1>7. Met(idx, n0) = idx[i]
  BY DEF Met
<1> HIDE DEF i
<1> QED
  BY <1>3, <1>4, <1>5, <1>6, <1>7 DEF Ends, Passes

\* The ends of the ranges that are left are in W again.
LEMMA FitsBorder ==
    ASSUME NEW b \in Nat, NEW P, NEW W, Fits(P, W, b), NEW idx \in Tidy(P),
           NEW n0 \in W, NEW n1 \in W, n0 <= n1, Meets(idx, n0, n1),
           NEW m, Border(idx, n0, n1, m)
    PROVE  m \in W
<1> DEFINE i == InsertionPoint(idx, n0)
<1>1. i \in 1 .. Len(idx) /\ idx[i].s < n1 /\ n0 < idx[i].e /\ Met(idx, n0) = idx[i]
  BY DEF Meets, Met
<1> HIDE DEF i
<1>2. idx[i] \in P
  BY <1>1, TidyTimes
<1>3. n0 <= idx[i].s => idx[i].s \in W
  BY <1>1, <1>2 DEF Fits
<1>4. idx[i].e <= n1 => idx[i].e \in W
  BY <1>1, <1>2 DEF Fits
<1> QED
  BY <1>1, <1>3, <1>4 DEF Border

LEMMA InsertFits ==
    ASSUME NEW b \in Nat, NEW f, IsInsertion(f, b), NEW P, NEW W, Fits(P, W, b),
           NEW start \in Tidy(P), NEW s \in W, NEW e \in W, s <= e
    PROVE  f[<<start, s, e>>] \in Tidy(P)
<1> DEFINE G == Tidy(P)
           Good(idx, n0, n1) == idx \in G /\ n0 \in W /\ n1 \in W /\ n0 <= n1
           T == {call \in Calls : Good(call[1], call[2], call[3]) /\ f[call] \notin G}
<1>1. G \subseteq Seq(Record) /\ W \subseteq Time
  BY DEF Tidy, Fits
<1> HIDE DEF G
<1>2. ASSUME NEW idx \in Seq(Record), NEW n0 \in Time, NEW n1 \in Time
      PROVE  <<idx, n0, n1>> \in T <=> Good(idx, n0, n1) /\ f[<<idx, n0, n1>>] \notin G
  BY DEF Calls
<1>3. SUFFICES ASSUME T # {} PROVE FALSE
  <2>1. start \in Seq(Record) /\ s \in Time /\ e \in Time /\ start \in G
    BY <1>1 DEF G
  <2>2. T = {} => f[<<start, s, e>>] \in G
    BY <1>2, <2>1
  <2> QED
    BY <2>2 DEF G
<1>4. T \subseteq Calls
  OBVIOUS
<1> HIDE DEF T
<1>5. PICK idx \in Seq(Record), n0 \in Time, n1 \in Time :
         /\ <<idx, n0, n1>> \in T
         /\ \A u \in Seq(Record), m0 \in Time, m1 \in Time :
               Effort(u, m0, m1) < Effort(idx, n0, n1) => <<u, m0, m1>> \notin T
  BY <1>3, <1>4, LeastCall
<1>6. idx \in G /\ n0 \in W /\ n1 \in W /\ n0 <= n1 /\ f[<<idx, n0, n1>>] \notin G
  BY <1>2, <1>5
<1>7. ASSUME NEW u \in G, NEW m0 \in W, NEW m1 \in W, m0 <= m1,
             Effort(u, m0, m1) < Effort(idx, n0, n1)
      PROVE  f[<<u, m0, m1>>] \in G
  BY <1>1, <1>2, <1>5, <1>7
<1>8. f[<<idx, n0, n1>>] = Insertion(f, idx, n0, n1, b)
  BY DEF IsInsertion
<1>9. ASSUME NEW t, Ends(b, idx, n0, n1, t) \/ Passes(b, idx, n0, n1, t) PROVE t \in G
  BY <1>6, <1>9, FitsStep DEF G
<1>10. ASSUME NEW m, Meets(idx, n0, n1), Border(idx, n0, n1, m) PROVE m \in W
  BY <1>6, <1>10, FitsBorder DEF G
<1>11. ASSUME NEW t, IsEnd(b, idx, n0, n1, t) PROVE FALSE
  BY <1>6, <1>8, <1>9, <1>11 DEF IsEnd
<1>12. ASSUME NEW t, NEW m0, NEW m1, IsOne(b, idx, n0, n1, t, m0, m1) PROVE FALSE
  <2>1. t \in G /\ m0 \in W /\ m1 \in W /\ m0 <= m1 /\ Effort(t, m0, m1) < Effort(idx, n0, n1)
    BY <1>6, <1>9, <1>10, <1>12 DEF IsOne, GoesOn, Passes
  <2> QED
    BY <1>6, <1>7, <1>8, <1>12, <2>1 DEF IsOne
<1>13. ASSUME NEW t, NEW k, NEW j, IsTwo(b, idx, n0, n1, t, k, j) PROVE FALSE
  <2>1. /\ t \in G /\ k \in W /\ j \in W /\ Effort(t, n0, k) < Effort(idx, n0, n1)
        /\ \A u : Effort(u, j, n1) < Effort(idx, n0, n1)
        /\ n0 <= k /\ j <= n1
    BY <1>9, <1>10, <1>13 DEF IsTwo, GoesTwice, Passes
  <2> DEFINE u == f[<<t, n0, k>>]
  <2>2. u \in G
    BY <1>6, <1>7, <2>1
  <2> HIDE DEF u
  <2>3. f[<<u, j, n1>>] \in G
    BY <1>6, <1>7, <2>1, <2>2
  <2>4. Insertion(f, idx, n0, n1, b) = f[<<u, j, n1>>]
    BY <1>13 DEF IsTwo, u
  <2> QED
    BY <1>6, <1>8, <2>3, <2>4
<1> QED
  BY <1>11, <1>12, <1>13, InsertionSteps

\* insertDatablock leaves an index tidy, and so does updateLastDatablock.
LEMMA InsertTidy ==
    ASSUME NEW b \in Nat, NEW P, NEW W, Fits(P, W, b), NEW idx \in Tidy(P),
           NEW s \in W, NEW e \in W, s <= e
    PROVE  InsertDatablock(idx, s, e, b) \in Tidy(P)
<1>1. idx \in Seq(Record) /\ s \in Time /\ e \in Time
  BY TidyTimes DEF Fits
<1>2. PICK f : /\ IsInsertion(f, b)
               /\ \A i \in Seq(Record), n0 \in Time, n1 \in Time :
                     InsertDatablock(i, n0, n1, b) = f[<<i, n0, n1>>]
  BY InsertionDefined
<1>3. InsertDatablock(idx, s, e, b) = f[<<idx, s, e>>]
  BY <1>1, <1>2
<1> QED
  BY <1>2, <1>3, InsertFits

LEMMA UpdateFits ==
    ASSUME NEW b \in Nat, NEW P, NEW W, Fits(P, W, b), NEW idx \in Tidy(P),
           NEW s \in W, NEW e \in W, s <= e
    PROVE  UpdateLastDatablock(idx, s, e, b) \in Tidy(P)
<1> DEFINE n == Len(idx)
           new == UpdateLastDatablock(idx, s, e, b)
<1>1. /\ idx \in Seq(Record) /\ Ordered(idx) /\ n \in Nat
      /\ \A k \in 1 .. n : /\ idx[k] \in P /\ idx[k] \in Record
                           /\ idx[k].s \in Nat /\ idx[k].e \in Nat
  BY TidyTimes
<1>2. s \in Time /\ e \in Time /\ e \in Nat /\ s \in Nat
  BY TimeAssumption DEF Fits
<1>3. CASE n > 0 /\ idx[n].s = s /\ idx[n].e <= e /\ idx[n].blocks = <<b>>
  <2> DEFINE y == Ending(idx[n], e)
  <2>1. new = [idx EXCEPT ![n] = y]
    BY <1>3 DEF UpdateLastDatablock, Ending
  <2>2. n \in 1 .. n /\ idx[n] \in Record
    BY <1>1, <1>3
  <2>3. y \in Record /\ y.s = s /\ y.e = e /\ y \in P
    <3>1. y \in P
      BY <1>1, <1>3, <2>2 DEF Fits
    <3> QED
      BY <1>2, <1>3, <2>2, <3>1, CutRecord
  <2> HIDE DEF y, new
  <2>4. /\ new \in Seq(Record) /\ Len(new) = n /\ new[n] = y
        /\ \A k \in 1 .. n : k # n => new[k] = idx[k]
    BY <1>1, <2>1, <2>2, <2>3
  <2>5. \A k \in 1 .. n : new[k] \in P /\ new[k].s = idx[k].s /\ new[k].s <= new[k].e
    BY <1>1, <1>3, <2>3, <2>4 DEF Ordered
  <2>6. \A k, j \in 1 .. n : k < j => new[k].e <= new[j].s
    <3> TAKE k, j \in 1 .. n
    <3> HAVE k < j
    <3>1. k # n /\ new[k] = idx[k]
      BY <1>1, <2>4
    <3>2. new[j].s = idx[j].s
      BY <2>5
    <3> QED
      BY <1>1, <3>1, <3>2 DEF Ordered
  <2>7. new \in Tidy(P)
    BY <2>4, <2>5, <2>6 DEF Tidy, Ordered
  <2> QED
    BY <2>7 DEF new
<1>4. CASE ~(n > 0 /\ idx[n].s = s /\ idx[n].e <= e /\ idx[n].blocks = <<b>>)
  <2>1. new = InsertDatablock(idx, s, e, b)
    BY <1>4 DEF UpdateLastDatablock
  <2> QED
    BY <2>1, InsertTidy
<1> QED
  BY <1>3, <1>4

-----------------------------------------------------------------------------
(* What a writer does whose samples get later and later.                   *)

\* A new block goes behind the others.
LEMMA NewBlock ==
    ASSUME NEW idx \in Seq(Record), NEW t \in Time, NEW b \in Nat,
           \A k \in 1 .. Len(idx) : idx[k].s < t /\ idx[k].e < t
    PROVE  LET new == UpdateLastDatablock(idx, t, t, b)
           IN  /\ new \in Seq(Record) /\ Len(new) = Len(idx) + 1
               /\ \A k \in 1 .. Len(idx) : new[k] = idx[k]
               /\ new[Len(idx) + 1] = [s |-> t, e |-> t, blocks |-> <<b>>]
<1> DEFINE n == Len(idx)
           new == UpdateLastDatablock(idx, t, t, b)
           x == [s |-> t, e |-> t, blocks |-> <<b>>]
           i == InsertionPoint(idx, t)
<1>1. n \in Nat /\ t \in Nat /\ x \in Record
  BY TimeAssumption DEF Record
<1>2. \A k \in 1 .. n : idx[k] \in Record /\ idx[k].s \in Nat /\ idx[k].e \in Nat
  <2>1. \A k \in 1 .. n : idx[k] \in Record
    OBVIOUS
  <2> QED
    BY <2>1, TimeAssumption DEF Record
<1>3. i = n + 1
  <2>1. i \in 1 .. n + 1 /\ (i <= n => idx[i].e > t)
    BY PointFacts
  <2> HIDE DEF i
  <2>2. i <= n => idx[i].e < t /\ idx[i].e \in Nat
    BY <1>1, <1>2, <2>1
  <2> QED
    BY <1>1, <2>1, <2>2
<1>4. new = InsertDatablock(idx, t, t, b)
  <2>1. n > 0 => idx[n].s < t /\ idx[n].s \in Nat
    BY <1>1, <1>2
  <2>2. ~(n > 0 /\ idx[n].s = t)
    BY <1>1, <2>1
  <2> QED
    BY <2>2 DEF UpdateLastDatablock
<1>5. PICK f : /\ IsInsertion(f, b)
               /\ \A u \in Seq(Record), n0 \in Time, n1 \in Time :
                     InsertDatablock(u, n0, n1, b) = f[<<u, n0, n1>>]
  BY InsertionDefined
<1>6. new = Insertion(f, idx, t, t, b)
  BY <1>4, <1>5 DEF IsInsertion
<1>7. ~Meets(idx, t, t)
  BY <1>1, <1>3 DEF Meets
<1>8. Cases(f, b, idx, t, t, Met(idx, t).s, Met(idx, t).e)
  BY InsertionCases
<1>9. new = InsertAt(idx, n + 1, x)
  BY <1>3, <1>6, <1>7, <1>8 DEF Cases
<1> HIDE DEF new, x
<1>10. new \in Seq(Record) /\ Placed(idx, n + 1, x, new)
  BY <1>1, <1>9, InsertAtPlaces
<1>11. \A k \in 1 .. n : k < n + 1
  BY <1>1
<1> QED
  BY <1>10, <1>11 DEF Placed, new, x

\* The last block grows.
LEMMA GrownBlock ==
    ASSUME NEW idx \in Seq(Record), idx # <<>>, NEW t \in Time, NEW b \in Nat,
           idx[Len(idx)].e <= t, idx[Len(idx)].blocks = <<b>>
    PROVE  LET new == UpdateLastDatablock(idx, idx[Len(idx)].s, t, b)
           IN  /\ new \in Seq(Record) /\ Len(new) = Len(idx) /\ Len(idx) \in 1 .. Len(idx)
               /\ \A k \in 1 .. Len(idx) : k # Len(idx) => new[k] = idx[k]
               /\ new[Len(idx)] = Ending(idx[Len(idx)], t)
<1> DEFINE n == Len(idx)
           y == Ending(idx[n], t)
           new == UpdateLastDatablock(idx, idx[n].s, t, b)
<1>1. n \in Nat /\ n > 0 /\ n \in 1 .. n
  <2>1. n # 0
    BY DEF Seq
  <2> QED
    BY <2>1
<1>2. new = [idx EXCEPT ![n] = y]
  BY <1>1 DEF UpdateLastDatablock, Ending
<1>3. y \in Record
  BY <1>1, CutRecord
<1> HIDE DEF y, new
<1>4. new \in Seq(Record) /\ Len(new) = n /\ new[n] = y /\ \A k \in 1 .. n : k # n => new[k] = idx[k]
  BY <1>1, <1>2, <1>3
<1> QED
  BY <1>1, <1>4 DEF new, y

-----------------------------------------------------------------------------
(* What is picked from a sequence, and what a removal leaves.              *)

PickNext(f, s, keep, k) ==
    IF k = 0 THEN <<>> ELSE IF k \in keep THEN Append(f[k - 1], s[k]) ELSE f[k - 1]

\* The recursive definition means what it says.
LEMMA PickedDefined ==
    ASSUME NEW V, NEW s \in Seq(V), NEW keep
    PROVE  \E f \in [0 .. Len(s) -> Seq(V)] :
              /\ Picked(s, keep) = f[Len(s)] /\ f[0] = <<>>
              /\ \A k \in 1 .. Len(s) :
                    f[k] = IF k \in keep THEN Append(f[k - 1], s[k]) ELSE f[k - 1]
<1> DEFINE S == 0 .. Len(s)
           F == [f \in [S -> Seq(V)] |-> [k \in S |-> PickNext(f, s, keep, k)]]
           m == [k \in S |-> k]
           upto == CHOOSE f : f = [k \in S |-> PickNext(f, s, keep, k)]
<1>1. /\ Len(s) \in Nat /\ 0 \in S /\ Len(s) \in S
      /\ \A k \in S : k \in Nat /\ (k # 0 => k - 1 \in S /\ k - 1 < k /\ s[k] \in V)
  OBVIOUS
<1> HIDE DEF S
<1>2. Recursive(F, m, S, Seq(V))
  <2>1. m \in [S -> Nat] /\ (\A k \in S : m[k] = k) /\ Seq(V) # {}
    <3>1. <<>> \in Seq(V)
      OBVIOUS
    <3> QED
      BY <1>1, <3>1
  <2>2. \A f \in [S -> Seq(V)] : [k \in S |-> PickNext(f, s, keep, k)] \in [S -> Seq(V)]
    <3> TAKE f \in [S -> Seq(V)]
    <3>1. \A k \in S : PickNext(f, s, keep, k) \in Seq(V)
      <4> TAKE k \in S
      <4>1. CASE k = 0
        BY <4>1 DEF PickNext
      <4>2. CASE k # 0
        <5>1. f[k - 1] \in Seq(V) /\ Append(f[k - 1], s[k]) \in Seq(V)
          BY <1>1, <4>2
        <5> QED
          BY <4>2, <5>1 DEF PickNext
      <4> QED
        BY <4>1, <4>2
    <3> QED
      BY <3>1
  <2>3. F \in [[S -> Seq(V)] -> [S -> Seq(V)]]
    BY <2>2
  <2>4. ASSUME NEW f \in [S -> Seq(V)], NEW g \in [S -> Seq(V)], NEW k \in S,
               \A j \in S : m[j] < m[k] => f[j] = g[j]
        PROVE  F[f][k] = F[g][k]
    <3>1. k # 0 => f[k - 1] = g[k - 1]
      BY <1>1, <2>1, <2>4
    <3>2. PickNext(f, s, keep, k) = PickNext(g, s, keep, k)
      BY <3>1 DEF PickNext
    <3>3. F[f][k] = PickNext(f, s, keep, k) /\ F[g][k] = PickNext(g, s, keep, k)
      OBVIOUS
    <3> QED
      BY <3>2, <3>3, Zenon
  <2> HIDE DEF F, m
  <2> QED
    BY <2>1, <2>3, <2>4 DEF Recursive, DependsBelow
<1>3. upto \in [S -> Seq(V)] /\ upto = [k \in S |-> PickNext(upto, s, keep, k)]
  <2>1. PICK f \in [S -> Seq(V)] : f = F[f] /\ \A g \in [S -> Seq(V)] : g = F[g] => g = f
    <3> HIDE DEF F, m
    <3> QED
      BY <1>2, RecursionDefines
  <2>2. f = [k \in S |-> PickNext(f, s, keep, k)]
    BY <2>1
  <2>3. upto = [k \in S |-> PickNext(upto, s, keep, k)]
    BY <2>2
  <2> HIDE DEF upto
  <2>4. \A k \in S : upto[k] = PickNext(upto, s, keep, k) /\ f[k] = PickNext(f, s, keep, k)
    BY <2>2, <2>3
  <2> DEFINE T == {k \in S : upto[k] # f[k]}
  <2>5. T = {}
    <3>1. SUFFICES ASSUME T # {} PROVE FALSE
      OBVIOUS
    <3>2. T \subseteq Nat
      BY <1>1
    <3>3. PICK k \in T : \A j \in T : k <= j
      BY <3>1, <3>2, MinOfNats
    <3>4. k # 0 => upto[k - 1] = f[k - 1]
      <4>1. k # 0 => k - 1 \in S /\ ~(k <= k - 1)
        BY <1>1
      <4> QED
        BY <3>3, <4>1
    <3>5. upto[k] = f[k]
      BY <2>4, <3>4 DEF PickNext
    <3> QED
      BY <3>5
  <2>6. upto = f
    BY <2>2, <2>3, <2>5
  <2> QED
    BY <2>3, <2>6
<1>4. Picked(s, keep) = upto[Len(s)]
  BY DEF Picked, PickNext, S
<1> HIDE DEF upto
<1>5. \A k \in S : upto[k] = PickNext(upto, s, keep, k)
  BY <1>3
<1>6. upto[0] = <<>> /\ \A k \in 1 .. Len(s) :
         upto[k] = IF k \in keep THEN Append(upto[k - 1], s[k]) ELSE upto[k - 1]
  <2>1. \A k \in 1 .. Len(s) : k \in S /\ k # 0
    BY DEF S
  <2> QED
    BY <1>1, <1>5, <2>1 DEF PickNext
<1> QED
  BY <1>3, <1>4, <1>6 DEF S

\* In t are the elements of s at the places of keep up to n: element k of t from place h[k].
ChosenBy(h, s, keep, n, t) ==
    /\ \A k \in 1 .. Len(t) : h[k] \in 1 .. n /\ h[k] \in keep /\ t[k] = s[h[k]]
    /\ \A k, j \in 1 .. Len(t) : k < j => h[k] < h[j]
    /\ \A i \in 1 .. n : i \in keep => \E k \in 1 .. Len(t) : h[k] = i

LEMMA ChosenNext ==
    ASSUME NEW V, NEW s \in Seq(V), NEW keep, NEW n \in Nat, n + 1 \in 1 .. Len(s),
           NEW t \in Seq(V), NEW h, ChosenBy(h, s, keep, n, t)
    PROVE  LET u == IF n + 1 \in keep THEN Append(t, s[n + 1]) ELSE t
           IN  \E g : ChosenBy(g, s, keep, n + 1, u)
<1> DEFINE l == Len(t)
           u == Append(t, s[n + 1])
           g == [k \in 1 .. l + 1 |-> IF k <= l THEN h[k] ELSE n + 1]
<1>1. l \in Nat /\ s[n + 1] \in V /\ \A i \in 1 .. n + 1 : i \in 1 .. n \/ i = n + 1
  OBVIOUS
<1>2. \A k \in 1 .. l : h[k] \in 1 .. n /\ h[k] \in Nat /\ h[k] < n + 1 /\ h[k] \in 1 .. n + 1
  BY <1>1 DEF ChosenBy
<1>3. CASE n + 1 \notin keep
  <2>1. ChosenBy(h, s, keep, n + 1, t)
    BY <1>1, <1>2, <1>3 DEF ChosenBy
  <2> QED
    BY <1>3, <2>1
<1>4. CASE n + 1 \in keep
  <2>1. /\ Len(u) = l + 1 /\ u[l + 1] = s[n + 1]
        /\ \A k \in 1 .. l : u[k] = t[k]
    BY <1>1
  <2> HIDE DEF u
  <2>2. (\A k \in 1 .. l : g[k] = h[k]) /\ g[l + 1] = n + 1
    BY <1>1
  <2>3. \A k \in 1 .. l + 1 : k \in 1 .. l \/ k = l + 1
    BY <1>1
  <2> HIDE DEF g, l
  <2>4. \A k \in 1 .. l + 1 : g[k] \in 1 .. n + 1 /\ g[k] \in keep /\ u[k] = s[g[k]]
    <3> TAKE k \in 1 .. l + 1
    <3>1. CASE k \in 1 .. l
      BY <1>2, <2>1, <2>2, <3>1 DEF ChosenBy, l
    <3>2. CASE k = l + 1
      BY <1>4, <2>1, <2>2, <3>2
    <3> QED
      BY <2>3, <3>1, <3>2
  <2>5. \A k, j \in 1 .. l + 1 : k < j => g[k] < g[j]
    <3> TAKE k, j \in 1 .. l + 1
    <3> HAVE k < j
    <3>1. k \in 1 .. l
      BY <1>1
    <3>2. CASE j \in 1 .. l
      BY <2>2, <3>1, <3>2 DEF ChosenBy, l
    <3>3. CASE j = l + 1
      BY <1>2, <2>2, <3>1, <3>3 DEF l
    <3> QED
      BY <2>3, <3>2, <3>3
  <2>6. \A i \in 1 .. n + 1 : i \in keep => \E k \in 1 .. l + 1 : g[k] = i
    <3> TAKE i \in 1 .. n + 1
    <3> HAVE i \in keep
    <3>1. CASE i = n + 1
      <4>1. l + 1 \in 1 .. l + 1
        BY <1>1
      <4> QED
        BY <2>2, <3>1, <4>1
    <3>2. CASE i \in 1 .. n
      <4>1. PICK k \in 1 .. l : h[k] = i
        BY <3>2 DEF ChosenBy, l
      <4>2. k \in 1 .. l + 1
        BY <1>1
      <4> QED
        BY <2>2, <4>1, <4>2
    <3> QED
      BY <1>1, <3>1, <3>2
  <2>7. ChosenBy(g, s, keep, n + 1, u)
    BY <2>1, <2>4, <2>5, <2>6 DEF ChosenBy
  <2> QED
    BY <1>4, <2>7 DEF u
<1> QED
  BY <1>3, <1>4

LEMMA PickedFacts ==
    ASSUME NEW V, NEW s \in Seq(V), NEW keep
    PROVE  /\ Picked(s, keep) \in Seq(V)
           /\ \E h : ChosenBy(h, s, keep, Len(s), Picked(s, keep))
<1>1. PICK f \in [0 .. Len(s) -> Seq(V)] :
         /\ Picked(s, keep) = f[Len(s)] /\ f[0] = <<>>
         /\ \A k \in 1 .. Len(s) :
               f[k] = IF k \in keep THEN Append(f[k - 1], s[k]) ELSE f[k - 1]
  BY PickedDefined
<1> DEFINE Good(n) == \E h : ChosenBy(h, s, keep, n, f[n])
           T == {n \in 0 .. Len(s) : ~Good(n)}
<1>2. Len(s) \in Nat /\ Len(s) \in 0 .. Len(s)
  OBVIOUS
<1>3. T = {}
  <2>1. SUFFICES ASSUME T # {} PROVE FALSE
    OBVIOUS
  <2>2. T \subseteq Nat
    BY <1>2
  <2>3. PICK n \in T : \A j \in T : n <= j
    <3> HIDE DEF T
    <3> QED
      BY <2>1, <2>2, MinOfNats
  <2>4. CASE n = 0
    <3>1. \A h : ChosenBy(h, s, keep, 0, <<>>)
      BY DEF ChosenBy
    <3> QED
      BY <1>1, <2>4, <3>1
  <2>5. CASE n # 0
    <3>1. PICK p \in Nat : n = p + 1
      <4>1. n - 1 \in Nat /\ n = (n - 1) + 1
        BY <1>2, <2>5
      <4> QED
        BY <4>1
    <3>2. p \in 0 .. Len(s) /\ p + 1 \in 1 .. Len(s) /\ ~(n <= p) /\ (p + 1) - 1 = p
      BY <1>2, <3>1
    <3>3. Good(p)
      <4> HIDE DEF Good
      <4> QED
        BY <2>3, <3>2
    <3>4. PICK h : ChosenBy(h, s, keep, p, f[p])
      BY <3>3
    <3>5. f[p] \in Seq(V)
      BY <3>2
    <3>6. f[p + 1] = IF p + 1 \in keep THEN Append(f[p], s[p + 1]) ELSE f[p]
      BY <1>1, <3>2
    <3>7. \E g : ChosenBy(g, s, keep, p + 1, f[p + 1])
      BY <3>2, <3>4, <3>5, <3>6, ChosenNext
    <3> QED
      BY <3>1, <3>7
  <2> QED
    BY <2>4, <2>5
<1>4. Good(Len(s))
  BY <1>2, <1>3
<1> QED
  BY <1>1, <1>2, <1>4

\* A block that leaves a record leaves its times, its other blocks, and its first one.
LEMMA WithoutFacts ==
    ASSUME NEW x \in Record, NEW s \in Time, NEW e \in Time, NEW b \in Nat
    PROVE  LET y == Without(x, s, e, b)
           IN  /\ y \in Record /\ y.s = x.s /\ y.e = x.e
               /\ ToSet(y.blocks) = IF Overlap([s |-> s, e |-> e], x)
                                    THEN ToSet(x.blocks) \ {b} ELSE ToSet(x.blocks)
               /\ x.blocks # <<>> /\ Head(x.blocks) # b =>
                     y.blocks # <<>> /\ Head(y.blocks) = Head(x.blocks)
<1> DEFINE y == Without(x, s, e, b)
           keep == {k \in DOMAIN x.blocks : x.blocks[k] # b}
           t == Picked(x.blocks, keep)
<1>1. x.blocks \in Seq(Nat) /\ DOMAIN x.blocks = 1 .. Len(x.blocks) /\ Len(x.blocks) \in Nat
  BY DEF Record
<1>2. CASE ~Overlap([s |-> s, e |-> e], x)
  BY <1>2 DEF Without
<1>3. CASE Overlap([s |-> s, e |-> e], x)
  <2>1. y = [x EXCEPT !.blocks = t]
    BY <1>3 DEF Without
  <2>2. t \in Seq(Nat) /\ \E h : ChosenBy(h, x.blocks, keep, Len(x.blocks), t)
    BY <1>1, PickedFacts
  <2>3. PICK h : ChosenBy(h, x.blocks, keep, Len(x.blocks), t)
    BY <2>2
  <2> HIDE DEF t, y
  <2>4. y \in Record /\ y.s = x.s /\ y.e = x.e /\ y.blocks = t
    BY <2>1, <2>2 DEF Record
  <2>5. Len(t) \in Nat /\ DOMAIN t = 1 .. Len(t)
    BY <2>2
  <2>6. \A k \in 1 .. Len(t) : h[k] \in 1 .. Len(x.blocks) /\ t[k] = x.blocks[h[k]] /\ t[k] # b
    BY <2>3 DEF ChosenBy
  <2>7. \A i \in 1 .. Len(x.blocks) : x.blocks[i] # b => \E k \in 1 .. Len(t) : h[k] = i
    BY <1>1, <2>3 DEF ChosenBy
  <2>8. ToSet(t) = ToSet(x.blocks) \ {b}
    <3>1. \A c : c \in ToSet(t) <=> \E k \in 1 .. Len(t) : t[k] = c
      BY <2>5 DEF ToSet
    <3>2. \A c : c \in ToSet(x.blocks) <=> \E i \in 1 .. Len(x.blocks) : x.blocks[i] = c
      BY <1>1 DEF ToSet
    <3>3. ASSUME NEW c, c \in ToSet(t) PROVE c \in ToSet(x.blocks) /\ c # b
      BY <2>6, <3>1, <3>2, <3>3
    <3>4. ASSUME NEW c, c \in ToSet(x.blocks), c # b PROVE c \in ToSet(t)
      <4>1. PICK i \in 1 .. Len(x.blocks) : x.blocks[i] = c
        BY <3>2, <3>4
      <4>2. PICK k \in 1 .. Len(t) : h[k] = i
        BY <2>7, <3>4, <4>1
      <4> QED
        BY <2>6, <3>1, <4>1, <4>2
    <3> QED
      BY <3>3, <3>4
  <2>9. ASSUME x.blocks # <<>>, Head(x.blocks) # b
        PROVE  t # <<>> /\ Head(t) = Head(x.blocks)
    <3>1. 1 \in 1 .. Len(x.blocks) /\ x.blocks[1] # b /\ Head(x.blocks) = x.blocks[1]
      BY <1>1, <2>9
    <3>2. PICK k \in 1 .. Len(t) : h[k] = 1
      BY <2>7, <3>1
    <3>3. k = 1
      <4>1. 1 \in 1 .. Len(t) /\ k \in Nat
        BY <2>5
      <4>2. 1 < k => h[1] < h[k] /\ h[1] \in 1 .. Len(x.blocks)
        BY <2>3, <2>6, <4>1 DEF ChosenBy
      <4> QED
        BY <1>1, <3>2, <4>1, <4>2
    <3>4. t[1] = x.blocks[1] /\ Len(t) # 0
      BY <2>5, <2>6, <3>2, <3>3
    <3>5. t # <<>>
      BY <3>4
    <3> QED
      BY <2>2, <3>1, <3>4, <3>5
  <2> QED
    BY <1>3, <2>4, <2>8, <2>9 DEF y
<1> QED
  BY <1>2, <1>3

\* Record k of the index t that a removal leaves was record h[k] of idx.
Thinned(h, idx, s, e, b, t) ==
    /\ \A k \in 1 .. Len(t) : /\ h[k] \in 1 .. Len(idx) /\ t[k] = Without(idx[h[k]], s, e, b)
                              /\ t[k].blocks # <<>>
    /\ \A k, j \in 1 .. Len(t) : k < j => h[k] < h[j]
    /\ \A i \in 1 .. Len(idx) :
          Without(idx[i], s, e, b).blocks # <<>> => \E k \in 1 .. Len(t) : h[k] = i

LEMMA RemoveThins ==
    ASSUME NEW idx \in Seq(Record), NEW s \in Time, NEW e \in Time, NEW b \in Nat
    PROVE  /\ RemoveDatablock(idx, s, e, b) \in Seq(Record)
           /\ \E h : Thinned(h, idx, s, e, b, RemoveDatablock(idx, s, e, b))
<1> DEFINE rest == [i \in DOMAIN idx |-> Without(idx[i], s, e, b)]
           keep == {i \in DOMAIN idx : Without(idx[i], s, e, b).blocks # <<>>}
           t == Picked(rest, keep)
<1>1. Len(idx) \in Nat /\ DOMAIN idx = 1 .. Len(idx) /\ \A i \in 1 .. Len(idx) : idx[i] \in Record
  OBVIOUS
<1>2. \A i \in 1 .. Len(idx) : Without(idx[i], s, e, b) \in Record
  BY <1>1, WithoutFacts
<1>3. /\ rest \in Seq(Record) /\ Len(rest) = Len(idx)
      /\ \A i \in 1 .. Len(idx) : rest[i] = Without(idx[i], s, e, b)
  BY <1>1, <1>2
<1> HIDE DEF rest
<1>4. t \in Seq(Record) /\ \E h : ChosenBy(h, rest, keep, Len(rest), t)
  BY <1>3, PickedFacts
<1>5. PICK h : ChosenBy(h, rest, keep, Len(rest), t)
  BY <1>4
<1>6. RemoveDatablock(idx, s, e, b) = t
  BY DEF RemoveDatablock, rest
<1> HIDE DEF t
<1>7. Thinned(h, idx, s, e, b, t)
  <2>1. \A k \in 1 .. Len(t) : h[k] \in 1 .. Len(idx) /\ h[k] \in keep /\ t[k] = rest[h[k]]
    BY <1>3, <1>5 DEF ChosenBy
  <2>2. \A k \in 1 .. Len(t) : t[k] = Without(idx[h[k]], s, e, b) /\ t[k].blocks # <<>>
    BY <1>3, <2>1
  <2>3. \A i \in 1 .. Len(idx) :
           Without(idx[i], s, e, b).blocks # <<>> => \E k \in 1 .. Len(t) : h[k] = i
    BY <1>1, <1>3, <1>5 DEF ChosenBy
  <2>4. \A k, j \in 1 .. Len(t) : k < j => h[k] < h[j]
    BY <1>5 DEF ChosenBy
  <2> QED
    BY <2>1, <2>2, <2>3, <2>4 DEF Thinned
<1> QED
  BY <1>4, <1>6, <1>7
=============================================================================
