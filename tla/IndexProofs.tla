----------------------------- MODULE IndexProofs -----------------------------
(***************************************************************************)
(* Proofs about the indices made of time ranges.  First the time index of  *)
(* one channel, for any blocks, ranges and order of calls.  Then the       *)
(* master index, for any number of sub-archives and data blocks, any       *)
(* samples in them or none, and any interleaving of engines and tool.      *)
(* Last the reader of a shallow master index, beside both.                 *)
(***************************************************************************)
EXTENDS ShallowIndexRawDataReader, ChannelIndex, TimeIndexProofs

-----------------------------------------------------------------------------
(* The time index of a channel.                                            *)

\* Blocks are numbers, and a time range does not end before it starts.
SpansFit ==
    /\ Block \subseteq Nat
    /\ \A b \in Block : Spans[b] \subseteq {x \in [s : Time, e : Time] : x.s <= x.e}

\* The records whose blocks are in the index with ranges that contain the record.
\* A record of no length is exempt: removeDatablock may leave a block in it.
Named(g) ==
    {x \in Record :
        /\ x.blocks # <<>>
        /\ x.s < x.e => \A c \in ToSet(x.blocks) :
                           c \in DOMAIN g /\ g[c].s <= x.s /\ x.e <= g[c].e}

\* At each moment of its range a block is in the index.
Found(idx, g) ==
    \A b \in DOMAIN g, t \in Nat :
        g[b].s <= t /\ t + 1 <= g[b].e => idx \in Reaching(ChainsWith(b), t, t + 1)

ChannelInv ==
    /\ DOMAIN given \subseteq Block
    /\ \A b \in DOMAIN given : given[b] \in [s : Time, e : Time] /\ given[b].s <= given[b].e
    /\ index \in Tidy(Named(given))
    /\ Found(index, given)

\* The records of a block's range may be cut, and get the block.
LEMMA NamedFits ==
    ASSUME NEW g, \A c \in DOMAIN g : g[c] \in [s : Time, e : Time],
           NEW b \in Nat, b \in DOMAIN g, g[b].s <= g[b].e
    PROVE  Fits(Named(g), {t \in Time : g[b].s <= t /\ t <= g[b].e}, b)
<1> DEFINE P == Named(g)
           W == {t \in Time : g[b].s <= t /\ t <= g[b].e}
<1>1. g[b].s \in Time /\ g[b].e \in Time /\ g[b].s \in Nat /\ g[b].e \in Nat
  BY TimeAssumption
<1>2. /\ P \subseteq Record /\ W \subseteq Time /\ g[b].s \in W /\ g[b].e \in W
      /\ \A t \in W : t \in Nat /\ t \in Time /\ g[b].s <= t /\ t <= g[b].e
  BY <1>1, TimeAssumption DEF Named
<1>3. ASSUME NEW x \in P
      PROVE  /\ x \in Record /\ x.s \in Time /\ x.e \in Time /\ x.s \in Nat /\ x.e \in Nat
             /\ x.blocks \in Seq(Nat) /\ x.blocks # <<>>
             /\ x.s < x.e => \A c \in ToSet(x.blocks) :
                                c \in DOMAIN g /\ g[c].s <= x.s /\ x.e <= g[c].e
  <2>1. x \in Record
    BY <1>2
  <2> QED
    BY <2>1, TimeAssumption DEF Record, Named
<1>4. ASSUME NEW n0 \in W, NEW n1 \in W, n0 <= n1
      PROVE  [s |-> n0, e |-> n1, blocks |-> <<b>>] \in P
  <2> DEFINE x == [s |-> n0, e |-> n1, blocks |-> <<b>>]
  <2>1. <<b>> \in Seq(Nat) /\ <<b>> # <<>> /\ ToSet(<<b>>) = {b}
    BY DEF ToSet
  <2>2. x \in Record /\ x.blocks # <<>> /\ ToSet(x.blocks) = {b}
    BY <1>2, <2>1 DEF Record
  <2>3. \A c \in {b} : c \in DOMAIN g /\ g[c].s <= n0 /\ n1 <= g[c].e
    BY <1>2
  <2> QED
    BY <2>2, <2>3 DEF Named
<1>5. ASSUME NEW x \in P, NEW n0 \in W, NEW n1 \in W, x.s < n1, n0 < x.e, n0 <= n1
      PROVE  /\ n0 <= x.s => x.s \in W
             /\ x.e <= n1 => x.e \in W
             /\ n0 <= x.s /\ x.e <= n1 /\ b \notin ToSet(x.blocks) => WithBlock(x, b) \in P
  <2>1. n0 <= x.s => x.s \in W
    BY <1>1, <1>2, <1>3, <1>5
  <2>2. x.e <= n1 => x.e \in W
    BY <1>1, <1>2, <1>3, <1>5
  <2>3. ASSUME n0 <= x.s, x.e <= n1
        PROVE  WithBlock(x, b) \in P
    <3> DEFINE y == WithBlock(x, b)
    <3>1. x.blocks \in Seq(Nat) /\ x.s \in Time /\ x.e \in Time
      BY <1>3
    <3>2. /\ Append(x.blocks, b) \in Seq(Nat) /\ Append(x.blocks, b) # <<>>
          /\ ToSet(Append(x.blocks, b)) = ToSet(x.blocks) \cup {b}
      <4>1. PICK chain \in Seq(Nat) : chain = x.blocks
        BY <3>1
      <4>2. Len(Append(chain, b)) = Len(chain) + 1 /\ Len(chain) \in Nat
        OBVIOUS
      <4>3. Append(chain, b) # <<>>
        <5>1. Len(<<>>) = 0 /\ Len(Append(chain, b)) # 0
          BY <4>2
        <5> QED
          BY <5>1, Zenon
      <4> QED
        BY <4>1, <4>3, AddedElement
    <3>3. y \in Record /\ y.s = x.s /\ y.e = x.e /\ y.blocks = Append(x.blocks, b)
      BY <1>3, <3>1, <3>2 DEF WithBlock, Record
    <3> HIDE DEF y
    <3>4. g[b].s <= x.s /\ x.e <= g[b].e
      BY <2>1, <2>2, <2>3, <1>2
    <3>5. y.s < y.e => \A c \in ToSet(y.blocks) :
                          c \in DOMAIN g /\ g[c].s <= y.s /\ y.e <= g[c].e
      BY <1>3, <3>2, <3>3, <3>4
    <3>6. y \in P
      BY <3>2, <3>3, <3>5 DEF Named
    <3> QED
      BY <3>6 DEF y
  <2> QED
    BY <2>1, <2>2, <2>3
<1>6. ASSUME NEW x \in P, NEW c \in W, x.s < c, c < x.e
      PROVE  Ending(x, c) \in P /\ Starting(x, c) \in P
  <2>1. /\ Ending(x, c) \in Record /\ Ending(x, c).s = x.s
        /\ Ending(x, c).e = c /\ Ending(x, c).blocks = x.blocks
        /\ Starting(x, c) \in Record /\ Starting(x, c).s = c
        /\ Starting(x, c).e = x.e /\ Starting(x, c).blocks = x.blocks
    BY <1>2, <1>3, CutRecord
  <2>2. x.s < x.e
    BY <1>2, <1>3, <1>6
  <2>3. \A a \in ToSet(x.blocks) : a \in DOMAIN g /\ g[a].s <= x.s /\ x.e <= g[a].e
    BY <1>3, <2>2
  <2>4. ASSUME NEW a \in ToSet(x.blocks)
        PROVE  a \in DOMAIN g /\ g[a].s <= c /\ c <= g[a].e
    <3>1. g[a].s \in Time /\ g[a].e \in Time
      BY <2>3
    <3>2. g[a].s \in Nat /\ g[a].e \in Nat
      BY <3>1, TimeAssumption
    <3> QED
      BY <1>2, <1>3, <1>6, <2>3, <3>2
  <2> QED
    BY <1>3, <2>1, <2>3, <2>4 DEF Named
<1>7. ASSUME NEW x \in P, NEW e \in W, x.blocks = <<b>>, x.s \in W, x.e <= e
      PROVE  Ending(x, e) \in P
  <2>1. /\ Ending(x, e) \in Record /\ Ending(x, e).s = x.s
        /\ Ending(x, e).e = e /\ Ending(x, e).blocks = x.blocks
    BY <1>2, <1>3, CutRecord
  <2>2. ToSet(x.blocks) = {b}
    BY <1>7 DEF ToSet
  <2>3. g[b].s <= x.s /\ e <= g[b].e
    BY <1>2, <1>7
  <2> QED
    BY <1>3, <2>1, <2>2, <2>3 DEF Named
<1> HIDE DEF P, W
<1>8. Fits(P, W, b)
  BY <1>2, <1>4, <1>5, <1>6, <1>7 DEF Fits
<1> QED
  BY <1>8 DEF P, W

LEMMA ChannelTypes ==
    ASSUME SpansFit, ChannelInv
    PROVE  /\ index \in Seq(Record) /\ Ordered(index)
           /\ \A i \in 1 .. Len(index) :
                 /\ index[i] \in Record /\ index[i] \in Named(given)
                 /\ index[i].s \in Nat /\ index[i].e \in Nat
                 /\ index[i].blocks \in Seq(Nat) /\ index[i].blocks # <<>>
           /\ DOMAIN index = 1 .. Len(index) /\ Len(index) \in Nat
           /\ \A b \in Block : b \in Nat
           /\ \A b \in Block : \A x \in Spans[b] :
                 x \in [s : Time, e : Time] /\ x.s \in Time /\ x.e \in Time /\ x.s <= x.e
<1>1. /\ index \in Seq(Record) /\ Ordered(index) /\ Len(index) \in Nat
      /\ \A i \in 1 .. Len(index) :
            /\ index[i] \in Record /\ index[i] \in Named(given)
            /\ index[i].s \in Nat /\ index[i].e \in Nat /\ index[i].blocks \in Seq(Nat)
  BY TidyTimes DEF ChannelInv
<1>2. \A i \in 1 .. Len(index) : index[i].blocks # <<>>
  BY <1>1 DEF Named
<1>3. DOMAIN index = 1 .. Len(index)
  BY <1>1
<1>4. \A b \in Block : \A x \in Spans[b] :
         x \in [s : Time, e : Time] /\ x.s \in Time /\ x.e \in Time /\ x.s <= x.e
  BY DEF SpansFit
<1> QED
  BY <1>1, <1>2, <1>3, <1>4 DEF SpansFit

LEMMA ChannelInit ==
    IndexInit => ChannelInv
<1> HAVE IndexInit
<1>1. index = <<>> /\ DOMAIN given = {}
  BY DEF IndexInit
<1>2. <<>> \in Tidy(Named(given))
  BY DEF Tidy, Ordered
<1> QED
  BY <1>1, <1>2 DEF ChannelInv, Found

\* When block b gets the range x, and no other block loses its own, what was said
\* of the records stays true.
LEMMA NamedGrows ==
    ASSUME ChannelInv, NEW g, NEW b \in Nat, NEW x \in [s : Time, e : Time],
           DOMAIN g = DOMAIN given \cup {b}, g[b] = x,
           \A c \in DOMAIN given : c # b => g[c] = given[c],
           b \in DOMAIN given => given[b].s = x.s /\ given[b].e <= x.e
    PROVE  index \in Tidy(Named(g))
<1>1. \A y \in Named(given) : y \in Named(g)
  <2> TAKE y \in Named(given)
  <2>1. y \in Record /\ y.blocks # <<>>
    BY DEF Named
  <2>2. ASSUME y.s < y.e, NEW c \in ToSet(y.blocks)
        PROVE  c \in DOMAIN g /\ g[c].s <= y.s /\ y.e <= g[c].e
    <3>1. c \in DOMAIN given /\ given[c].s <= y.s /\ y.e <= given[c].e
      BY <2>2 DEF Named
    <3>2. CASE c # b
      BY <3>1, <3>2
    <3>3. CASE c = b
      <4>1. y.e \in Nat /\ given[b].e \in Nat /\ x.e \in Nat
        <5>1. y.e \in Time /\ given[b].e \in Time /\ x.e \in Time
          BY <2>1, <3>1, <3>3 DEF Record, ChannelInv
        <5> QED
          BY <5>1, TimeAssumption
      <4> QED
        BY <3>1, <3>3, <4>1
    <3> QED
      BY <3>2, <3>3
  <2> QED
    BY <2>1, <2>2 DEF Named
<1> QED
  BY <1>1 DEF ChannelInv, Tidy

\* Together, the insertion and the update of a block: g are the ranges after it.
LEMMA StaysFound ==
    ASSUME SpansFit, ChannelInv, NEW g, NEW b \in Block, NEW x \in Spans[b],
           DOMAIN g = DOMAIN given \cup {b}, g[b] = x,
           \A c \in DOMAIN given : c # b => g[c] = given[c],
           NEW new, new \in Seq(Record),
           \A t \in Nat :
              /\ x.s <= t /\ t + 1 <= x.e => new \in Reaching(ChainsWith(b), t, t + 1)
              /\ \A C : Grows(C, b) /\ index \in Reaching(C, t, t + 1) => new \in Reaching(C, t, t + 1)
    PROVE  Found(new, g)
<1> SUFFICES ASSUME NEW c \in DOMAIN g, NEW t \in Nat, g[c].s <= t, t + 1 <= g[c].e
             PROVE  new \in Reaching(ChainsWith(c), t, t + 1)
  BY DEF Found
<1>1. CASE c = b
  BY <1>1
<1>2. CASE c # b
  <2>1. c \in DOMAIN given /\ g[c] = given[c]
    BY <1>2
  <2>2. index \in Reaching(ChainsWith(c), t, t + 1)
    BY <2>1 DEF ChannelInv, Found
  <2>3. Grows(ChainsWith(c), b)
    BY ChainsGrow DEF SpansFit
  <2> QED
    BY <2>2, <2>3
<1> QED
  BY <1>1, <1>2

LEMMA MomentTogether == \A t \in Nat : Together(t, t + 1) /\ t + 1 \in Nat
BY DEF Together

LEMMA InsertKeepsChannel ==
    ASSUME SpansFit, ChannelInv, NEW b \in Block, NEW x \in Spans[b], InsertBlock(b, x)
    PROVE  ChannelInv'
<1>1. /\ index \in Seq(Record) /\ b \in Nat /\ x \in [s : Time, e : Time]
      /\ x.s \in Time /\ x.e \in Time /\ x.s <= x.e
  BY ChannelTypes
<1>2. /\ b \notin DOMAIN given /\ index' = InsertDatablock(index, x.s, x.e, b)
      /\ given' = [c \in DOMAIN given \cup {b} |-> IF c = b THEN x ELSE given[c]]
  BY DEF InsertBlock
<1>3. /\ DOMAIN given' = DOMAIN given \cup {b} /\ given'[b] = x
      /\ \A c \in DOMAIN given : c # b => given'[c] = given[c]
  BY <1>2
<1>4. DOMAIN given' \subseteq Block
  BY <1>3 DEF ChannelInv
<1>5. \A c \in DOMAIN given' : given'[c] \in [s : Time, e : Time] /\ given'[c].s <= given'[c].e
  BY <1>1, <1>3 DEF ChannelInv
<1>6. index \in Tidy(Named(given'))
  BY <1>1, <1>2, <1>3, NamedGrows
<1>7. index' \in Tidy(Named(given'))
  <2> DEFINE P == Named(given')
             W == {t \in Time : x.s <= t /\ t <= x.e}
  <2>1. Fits(P, W, b)
    BY <1>1, <1>3, <1>5, NamedFits
  <2>2. x.s \in W /\ x.e \in W
    <3>1. x.s \in Nat /\ x.e \in Nat
      BY <1>1, TimeAssumption
    <3> QED
      BY <1>1, <3>1
  <2> HIDE DEF P, W
  <2>3. index \in Tidy(P)
    BY <1>6 DEF P
  <2>4. InsertDatablock(index, x.s, x.e, b) \in Tidy(P)
    BY <1>1, <2>1, <2>2, <2>3, InsertTidy
  <2> QED
    BY <1>2, <2>4 DEF P
<1>8. \A t \in Nat :
         /\ index' \in Seq(Record)
         /\ x.s <= t /\ t + 1 <= x.e => index' \in Reaching(ChainsWith(b), t, t + 1)
         /\ \A C : Grows(C, b) /\ index \in Reaching(C, t, t + 1) => index' \in Reaching(C, t, t + 1)
  BY <1>1, <1>2, MomentTogether, InsertHolds
<1>9. index' \in Seq(Record)
  BY <1>8
<1>10. Found(index', given')
  BY <1>3, <1>8, <1>9, StaysFound
<1> QED
  BY <1>4, <1>5, <1>7, <1>10 DEF ChannelInv

LEMMA UpdateKeepsChannel ==
    ASSUME SpansFit, ChannelInv, NEW b \in Block, NEW x \in Spans[b], UpdateBlock(b, x)
    PROVE  ChannelInv'
<1>1. /\ index \in Seq(Record) /\ b \in Nat /\ x \in [s : Time, e : Time]
      /\ x.s \in Time /\ x.e \in Time /\ x.s <= x.e
  BY ChannelTypes
<1>2. /\ b \in DOMAIN given /\ index' = UpdateLastDatablock(index, x.s, x.e, b)
      /\ given' = [given EXCEPT ![b] = x] /\ given[b].s = x.s /\ given[b].e <= x.e
  BY DEF UpdateBlock
<1>3. /\ DOMAIN given' = DOMAIN given \cup {b} /\ given'[b] = x
      /\ \A c \in DOMAIN given : c # b => given'[c] = given[c]
  BY <1>2
<1>4. DOMAIN given' \subseteq Block
  BY <1>3 DEF ChannelInv
<1>5. \A c \in DOMAIN given' : given'[c] \in [s : Time, e : Time] /\ given'[c].s <= given'[c].e
  BY <1>1, <1>3 DEF ChannelInv
<1>6. index \in Tidy(Named(given'))
  BY <1>1, <1>2, <1>3, NamedGrows
<1>7. index' \in Tidy(Named(given'))
  <2> DEFINE P == Named(given')
             W == {t \in Time : x.s <= t /\ t <= x.e}
  <2>1. Fits(P, W, b)
    BY <1>1, <1>3, <1>5, NamedFits
  <2>2. x.s \in W /\ x.e \in W
    <3>1. x.s \in Nat /\ x.e \in Nat
      BY <1>1, TimeAssumption
    <3> QED
      BY <1>1, <3>1
  <2> HIDE DEF P, W
  <2>3. index \in Tidy(P)
    BY <1>6 DEF P
  <2>4. UpdateLastDatablock(index, x.s, x.e, b) \in Tidy(P)
    BY <1>1, <2>1, <2>2, <2>3, UpdateFits
  <2> QED
    BY <1>2, <2>4 DEF P
<1>8. \A t \in Nat :
         /\ index' \in Seq(Record)
         /\ x.s <= t /\ t + 1 <= x.e => index' \in Reaching(ChainsWith(b), t, t + 1)
         /\ \A C : Grows(C, b) /\ index \in Reaching(C, t, t + 1) => index' \in Reaching(C, t, t + 1)
  BY <1>1, <1>2, MomentTogether, UpdateHolds
<1>9. index' \in Seq(Record)
  BY <1>8
<1>10. Found(index', given')
  BY <1>3, <1>8, <1>9, StaysFound
<1> QED
  BY <1>4, <1>5, <1>7, <1>10 DEF ChannelInv

\* The block leaves every record of some length that it is in.
LEMMA RemoveKeepsChannel ==
    ASSUME SpansFit, ChannelInv, NEW b \in Block, RemoveBlock(b)
    PROVE  ChannelInv'
<1> DEFINE s == given[b].s
           e == given[b].e
           Less(x) == Without(x, s, e, b)
<1>1. /\ index \in Seq(Record) /\ Ordered(index) /\ b \in Nat /\ Len(index) \in Nat
      /\ \A i \in 1 .. Len(index) : /\ index[i] \in Record /\ index[i] \in Named(given)
                                    /\ index[i].s \in Nat /\ index[i].e \in Nat
                                    /\ index[i].blocks \in Seq(Nat) /\ index[i].blocks # <<>>
  BY ChannelTypes
<1>2. /\ b \in DOMAIN given /\ index' = RemoveDatablock(index, s, e, b)
      /\ given' = [c \in DOMAIN given \ {b} |-> given[c]]
  BY DEF RemoveBlock
<1>3. /\ DOMAIN given' = DOMAIN given \ {b}
      /\ \A c \in DOMAIN given : c # b => given'[c] = given[c]
  BY <1>2
<1>4. s \in Time /\ e \in Time /\ s \in Nat /\ e \in Nat
  BY <1>2, TimeAssumption DEF ChannelInv
<1>5. /\ DOMAIN given' \subseteq Block
      /\ \A c \in DOMAIN given' : given'[c] \in [s : Time, e : Time] /\ given'[c].s <= given'[c].e
  BY <1>3 DEF ChannelInv
<1> HIDE DEF s, e
<1>6. index' \in Seq(Record) /\ \E h : Thinned(h, index, s, e, b, index')
  BY <1>1, <1>2, <1>4, RemoveThins
<1>7. PICK h : Thinned(h, index, s, e, b, index')
  BY <1>6
<1>8. ASSUME NEW x \in Record
      PROVE  /\ Less(x) \in Record /\ Less(x).s = x.s /\ Less(x).e = x.e
             /\ ToSet(Less(x).blocks) \subseteq ToSet(x.blocks)
             /\ Overlap([s |-> s, e |-> e], x) => b \notin ToSet(Less(x).blocks)
             /\ \A c \in ToSet(x.blocks) : c # b => c \in ToSet(Less(x).blocks)
  <2>1. /\ Less(x) \in Record /\ Less(x).s = x.s /\ Less(x).e = x.e
        /\ ToSet(Less(x).blocks) = IF Overlap([s |-> s, e |-> e], x)
                                   THEN ToSet(x.blocks) \ {b} ELSE ToSet(x.blocks)
    BY <1>1, <1>4, WithoutFacts
  <2> HIDE DEF Less
  <2>2. CASE Overlap([s |-> s, e |-> e], x)
    BY <2>1, <2>2
  <2>3. CASE ~Overlap([s |-> s, e |-> e], x)
    BY <2>1, <2>3
  <2> QED
    BY <2>2, <2>3
<1> HIDE DEF Less
<1>9. /\ \A k \in 1 .. Len(index') : /\ h[k] \in 1 .. Len(index) /\ index'[k] = Less(index[h[k]])
                                     /\ index'[k].blocks # <<>>
      /\ \A k, j \in 1 .. Len(index') : k < j => h[k] < h[j]
      /\ \A i \in 1 .. Len(index) : Less(index[i]).blocks # <<>> => \E k \in 1 .. Len(index') : h[k] = i
  BY <1>7 DEF Thinned, Less
<1>10. \A k \in 1 .. Len(index') :
          /\ index[h[k]] \in Record /\ index'[k] \in Record
          /\ index'[k].s = index[h[k]].s /\ index'[k].e = index[h[k]].e
  BY <1>1, <1>8, <1>9
<1>11. Ordered(index')
  <2>1. ASSUME NEW k \in 1 .. Len(index')
        PROVE  index'[k].s <= index'[k].e
    BY <1>1, <1>9, <1>10 DEF Ordered
  <2>2. ASSUME NEW k \in 1 .. Len(index'), NEW j \in 1 .. Len(index'), k < j
        PROVE  index'[k].e <= index'[j].s
    <3>1. h[k] \in 1 .. Len(index) /\ h[j] \in 1 .. Len(index) /\ h[k] < h[j]
      BY <1>9, <2>2
    <3>2. index[h[k]].e <= index[h[j]].s
      BY <1>1, <3>1 DEF Ordered
    <3> QED
      BY <1>10, <3>2
  <2> QED
    BY <2>1, <2>2 DEF Ordered
<1>12. ASSUME NEW k \in 1 .. Len(index')
       PROVE  index'[k] \in Named(given')
  <2> DEFINE x == index[h[k]]
             y == index'[k]
  <2>1. /\ x \in Record /\ x \in Named(given) /\ x.s \in Nat /\ x.e \in Nat
        /\ y = Less(x) /\ y \in Record /\ y.s = x.s /\ y.e = x.e /\ y.blocks # <<>>
    BY <1>1, <1>9, <1>10
  <2> HIDE DEF x, y
  <2>2. ASSUME y.s < y.e, NEW c \in ToSet(y.blocks)
        PROVE  c \in DOMAIN given' /\ given'[c].s <= y.s /\ y.e <= given'[c].e
    <3>1. c \in ToSet(x.blocks) /\ x.s < x.e
      BY <1>8, <2>1, <2>2
    <3>2. c \in DOMAIN given /\ given[c].s <= x.s /\ x.e <= given[c].e
      BY <2>1, <3>1 DEF Named
    <3>3. c # b
      <4>1. ASSUME c = b PROVE FALSE
        <5>1. s <= x.s /\ x.e <= e
          BY <3>2, <4>1 DEF s, e
        <5>2. Overlap([s |-> s, e |-> e], x)
          BY <1>4, <2>1, <3>1, <5>1 DEF Overlap
        <5> QED
          BY <1>8, <2>1, <2>2, <4>1, <5>2
      <4> QED
        BY <4>1
    <3> QED
      BY <1>3, <2>1, <3>2, <3>3
  <2>3. y \in Named(given')
    BY <2>1, <2>2 DEF Named
  <2> QED
    BY <2>3 DEF y
<1>13. index' \in Tidy(Named(given'))
  BY <1>6, <1>11, <1>12 DEF Tidy
<1>14. ASSUME NEW c \in DOMAIN given', NEW t \in Nat, given'[c].s <= t, t + 1 <= given'[c].e
       PROVE  index' \in Reaching(ChainsWith(c), t, t + 1)
  <2>1. c \in DOMAIN given /\ c # b /\ given'[c] = given[c]
    BY <1>3
  <2>2. index \in Reaching(ChainsWith(c), t, t + 1)
    BY <1>14, <2>1 DEF ChannelInv, Found
  <2>3. PICK i \in 1 .. Len(index) :
           index[i].s <= t /\ t + 1 <= index[i].e /\ index[i].blocks \in ChainsWith(c)
    BY <2>2 DEF Reaching
  <2>4. c \in ToSet(Less(index[i]).blocks)
    BY <1>1, <1>8, <2>1, <2>3 DEF ChainsWith
  <2>5. Less(index[i]).blocks # <<>>
    BY <2>4 DEF ToSet
  <2>6. PICK k \in 1 .. Len(index') : h[k] = i
    BY <1>9, <2>5
  <2>7. index'[k] = Less(index[i]) /\ index'[k].s <= t /\ t + 1 <= index'[k].e
    BY <1>9, <1>10, <2>3, <2>6
  <2>8. index'[k].blocks \in ChainsWith(c)
    <3>1. index'[k].blocks \in Seq(Nat)
      BY <1>10 DEF Record
    <3> QED
      BY <2>4, <2>7, <3>1 DEF ChainsWith
  <2> QED
    BY <1>6, <2>7, <2>8 DEF Reaching
<1>15. Found(index', given')
  BY <1>14 DEF Found
<1> QED
  BY <1>5, <1>13, <1>15 DEF ChannelInv

LEMMA ChannelStep ==
    SpansFit /\ ChannelInv /\ [IndexNext]_indexVars => ChannelInv'
<1> SUFFICES ASSUME SpansFit, ChannelInv, [IndexNext]_indexVars
             PROVE  ChannelInv'
  OBVIOUS
<1>1. CASE UNCHANGED indexVars
  BY <1>1 DEF indexVars, ChannelInv, Found
<1>2. ASSUME NEW b \in Block, NEW x \in Spans[b], InsertBlock(b, x)
      PROVE  ChannelInv'
  BY <1>2, InsertKeepsChannel
<1>3. ASSUME NEW b \in Block, NEW x \in Spans[b], UpdateBlock(b, x)
      PROVE  ChannelInv'
  BY <1>3, UpdateKeepsChannel
<1>4. ASSUME NEW b \in Block, RemoveBlock(b)
      PROVE  ChannelInv'
  BY <1>4, RemoveKeepsChannel
<1> QED
  BY <1>1, <1>2, <1>3, <1>4 DEF IndexNext

\* After any insertions, updates and removals the records of a channel follow each
\* other in time, name no block outside its range, and no block is missing at a
\* moment of its range.
THEOREM ChannelSound ==
    SpansFit => (IndexSpec => []ChannelInv)
<1> SUFFICES ASSUME SpansFit PROVE IndexSpec => []ChannelInv
  OBVIOUS
<1>1. IndexInit => ChannelInv
  BY ChannelInit
<1>2. ChannelInv /\ [IndexNext]_indexVars => ChannelInv'
  BY ChannelStep
<1> QED
  BY <1>1, <1>2, PTL DEF IndexSpec

LEMMA ChannelExact ==
    SpansFit /\ ChannelInv => CoversExactly
<1> SUFFICES ASSUME SpansFit, ChannelInv, NEW t \in Time, NEW b \in Block
             PROVE  (\E i \in At(index, t) : b \in ToSet(index[i].blocks))
                       <=> b \in DOMAIN given /\ given[b].s <= t /\ t + 1 <= given[b].e
  BY DEF CoversExactly
<1>1. /\ DOMAIN index = 1 .. Len(index)
      /\ \A i \in 1 .. Len(index) :
            /\ index[i] \in Named(given) /\ index[i].s \in Nat /\ index[i].e \in Nat
  BY ChannelTypes
<1>2. t \in Nat
  BY TimeAssumption
<1>3. ASSUME NEW i \in At(index, t), b \in ToSet(index[i].blocks)
      PROVE  b \in DOMAIN given /\ given[b].s <= t /\ t + 1 <= given[b].e
  <2>1. i \in 1 .. Len(index) /\ index[i].s <= t /\ t + 1 <= index[i].e
    BY <1>1 DEF At
  <2>2. index[i].s \in Nat /\ index[i].e \in Nat /\ index[i].s < index[i].e
    BY <1>1, <1>2, <2>1
  <2>3. b \in DOMAIN given /\ given[b].s <= index[i].s /\ index[i].e <= given[b].e
    BY <1>1, <1>3, <2>1, <2>2 DEF Named
  <2>4. given[b].s \in Nat /\ given[b].e \in Nat
    <3>1. given[b] \in [s : Time, e : Time]
      BY <2>3 DEF ChannelInv
    <3> QED
      BY <3>1, TimeAssumption
  <2> QED
    BY <1>2, <2>1, <2>2, <2>3, <2>4
<1>4. ASSUME b \in DOMAIN given, given[b].s <= t, t + 1 <= given[b].e
      PROVE  \E i \in At(index, t) : b \in ToSet(index[i].blocks)
  <2>1. index \in Reaching(ChainsWith(b), t, t + 1)
    BY <1>2, <1>4 DEF ChannelInv, Found
  <2> QED
    BY <1>1, <2>1 DEF Reaching, ChainsWith, At
<1> QED
  BY <1>3, <1>4

\* No piece of a range is lost or invented by the cuts of insertDatablock, nor by
\* the stretching of the last record or a removal.
THEOREM ChannelCovers ==
    SpansFit => (IndexSpec => []CoversExactly)
<1> SUFFICES ASSUME SpansFit PROVE IndexSpec => []CoversExactly
  OBVIOUS
<1>1. IndexSpec => []ChannelInv
  BY ChannelSound
<1>2. ChannelInv => CoversExactly
  BY ChannelExact
<1> QED
  BY <1>1, <1>2, PTL

\* Records in order hold a moment one at a time.
LEMMA OneAt ==
    ASSUME NEW idx \in Seq(Record), Ordered(idx), NEW t \in Nat,
           NEW i \in 1 .. Len(idx), NEW j \in 1 .. Len(idx),
           idx[i].s <= t, t + 1 <= idx[i].e, idx[j].s <= t, t + 1 <= idx[j].e
    PROVE  i = j
<1>1. idx[i] \in Record /\ idx[j] \in Record
  OBVIOUS
<1>2. /\ idx[i].s \in Nat /\ idx[i].e \in Nat /\ idx[j].s \in Nat /\ idx[j].e \in Nat
  BY <1>1, TimeAssumption DEF Record
<1>3. ~(i < j) /\ ~(j < i)
  BY <1>2 DEF Ordered
<1>4. i \in Nat /\ j \in Nat
  OBVIOUS
<1> QED
  BY <1>3, <1>4

LEMMA FirstHolds ==
    ASSUME NEW idx \in Seq(Record), Ordered(idx), NEW t \in Nat, NEW c,
           idx \in Reaching(ChainsFrom(c), t, t + 1), NEW j \in At(idx, t)
    PROVE  Head(idx[j].blocks) = c
<1>1. PICK k \in 1 .. Len(idx) :
         idx[k].s <= t /\ t + 1 <= idx[k].e /\ idx[k].blocks \in ChainsFrom(c)
  BY DEF Reaching
<1>2. j \in 1 .. Len(idx) /\ idx[j].s <= t /\ t + 1 <= idx[j].e
  BY DEF At
<1>3. j = k
  BY <1>1, <1>2, OneAt
<1> QED
  BY <1>1, <1>3 DEF ChainsFrom

LEMMA ChannelFirstStep ==
    ASSUME SpansFit, ChannelInv, ChannelInv', IndexNext
    PROVE  SameFirst(index, index')
<1> SUFFICES ASSUME NEW t \in Time, NEW i \in At(index, t), NEW j \in At(index', t),
                    Head(index[i].blocks) \in DOMAIN given'
             PROVE  Head(index'[j].blocks) = Head(index[i].blocks)
  BY DEF SameFirst
<1> DEFINE c == Head(index[i].blocks)
<1>1. /\ index \in Seq(Record) /\ Ordered(index) /\ DOMAIN index = 1 .. Len(index)
      /\ \A k \in 1 .. Len(index) :
            index[k] \in Record /\ index[k].blocks \in Seq(Nat) /\ index[k].blocks # <<>>
  BY ChannelTypes
<1>2. i \in 1 .. Len(index) /\ index[i].s <= t /\ t + 1 <= index[i].e /\ t \in Nat
  BY <1>1, TimeAssumption DEF At
<1>3. index[i].blocks \in ChainsFrom(c)
  BY <1>1, <1>2 DEF ChainsFrom
<1>4. index \in Reaching(ChainsFrom(c), t, t + 1)
  BY <1>1, <1>2, <1>3 DEF Reaching
<1>5. index' \in Seq(Record) /\ Ordered(index')
  BY DEF ChannelInv, Tidy
<1> HIDE DEF c
<1>6. index' \in Reaching(ChainsFrom(c), t, t + 1) => Head(index'[j].blocks) = c
  BY <1>2, <1>5, FirstHolds
<1>7. ASSUME NEW b \in Block, NEW x \in Spans[b], InsertBlock(b, x) \/ UpdateBlock(b, x)
      PROVE  index' \in Reaching(ChainsFrom(c), t, t + 1)
  <2>1. x.s \in Time /\ x.e \in Time /\ b \in Nat /\ Grows(ChainsFrom(c), b)
    BY ChannelTypes, ChainsGrow
  <2>2. CASE InsertBlock(b, x)
    BY <1>1, <1>2, <1>4, <2>1, <2>2, MomentTogether, InsertHolds DEF InsertBlock
  <2>3. CASE UpdateBlock(b, x)
    BY <1>1, <1>2, <1>4, <2>1, <2>3, MomentTogether, UpdateHolds DEF UpdateBlock
  <2> QED
    BY <1>7, <2>2, <2>3
<1>8. ASSUME NEW b \in Block, RemoveBlock(b)
      PROVE  Head(index'[j].blocks) = c
  <2> DEFINE s == given[b].s
             e == given[b].e
  <2>1. s \in Time /\ e \in Time /\ b \in Nat /\ index' = RemoveDatablock(index, s, e, b)
    BY <1>8 DEF RemoveBlock, ChannelInv, SpansFit
  <2>2. c # b
    BY <1>8 DEF RemoveBlock, c
  <2> HIDE DEF s, e
  <2>3. PICK h : Thinned(h, index, s, e, b, index')
    BY <1>1, <2>1, RemoveThins
  <2>4. j \in 1 .. Len(index') /\ index'[j].s <= t /\ t + 1 <= index'[j].e
    BY <1>5 DEF At
  <2>5. h[j] \in 1 .. Len(index) /\ index'[j] = Without(index[h[j]], s, e, b)
    BY <2>3, <2>4 DEF Thinned
  <2> DEFINE x == index[h[j]]
             y == Without(x, s, e, b)
  <2>6. /\ y.s = x.s /\ y.e = x.e
        /\ x.blocks # <<>> /\ Head(x.blocks) # b => Head(y.blocks) = Head(x.blocks)
    <3>1. x \in Record
      BY <1>1, <2>5
    <3> HIDE DEF x
    <3> QED
      BY <2>1, <3>1, WithoutFacts
  <2>8. x.s <= t /\ t + 1 <= x.e
    BY <2>4, <2>5, <2>6
  <2>7. h[j] = i
    BY <1>1, <1>2, <2>5, <2>8, OneAt
  <2>9. x.blocks # <<>> /\ Head(x.blocks) = c
    BY <1>1, <1>2, <2>7 DEF c
  <2> QED
    BY <2>2, <2>5, <2>6, <2>9
<1> QED
  BY <1>6, <1>7, <1>8 DEF IndexNext, c

\* The block that is used for a moment stays the same until it is removed, whatever
\* blocks are inserted over it and however the records are cut.
THEOREM ChannelFirstStays ==
    SpansFit => (IndexSpec => FirstStays)
<1> SUFFICES ASSUME SpansFit PROVE IndexSpec => FirstStays
  OBVIOUS
<1>1. IndexSpec => []ChannelInv
  BY ChannelSound
<1>2. ChannelInv /\ ChannelInv' /\ [IndexNext]_indexVars => [SameFirst(index, index')]_indexVars
  BY ChannelFirstStep
<1> QED
  BY <1>1, <1>2, PTL DEF IndexSpec, FirstStays

-----------------------------------------------------------------------------
(* Numbers, samples and indices.                                           *)

LEMMA SubNumbers ==
    /\ Sub \subseteq Nat /\ Subs \in Nat /\ MaxBlocks \in Nat
    /\ \A s \in Sub : Stamps[s] \subseteq Time \ {0} /\ \A n \in Nat : BlockId(s, n) \in Nat
    /\ \A s, q \in Sub : \A n, m \in Nat :
          /\ BlockId(s, n) = BlockId(q, m) => s = q /\ n = m
          /\ n < m => BlockId(s, n) < BlockId(q, m)
<1>1. Subs \in Nat /\ MaxBlocks \in Nat
  BY SubsAssumption
<1>2. \A s \in Sub : s \in Nat /\ s >= 1 /\ s <= Subs /\ Stamps[s] \subseteq Time \ {0}
  BY <1>1, SubsAssumption DEF Sub
<1>3. \A s \in Sub : \A n \in Nat : BlockId(s, n) \in Nat
  <2> TAKE s \in Sub
  <2> TAKE n \in Nat
  <2>1. Subs * n \in Nat
    BY <1>1
  <2> QED
    BY <1>2, <2>1 DEF BlockId
<1>4. \A s, q \in Sub : \A n, m \in Nat : n < m => BlockId(s, n) < BlockId(q, m)
  <2> TAKE s, q \in Sub
  <2> TAKE n, m \in Nat
  <2> HAVE n < m
  <2>1. PICK d \in Nat : m = n + 1 + d
    <3>1. m - n - 1 \in Nat /\ m = n + 1 + (m - n - 1)
      OBVIOUS
    <3> QED
      BY <3>1
  <2>2. Subs * m = Subs * n + Subs + Subs * d
    BY <1>1, <2>1
  <2>3. Subs * n \in Nat /\ Subs * d \in Nat /\ Subs * m \in Nat
    BY <1>1
  <2> DEFINE x == Subs * n
             y == Subs * m
             z == Subs * d
  <2> HIDE DEF x, y, z
  <2>4. y = x + Subs + z /\ x \in Nat /\ y \in Nat /\ z \in Nat
    BY <2>2, <2>3 DEF x, y, z
  <2>5. x + s < y + q
    BY <1>1, <1>2, <2>4
  <2> QED
    BY <2>5 DEF x, y, BlockId
<1>5. \A s, q \in Sub : \A n, m \in Nat : BlockId(s, n) = BlockId(q, m) => s = q /\ n = m
  <2> TAKE s, q \in Sub
  <2> TAKE n, m \in Nat
  <2> HAVE BlockId(s, n) = BlockId(q, m)
  <2>1. BlockId(s, n) \in Nat /\ BlockId(q, m) \in Nat
    BY <1>3
  <2>2. ~(n < m) /\ ~(m < n)
    BY <1>4, <2>1
  <2>3. n = m
    BY <2>2
  <2>4. Subs * n \in Nat
    BY <1>1
  <2> DEFINE x == Subs * n
  <2> HIDE DEF x
  <2>5. x + s = x + q /\ x \in Nat
    BY <2>3, <2>4 DEF x, BlockId
  <2> QED
    BY <1>2, <2>3, <2>5
<1> QED
  BY <1>1, <1>2, <1>3, <1>4, <1>5

\* A sequence with one more element at its end.
LEMMA OneMore ==
    ASSUME NEW S, NEW s \in Seq(S), NEW x \in S
    PROVE  /\ Append(s, x) \in Seq(S) /\ Len(Append(s, x)) = Len(s) + 1 /\ Len(s) \in Nat
           /\ DOMAIN s = 1 .. Len(s) /\ DOMAIN Append(s, x) = 1 .. Len(s) + 1
           /\ \A k \in 1 .. Len(s) : Append(s, x)[k] = s[k]
           /\ Append(s, x)[Len(s) + 1] = x
           /\ ToSet(Append(s, x)) = ToSet(s) \cup {x}
<1>1. /\ Append(s, x) \in Seq(S) /\ Len(Append(s, x)) = Len(s) + 1 /\ Len(s) \in Nat
      /\ DOMAIN s = 1 .. Len(s) /\ DOMAIN Append(s, x) = 1 .. Len(s) + 1
      /\ \A k \in 1 .. Len(s) : Append(s, x)[k] = s[k]
      /\ Append(s, x)[Len(s) + 1] = x
  OBVIOUS
<1> DEFINE t == Append(s, x)
<1> HIDE DEF t
<1>2. ToSet(t) = ToSet(s) \cup {x}
  <2>1. /\ DOMAIN t = 1 .. Len(s) + 1 /\ DOMAIN s = 1 .. Len(s) /\ Len(s) \in Nat
        /\ \A k \in 1 .. Len(s) : t[k] = s[k]
        /\ t[Len(s) + 1] = x
    BY <1>1 DEF t
  <2>2. 1 .. Len(s) + 1 = (1 .. Len(s)) \cup {Len(s) + 1}
    BY <2>1
  <2> QED
    BY <2>1, <2>2 DEF ToSet
<1> QED
  BY <1>1, <1>2 DEF t

LEMMA RecordTypes ==
    ASSUME NEW idx \in Seq(Record)
    PROVE  /\ Len(idx) \in Nat /\ DOMAIN idx = 1 .. Len(idx)
           /\ idx # <<>> => Len(idx) \in 1 .. Len(idx) /\ 1 \in 1 .. Len(idx)
           /\ \A k \in 1 .. Len(idx) :
                 /\ idx[k] \in Record /\ idx[k].s \in Time /\ idx[k].e \in Time
                 /\ idx[k].s \in Nat /\ idx[k].e \in Nat /\ idx[k].blocks \in Seq(Nat)
<1>1. Len(idx) \in Nat /\ DOMAIN idx = 1 .. Len(idx)
  OBVIOUS
<1>2. idx # <<>> => Len(idx) # 0
  BY DEF Seq
<1>3. \A k \in 1 .. Len(idx) : idx[k] \in Record
  OBVIOUS
<1>4. \A k \in 1 .. Len(idx) : idx[k].s \in Time /\ idx[k].e \in Time /\ idx[k].blocks \in Seq(Nat)
  BY <1>3 DEF Record
<1>5. \A x \in Time : x \in Nat
  BY TimeAssumption
<1> QED
  BY <1>1, <1>2, <1>3, <1>4, <1>5

\* A new block without samples goes behind the other null records of an index.
LEMMA NullBlock ==
    ASSUME NEW idx \in Seq(Record), NEW b \in Nat,
           \A k \in 1 .. Len(idx) : idx[k].blocks # <<b>>
    PROVE  LET new == UpdateLastDatablock(idx, 0, 0, b)
               i   == InsertionPoint(idx, 0)
           IN  /\ i \in 1 .. Len(idx) + 1
               /\ \A k \in 1 .. Len(idx) : k < i => idx[k].e = 0
               /\ Placed(idx, i, [s |-> 0, e |-> 0, blocks |-> <<b>>], new)
<1> DEFINE n == Len(idx)
           new == UpdateLastDatablock(idx, 0, 0, b)
           x == [s |-> 0, e |-> 0, blocks |-> <<b>>]
           i == InsertionPoint(idx, 0)
<1>1. 0 \in Time /\ x \in Record /\ n \in Nat
  BY TimeAssumption DEF Record
<1>2. \A k \in 1 .. n : idx[k].s \in Nat /\ idx[k].e \in Nat
  BY RecordTypes
<1>3. i \in 1 .. n + 1 /\ \A k \in 1 .. n : k < i => idx[k].e <= 0
  BY <1>1, PointFacts
<1>4. new = InsertDatablock(idx, 0, 0, b)
  <2>1. n > 0 => n \in 1 .. n
    BY <1>1
  <2> QED
    BY <2>1 DEF UpdateLastDatablock
<1>5. PICK f : /\ IsInsertion(f, b)
               /\ \A u \in Seq(Record), n0 \in Time, n1 \in Time :
                     InsertDatablock(u, n0, n1, b) = f[<<u, n0, n1>>]
  BY InsertionDefined
<1>6. new = Insertion(f, idx, 0, 0, b)
  BY <1>1, <1>4, <1>5 DEF IsInsertion
<1>7. ~Meets(idx, 0, 0)
  BY <1>2 DEF Meets
<1>8. Cases(f, b, idx, 0, 0, Met(idx, 0).s, Met(idx, 0).e)
  BY <1>1, InsertionCases
<1>9. new = InsertAt(idx, i, x)
  BY <1>6, <1>7, <1>8 DEF Cases
<1> HIDE DEF new, x, i
<1>10. Placed(idx, i, x, new)
  BY <1>1, <1>3, <1>9, InsertAtPlaces
<1>11. \A k \in 1 .. n : k < i => idx[k].e = 0
  <2> TAKE k \in 1 .. n
  <2> HAVE k < i
  <2>1. idx[k].e <= 0 /\ idx[k].e \in Nat
    BY <1>2, <1>3
  <2> QED
    BY <2>1
<1> QED
  BY <1>3, <1>10, <1>11 DEF new, x, i

\* A record of it has one block of that.
LEMMA BlockOf ==
    ASSUME NEW s \in Sub, NEW idx, NEW stamps, NEW count \in Nat, IndexOf(s, idx, stamps, count),
           NEW n \in 1 .. Len(idx)
    PROVE  \E b \in 1 .. count : /\ b \in Nat /\ BlockId(s, b) \in Nat
                                /\ idx[n].blocks = <<BlockId(s, b)>>
                                /\ Head(idx[n].blocks) = BlockId(s, b)
<1>1. PICK b \in 1 .. count : idx[n].blocks = <<BlockId(s, b)>>
  BY DEF IndexOf
<1>2. b \in Nat /\ BlockId(s, b) \in Nat
  BY <1>1, SubNumbers
<1>3. Head(idx[n].blocks) = BlockId(s, b)
  BY <1>1
<1> QED
  BY <1>1, <1>2, <1>3

\* What an index of a sub-archive is made of.
LEMMA IndexFacts ==
    ASSUME NEW s \in Sub, NEW idx \in Seq(Record), NEW stamps \in SUBSET (Time \ {0}),
           NEW count \in Nat, IndexOf(s, idx, stamps, count)
    PROVE  /\ Len(idx) \in Nat /\ DOMAIN idx = 1 .. Len(idx)
           /\ \A n \in 1 .. Len(idx) :
                 /\ idx[n] \in Record /\ idx[n].s \in Time /\ idx[n].e \in Time
                 /\ idx[n].s \in Nat /\ idx[n].e \in Nat /\ idx[n].s <= idx[n].e
                 /\ idx[n].s = 0 <=> idx[n].e = 0
                 /\ Null(idx[n]) <=> idx[n].e = 0
                 /\ ~Null(idx[n]) => idx[n].s \in stamps /\ idx[n].e \in stamps
                 /\ idx[n].blocks = <<Head(idx[n].blocks)>> /\ Head(idx[n].blocks) \in Nat
                 /\ \A m \in 1 .. Len(idx) :
                       n < m => /\ idx[n].e <= idx[m].s
                                /\ ~Null(idx[n]) => Head(idx[n].blocks) < Head(idx[m].blocks)
<1>1. /\ Len(idx) \in Nat /\ DOMAIN idx = 1 .. Len(idx)
      /\ \A n \in 1 .. Len(idx) :
            /\ idx[n] \in Record /\ idx[n].s \in Time /\ idx[n].e \in Time
            /\ idx[n].s \in Nat /\ idx[n].e \in Nat
  BY RecordTypes
<1>2. ASSUME NEW n \in 1 .. Len(idx)
      PROVE  /\ idx[n].s <= idx[n].e
             /\ idx[n].s = 0 <=> idx[n].e = 0
             /\ Null(idx[n]) <=> idx[n].e = 0
             /\ ~Null(idx[n]) => idx[n].s \in stamps /\ idx[n].e \in stamps
             /\ idx[n].blocks = <<Head(idx[n].blocks)>> /\ Head(idx[n].blocks) \in Nat
             /\ \A m \in 1 .. Len(idx) :
                   n < m => /\ idx[n].e <= idx[m].s
                            /\ ~Null(idx[n]) => Head(idx[n].blocks) < Head(idx[m].blocks)
  <2>1. PICK b \in 1 .. count : /\ BlockId(s, b) \in Nat /\ idx[n].blocks = <<BlockId(s, b)>>
                                /\ Head(idx[n].blocks) = BlockId(s, b)
    BY BlockOf
  <2>3. (idx[n].s = 0 /\ idx[n].e = 0) \/ (idx[n].s \in stamps /\ idx[n].e \in stamps)
    BY DEF IndexOf
  <2>4. \A t \in stamps : t # 0
    OBVIOUS
  <2>5. /\ idx[n].s = 0 <=> idx[n].e = 0
        /\ Null(idx[n]) <=> idx[n].e = 0
        /\ ~Null(idx[n]) => idx[n].s \in stamps /\ idx[n].e \in stamps
    BY <2>3, <2>4 DEF Null
  <2>6. /\ idx[n].s <= idx[n].e
        /\ \A m \in 1 .. Len(idx) :
              n < m => /\ idx[n].e <= idx[m].s
                       /\ ~Null(idx[n]) => Head(idx[n].blocks) < Head(idx[m].blocks)
    BY DEF IndexOf, Ordered
  <2> QED
    BY <2>1, <2>5, <2>6
<1> QED
  BY <1>1, <1>2

LEMMA FilledIs ==
    ASSUME NEW idx, NEW x
    PROVE  x \in Filled(idx) <=> \E n \in 1 .. Len(idx) : ~Null(idx[n]) /\ x = idx[n]
BY DEF Filled

LEMMA EarlierSelf == \A idx : Earlier(idx, idx)
BY DEF Earlier

LEMMA EarlierStill ==
    ASSUME NEW a, NEW c, NEW d, Earlier(a, c), Earlier(c, d)
    PROVE  Earlier(a, d)
<1> SUFFICES ASSUME NEW x \in Filled(a)
             PROVE  /\ \E y \in Filled(d) : y.blocks = x.blocks
                    /\ \A y \in Filled(d) : Head(y.blocks) < Head(x.blocks) => y \in Filled(a)
  BY DEF Earlier
<1>1. PICK y \in Filled(c) : y.blocks = x.blocks
  BY DEF Earlier
<1>2. \E z \in Filled(d) : z.blocks = x.blocks
  BY <1>1 DEF Earlier
<1>3. ASSUME NEW w \in Filled(d), Head(w.blocks) < Head(x.blocks) PROVE w \in Filled(a)
  <2>1. w \in Filled(c)
    BY <1>1, <1>3 DEF Earlier
  <2> QED
    BY <1>3, <2>1 DEF Earlier
<1> QED
  BY <1>2, <1>3

\* An index is one of more samples and blocks, too.
LEMMA MoreStamps ==
    ASSUME NEW s, NEW idx, NEW c, NEW d, c \subseteq d, NEW n \in Nat, NEW m \in Nat, n <= m,
           IndexOf(s, idx, c, n)
    PROVE  IndexOf(s, idx, d, m)
<1>1. \A b \in 1 .. n : b \in 1 .. m
  OBVIOUS
<1>2. /\ Ordered(idx)
      /\ \A k \in 1 .. Len(idx) :
            /\ \E b \in 1 .. n : idx[k].blocks = <<BlockId(s, b)>>
            /\ \/ idx[k].s = 0 /\ idx[k].e = 0
               \/ idx[k].s \in c /\ idx[k].e \in c
            /\ \A l \in 1 .. Len(idx) :
                  k < l /\ ~Null(idx[k]) => Head(idx[k].blocks) < Head(idx[l].blocks)
  BY DEF IndexOf
<1>3. \A k \in 1 .. Len(idx) : \E b \in 1 .. m : idx[k].blocks = <<BlockId(s, b)>>
  BY <1>1, <1>2
<1>4. \A k \in 1 .. Len(idx) : \/ idx[k].s = 0 /\ idx[k].e = 0
                               \/ idx[k].s \in d /\ idx[k].e \in d
  BY <1>2
<1> QED
  BY <1>2, <1>3, <1>4 DEF IndexOf

-----------------------------------------------------------------------------
(* The engine of a sub-archive.                                            *)

\* What an update of its index does to that.
Grown(s, old, new, stamps, count) ==
    /\ new \in Seq(Record) /\ IndexOf(s, new, stamps, count) /\ Earlier(old, new)

\* A record behind the last one of an index, with a sample.
LEMMA AppendedBlock ==
    ASSUME NEW s \in Sub, NEW idx \in Seq(Record), NEW stamps \in SUBSET (Time \ {0}),
           NEW count \in Nat, IndexOf(s, idx, stamps, count),
           NEW t \in Time \ {0}, \A k \in 1 .. Len(idx) : idx[k].s < t /\ idx[k].e < t,
           NEW b \in Nat, NEW m \in Nat, count <= m, NEW c \in 1 .. m, b = BlockId(s, c),
           \A k \in 1 .. Len(idx) : ~Null(idx[k]) => Head(idx[k].blocks) < b
    PROVE  Grown(s, idx, UpdateLastDatablock(idx, t, t, b), stamps \cup {t}, m)
<1> DEFINE n == Len(idx)
           U == UpdateLastDatablock(idx, t, t, b)
           z == [s |-> t, e |-> t, blocks |-> <<b>>]
<1>1. /\ n \in Nat
      /\ \A k \in 1 .. n :
            /\ idx[k].s \in Nat /\ idx[k].e \in Nat /\ idx[k].s <= idx[k].e
            /\ \A l \in 1 .. n : k < l =>
                  /\ idx[k].e <= idx[l].s
                  /\ ~Null(idx[k]) => Head(idx[k].blocks) < Head(idx[l].blocks)
  BY IndexFacts
<1>2. t \in Nat /\ t # 0
  BY TimeAssumption
<1>3. U \in Seq(Record) /\ Len(U) = n + 1 /\ (\A k \in 1 .. n : U[k] = idx[k]) /\ U[n + 1] = z
  BY NewBlock
<1>4. z.s = t /\ z.e = t /\ z.blocks = <<b>> /\ Head(z.blocks) = b /\ ~Null(z)
  BY <1>2 DEF Null
<1> HIDE DEF U, z
<1>5. \A k \in 1 .. n + 1 : (k \in 1 .. n /\ U[k] = idx[k]) \/ (k = n + 1 /\ U[k] = z)
  <2> TAKE k \in 1 .. n + 1
  <2>1. k \in 1 .. n \/ k = n + 1
    BY <1>1
  <2> QED
    BY <1>3, <2>1
<1>6. \A k \in 1 .. n + 1 : U[k].s <= U[k].e
  BY <1>1, <1>2, <1>4, <1>5
<1>7. ASSUME NEW k \in 1 .. n + 1, NEW j \in 1 .. n + 1, k < j
      PROVE  U[k].e <= U[j].s /\ (~Null(U[k]) => Head(U[k].blocks) < Head(U[j].blocks))
  <2>1. k \in 1 .. n /\ U[k] = idx[k]
    BY <1>1, <1>5, <1>7
  <2>2. CASE j \in 1 .. n /\ U[j] = idx[j]
    BY <1>1, <1>7, <2>1, <2>2
  <2>3. CASE U[j] = z
    BY <1>1, <1>2, <1>4, <2>1, <2>3
  <2> QED
    BY <1>5, <2>2, <2>3
<1>8. IndexOf(s, idx, stamps \cup {t}, m)
  BY MoreStamps
<1>9. \A k \in 1 .. n + 1 :
         /\ \E a \in 1 .. m : U[k].blocks = <<BlockId(s, a)>>
         /\ \/ U[k].s = 0 /\ U[k].e = 0
            \/ U[k].s \in stamps \cup {t} /\ U[k].e \in stamps \cup {t}
  BY <1>4, <1>5, <1>8 DEF IndexOf
<1>10. IndexOf(s, U, stamps \cup {t}, m)
  BY <1>3, <1>6, <1>7, <1>9 DEF IndexOf, Ordered
<1>11. Earlier(idx, U)
  <2> SUFFICES ASSUME NEW x \in Filled(idx)
               PROVE  /\ \E y \in Filled(U) : y.blocks = x.blocks
                      /\ \A y \in Filled(U) : Head(y.blocks) < Head(x.blocks) => y \in Filled(idx)
    BY DEF Earlier
  <2>1. PICK k \in 1 .. n : ~Null(idx[k]) /\ x = idx[k]
    BY FilledIs
  <2>2. k \in 1 .. Len(U) /\ U[k] = x
    BY <1>1, <1>3, <2>1
  <2>3. x \in Filled(U)
    BY <2>1, <2>2, FilledIs
  <2>4. ASSUME NEW y \in Filled(U), Head(y.blocks) < Head(x.blocks) PROVE y \in Filled(idx)
    <3>1. PICK l \in 1 .. n + 1 : ~Null(U[l]) /\ y = U[l]
      BY <1>3, FilledIs
    <3>2. CASE l \in 1 .. n /\ U[l] = idx[l]
      BY <3>1, <3>2, FilledIs
    <3>3. CASE U[l] = z
      <4>1. Head(y.blocks) = b /\ Head(x.blocks) < b
        BY <1>4, <2>1, <3>1, <3>3
      <4>2. Head(x.blocks) \in Nat
        BY <2>1, IndexFacts
      <4> QED
        BY <2>4, <4>1, <4>2
    <3> QED
      BY <1>5, <3>2, <3>3
  <2> QED
    BY <2>3, <2>4
<1> QED
  BY <1>3, <1>10, <1>11 DEF Grown, U

\* A sample for a new data block.
LEMMA NewBlockGrows ==
    ASSUME NEW s \in Sub, NEW idx \in Seq(Record), NEW stamps \in SUBSET (Time \ {0}),
           NEW count \in Nat, IndexOf(s, idx, stamps, count),
           NEW t \in Time \ {0}, \A k \in 1 .. Len(idx) : idx[k].s < t /\ idx[k].e < t
    PROVE  Grown(s, idx, UpdateLastDatablock(idx, t, t, BlockId(s, count + 1)),
                 stamps \cup {t}, count + 1)
<1> DEFINE b == BlockId(s, count + 1)
<1>1. count + 1 \in Nat /\ count <= count + 1 /\ count + 1 \in 1 .. count + 1
  OBVIOUS
<1>2. b \in Nat
  BY <1>1, SubNumbers
<1>3. \A k \in 1 .. Len(idx) : Head(idx[k].blocks) < b
  <2> TAKE k \in 1 .. Len(idx)
  <2>1. PICK c \in 1 .. count : c \in Nat /\ Head(idx[k].blocks) = BlockId(s, c)
    BY BlockOf
  <2>2. c \in Nat /\ c < count + 1
    BY <2>1
  <2>3. \A m \in Nat : c < m => BlockId(s, c) < BlockId(s, m)
    BY <2>1, SubNumbers
  <2> QED
    BY <1>1, <2>1, <2>2, <2>3
<1> HIDE DEF b
<1>4. b = BlockId(s, count + 1)
  BY DEF b
<1>5. Grown(s, idx, UpdateLastDatablock(idx, t, t, b), stamps \cup {t}, count + 1)
  BY <1>1, <1>2, <1>3, <1>4, AppendedBlock
<1> QED
  BY <1>4, <1>5

\* The first sample of the last block.
LEMMA FirstSampleGrows ==
    ASSUME NEW s \in Sub, NEW idx \in Seq(Record), NEW stamps \in SUBSET (Time \ {0}),
           NEW count \in Nat, IndexOf(s, idx, stamps, count), idx # <<>>, Null(Last(idx)),
           NEW t \in Time \ {0}, \A k \in 1 .. Len(idx) : idx[k].s < t /\ idx[k].e < t
    PROVE  Grown(s, idx, UpdateLastDatablock(idx, t, t, LastDatablock(idx)),
                 stamps \cup {t}, count)
<1> DEFINE n == Len(idx)
           b == LastDatablock(idx)
<1>1. /\ n \in Nat /\ n \in 1 .. n /\ Last(idx) = idx[n] /\ b = Head(idx[n].blocks)
  BY RecordTypes DEF Last, LastDatablock
<1>2. \A k \in 1 .. n : /\ idx[k].s \in Nat /\ idx[k].e \in Nat /\ idx[k].s <= idx[k].e
                        /\ idx[k].s = 0 <=> idx[k].e = 0
                        /\ Null(idx[k]) <=> idx[k].e = 0
                        /\ Head(idx[k].blocks) \in Nat
                        /\ \A l \in 1 .. n : k < l => idx[k].e <= idx[l].s
  <2> TAKE k \in 1 .. n
  <2>1. /\ idx[k].s \in Nat /\ idx[k].e \in Nat /\ idx[k].s <= idx[k].e
        /\ Head(idx[k].blocks) \in Nat
        /\ \A l \in 1 .. n : k < l => idx[k].e <= idx[l].s
    BY IndexFacts
  <2>2. idx[k].s = 0 <=> idx[k].e = 0
    BY IndexFacts
  <2>3. Null(idx[k]) <=> idx[k].e = 0
    BY IndexFacts
  <2> QED
    BY <2>1, <2>2, <2>3
<1>3. PICK c \in 1 .. count : b = BlockId(s, c)
  BY <1>1, BlockOf
<1>4. \A k \in 1 .. n : Null(idx[k])
  <2> TAKE k \in 1 .. n
  <2>1. k = n \/ k < n
    BY <1>1
  <2>2. idx[n].s = 0 /\ Null(idx[n])
    BY <1>1, <1>2
  <2>3. k < n => idx[k].e <= 0 /\ idx[k].e \in Nat
    BY <1>1, <1>2, <2>2
  <2> QED
    BY <1>2, <2>1, <2>2, <2>3
<1>5. b \in Nat
  BY <1>1, <1>2
<1> HIDE DEF b
<1>6. Grown(s, idx, UpdateLastDatablock(idx, t, t, b), stamps \cup {t}, count)
  BY <1>3, <1>4, <1>5, AppendedBlock
<1> QED
  BY <1>6 DEF b


\* The last block has got a sample more.
LEMMA LastBlockGrows ==
    ASSUME NEW s \in Sub, NEW idx \in Seq(Record), NEW stamps \in SUBSET (Time \ {0}),
           NEW count \in Nat, IndexOf(s, idx, stamps, count), idx # <<>>, ~Null(Last(idx)),
           NEW t \in Time \ {0}, \A k \in 1 .. Len(idx) : idx[k].s < t /\ idx[k].e < t
    PROVE  Grown(s, idx, UpdateLastDatablock(idx, Last(idx).s, t, LastDatablock(idx)),
                 stamps \cup {t}, count)
<1> DEFINE n == Len(idx)
           b == LastDatablock(idx)
           U == UpdateLastDatablock(idx, idx[n].s, t, b)
<1>1. /\ n \in Nat /\ n \in 1 .. n /\ Last(idx) = idx[n] /\ b = Head(idx[n].blocks)
      /\ \A k \in 1 .. n : idx[k] \in Record
  BY RecordTypes DEF Last, LastDatablock
<1>2. t \in Nat /\ t # 0
  BY TimeAssumption
<1>3. \A k \in 1 .. n :
         /\ idx[k].s \in Nat /\ idx[k].e \in Nat /\ idx[k].s <= idx[k].e
         /\ idx[k].blocks = <<Head(idx[k].blocks)>> /\ Head(idx[k].blocks) \in Nat
         /\ \A l \in 1 .. n : k < l =>
               /\ idx[k].e <= idx[l].s
               /\ ~Null(idx[k]) => Head(idx[k].blocks) < Head(idx[l].blocks)
  BY IndexFacts
<1>4. b \in Nat /\ idx[n].blocks = <<b>> /\ idx[n].e <= t /\ idx[n].s \in stamps /\ idx[n].s # 0
  <2>1. idx[n].s \in stamps
    BY <1>1, IndexFacts
  <2>2. idx[n].s # 0
    BY <2>1
  <2>3. idx[n].e <= t
    BY <1>1, <1>2, <1>3
  <2> QED
    BY <1>1, <1>3, <2>1, <2>2, <2>3
<1> HIDE DEF b
<1>5. /\ U \in Seq(Record) /\ Len(U) = n
      /\ \A k \in 1 .. n : k # n => U[k] = idx[k]
      /\ U[n] = Ending(idx[n], t)
  BY <1>2, <1>4, GrownBlock
<1> HIDE DEF U
<1>6. U[n].s = idx[n].s /\ U[n].e = t /\ U[n].blocks = idx[n].blocks
  BY <1>1, <1>5, CutRecord
<1>7. \A k \in 1 .. n : /\ U[k].s = idx[k].s /\ U[k].blocks = idx[k].blocks
                        /\ Head(U[k].blocks) = Head(idx[k].blocks)
                        /\ (k # n /\ U[k] = idx[k]) \/ (k = n /\ U[k].e = t)
  BY <1>5, <1>6
<1>8. \A k \in 1 .. n : Null(U[k]) <=> Null(idx[k])
  <2>1. ~Null(U[n]) /\ ~Null(idx[n])
    BY <1>1, <1>2, <1>4, <1>6 DEF Null
  <2> QED
    BY <1>7, <2>1 DEF Null
<1>9. \A k \in 1 .. n : U[k].s <= U[k].e
  <2> TAKE k \in 1 .. n
  <2>1. idx[k].s <= idx[k].e /\ idx[k].s <= t
    BY <1>1, <1>2, <1>3
  <2> QED
    BY <1>7, <2>1
<1>10. ASSUME NEW k \in 1 .. n, NEW j \in 1 .. n, k < j
       PROVE  U[k].e <= U[j].s /\ (~Null(U[k]) => Head(U[k].blocks) < Head(U[j].blocks))
  <2>1. k # n /\ U[k] = idx[k] /\ U[j].s = idx[j].s /\ Head(U[j].blocks) = Head(idx[j].blocks)
    BY <1>1, <1>7, <1>10
  <2> QED
    BY <1>3, <1>10, <2>1
<1>11. count \in Nat /\ count <= count
  OBVIOUS
<1>12. IndexOf(s, idx, stamps \cup {t}, count)
  BY <1>11, MoreStamps
<1>13. \A k \in 1 .. n :
         /\ \E a \in 1 .. count : U[k].blocks = <<BlockId(s, a)>>
         /\ \/ U[k].s = 0 /\ U[k].e = 0
            \/ U[k].s \in stamps \cup {t} /\ U[k].e \in stamps \cup {t}
  BY <1>4, <1>6, <1>7, <1>12 DEF IndexOf
<1>14. IndexOf(s, U, stamps \cup {t}, count)
  BY <1>5, <1>9, <1>10, <1>13 DEF IndexOf, Ordered
<1>15. Earlier(idx, U)
  <2> SUFFICES ASSUME NEW x \in Filled(idx)
               PROVE  /\ \E y \in Filled(U) : y.blocks = x.blocks
                      /\ \A y \in Filled(U) : Head(y.blocks) < Head(x.blocks) => y \in Filled(idx)
    BY DEF Earlier
  <2>1. PICK k \in 1 .. n : ~Null(idx[k]) /\ x = idx[k]
    BY FilledIs
  <2>2. U[k] \in Filled(U) /\ U[k].blocks = x.blocks
    BY <1>5, <1>7, <1>8, <2>1, FilledIs
  <2>3. ASSUME NEW y \in Filled(U), Head(y.blocks) < Head(x.blocks) PROVE y \in Filled(idx)
    <3>1. PICK l \in 1 .. n : ~Null(U[l]) /\ y = U[l]
      BY <1>5, FilledIs
    <3>2. CASE l # n
      <4>1. y = idx[l] /\ ~Null(idx[l])
        BY <1>7, <1>8, <3>1, <3>2
      <4> QED
        BY <4>1, FilledIs
    <3>3. CASE l = n
      <4>1. Head(idx[n].blocks) < Head(idx[k].blocks)
        BY <1>7, <2>1, <2>3, <3>1, <3>3
      <4>2. k = n \/ k < n
        BY <1>1, <2>1
      <4> QED
        BY <1>1, <1>3, <2>1, <4>1, <4>2
    <3> QED
      BY <3>2, <3>3
  <2> QED
    BY <2>2, <2>3
<1> QED
  BY <1>1, <1>5, <1>14, <1>15 DEF Grown, U, b

\* A new data block that gets no sample.
LEMMA NothingGrows ==
    ASSUME NEW s \in Sub, NEW idx \in Seq(Record), NEW stamps \in SUBSET (Time \ {0}),
           NEW count \in Nat, IndexOf(s, idx, stamps, count)
    PROVE  Grown(s, idx, UpdateLastDatablock(idx, 0, 0, BlockId(s, count + 1)), stamps, count + 1)
<1> DEFINE n == Len(idx)
           b == BlockId(s, count + 1)
           U == UpdateLastDatablock(idx, 0, 0, b)
           x == [s |-> 0, e |-> 0, blocks |-> <<b>>]
           i == InsertionPoint(idx, 0)
<1>1. count + 1 \in Nat /\ count <= count + 1 /\ count + 1 \in 1 .. count + 1 /\ n \in Nat
  BY RecordTypes
<1>2. b \in Nat /\ \A c \in Nat : c < count + 1 => BlockId(s, c) < b
  BY <1>1, SubNumbers
<1>3. \A k \in 1 .. n : idx[k].blocks # <<b>>
  <2> TAKE k \in 1 .. n
  <2>1. PICK c \in 1 .. count : c \in Nat /\ BlockId(s, c) \in Nat /\ Head(idx[k].blocks) = BlockId(s, c)
    BY BlockOf
  <2>2. c < count + 1 /\ Head(<<b>>) = b
    BY <2>1
  <2> QED
    BY <1>2, <2>1, <2>2
<1>4. 0 \in Time
  BY TimeAssumption
<1>5. U \in Seq(Record)
  BY <1>2, <1>4, UpdateLeads
<1>6. i \in 1 .. n + 1 /\ (\A k \in 1 .. n : k < i => idx[k].e = 0) /\ Placed(idx, i, x, U)
  BY <1>2, <1>3, NullBlock
<1>7. \A k \in 1 .. n :
         /\ idx[k].s \in Nat /\ idx[k].e \in Nat /\ idx[k].s <= idx[k].e
         /\ Null(idx[k]) <=> idx[k].e = 0
         /\ \A l \in 1 .. n : k < l =>
               /\ idx[k].e <= idx[l].s
               /\ ~Null(idx[k]) => Head(idx[k].blocks) < Head(idx[l].blocks)
  <2> TAKE k \in 1 .. n
  <2>1. Null(idx[k]) <=> idx[k].e = 0
    BY IndexFacts
  <2> QED
    BY <2>1, IndexFacts
<1>8. IndexOf(s, idx, stamps, count + 1)
  BY <1>1, MoreStamps
<1>9. x.s = 0 /\ x.e = 0 /\ x.blocks = <<BlockId(s, count + 1)>> /\ Null(x)
  BY DEF Null
<1> HIDE DEF U, x, i, b
<1>10. /\ Len(U) = n + 1 /\ U[i] = x
       /\ \A k \in 1 .. n : (k < i => U[k] = idx[k]) /\ (k >= i => U[k + 1] = idx[k])
  BY <1>6 DEF Placed
<1>11. ASSUME NEW k \in 1 .. n + 1
       PROVE  \/ k < i /\ k \in 1 .. n /\ U[k] = idx[k] /\ idx[k].e = 0 /\ Null(idx[k])
              \/ k = i /\ U[k] = x
              \/ k > i /\ k - 1 \in 1 .. n /\ U[k] = idx[k - 1]
  <2>1. CASE k < i
    <3>1. k \in 1 .. n
      BY <1>1, <1>6, <2>1
    <3> QED
      BY <1>6, <1>7, <1>10, <2>1, <3>1
  <2>2. CASE k = i
    BY <1>10, <2>2
  <2>3. CASE k > i
    <3>1. k - 1 \in 1 .. n /\ k - 1 >= i /\ (k - 1) + 1 = k
      BY <1>1, <1>6, <2>3
    <3> QED
      BY <1>10, <2>3, <3>1
  <2> QED
    BY <1>6, <2>1, <2>2, <2>3
<1>12. \A k \in 1 .. n + 1 : U[k].s <= U[k].e /\ U[k].s \in Nat /\ U[k].e \in Nat
  <2> TAKE k \in 1 .. n + 1
  <2> QED
    BY <1>7, <1>9, <1>11
<1>13. ASSUME NEW k \in 1 .. n + 1, NEW j \in 1 .. n + 1, k < j
       PROVE  U[k].e <= U[j].s /\ (~Null(U[k]) => Head(U[k].blocks) < Head(U[j].blocks))
  <2>1. CASE Null(U[k]) /\ U[k].e = 0
    BY <1>12, <2>1
  <2>2. CASE k > i
    <3>1. k - 1 \in 1 .. n /\ U[k] = idx[k - 1] /\ j > i
      BY <1>6, <1>11, <1>13, <2>2
    <3>2. j - 1 \in 1 .. n /\ U[j] = idx[j - 1] /\ k - 1 < j - 1
      BY <1>6, <1>11, <1>13, <3>1
    <3> QED
      BY <1>7, <3>1, <3>2
  <2> QED
    BY <1>9, <1>11, <2>1, <2>2
<1>14. \A k \in 1 .. n + 1 :
          /\ \E a \in 1 .. count + 1 : U[k].blocks = <<BlockId(s, a)>>
          /\ \/ U[k].s = 0 /\ U[k].e = 0
             \/ U[k].s \in stamps /\ U[k].e \in stamps
  <2>1. \A k \in 1 .. n :
          /\ \E a \in 1 .. count + 1 : idx[k].blocks = <<BlockId(s, a)>>
          /\ \/ idx[k].s = 0 /\ idx[k].e = 0
             \/ idx[k].s \in stamps /\ idx[k].e \in stamps
    BY <1>8 DEF IndexOf
  <2>2. /\ \E a \in 1 .. count + 1 : x.blocks = <<BlockId(s, a)>>
        /\ x.s = 0 /\ x.e = 0
    BY <1>1, <1>9
  <2> TAKE k \in 1 .. n + 1
  <2> QED
    BY <1>11, <2>1, <2>2
<1>15. IndexOf(s, U, stamps, count + 1)
  BY <1>10, <1>12, <1>13, <1>14 DEF IndexOf, Ordered
<1>16. \A y : y \in Filled(U) <=> y \in Filled(idx)
  <2> TAKE y
  <2>1. ASSUME y \in Filled(U) PROVE y \in Filled(idx)
    <3>1. PICK k \in 1 .. n + 1 : ~Null(U[k]) /\ y = U[k]
      BY <1>10, <2>1, FilledIs
    <3>2. k - 1 \in 1 .. n /\ U[k] = idx[k - 1]
      BY <1>9, <1>11, <3>1
    <3> QED
      BY <3>1, <3>2, FilledIs
  <2>2. ASSUME y \in Filled(idx) PROVE y \in Filled(U)
    <3>1. PICK k \in 1 .. n : ~Null(idx[k]) /\ y = idx[k]
      BY <2>2, FilledIs
    <3>2. ~(k < i)
      BY <1>6, <1>7, <3>1
    <3>3. k + 1 \in 1 .. Len(U) /\ U[k + 1] = idx[k]
      BY <1>1, <1>6, <1>10, <3>2
    <3> QED
      BY <3>1, <3>3, FilledIs
  <2> QED
    BY <2>1, <2>2
<1>17. Earlier(idx, U)
  BY <1>16 DEF Earlier
<1> QED
  BY <1>5, <1>15, <1>17 DEF Grown, U, b

\* What a step of its engine does to a sub-archive.
EngineOf(s) ==
    /\ samples' \in [Sub -> Seq(Time)] /\ tree' \in [Sub -> Seq(Record)]
    /\ blocks' \in [Sub -> 0 .. MaxBlocks] /\ added' \subseteq Sub
    /\ \A q \in Sub : q # s => /\ samples'[q] = samples[q] /\ tree'[q] = tree[q]
                               /\ blocks'[q] = blocks[q]
    /\ SubSound(s)' /\ Earlier(tree[s], tree'[s])
    /\ StampsOf(s) \subseteq ToSet(samples'[s]) /\ blocks[s] <= blocks'[s]
    /\ UNCHANGED <<shallow, master, tool, seen, torn>>

\* The index of sub-archive s before a step.
LEMMA SubFacts ==
    ASSUME MasterTypeOK, NEW s \in Sub, SubSound(s)
    PROVE  /\ samples \in [Sub -> Seq(Time)] /\ tree \in [Sub -> Seq(Record)]
           /\ blocks \in [Sub -> 0 .. MaxBlocks] /\ added \subseteq Sub
           /\ samples[s] \in Seq(Time) /\ tree[s] \in Seq(Record) /\ blocks[s] \in Nat
           /\ StampsOf(s) \in SUBSET (Time \ {0})
           /\ IndexOf(s, tree[s], StampsOf(s), blocks[s])
<1>1. /\ samples \in [Sub -> Seq(Time)] /\ tree \in [Sub -> Seq(Record)]
      /\ blocks \in [Sub -> 0 .. MaxBlocks] /\ added \subseteq Sub
  BY DEF MasterTypeOK
<1>2. blocks[s] \in Nat
  BY <1>1, SubNumbers
<1>3. /\ IndexOf(s, tree[s], StampsOf(s), blocks[s])
      /\ \A i \in DOMAIN samples[s] : samples[s][i] \in Stamps[s]
  BY DEF SubSound
<1>4. StampsOf(s) \subseteq Time \ {0}
  BY <1>3, SubNumbers DEF StampsOf, ToSet
<1> QED
  BY <1>1, <1>2, <1>3, <1>4

LEMMA AddGrows ==
    ASSUME MasterTypeOK, NEW s \in Sub, SubSound(s), NEW t \in Time, AddSample(s, t)
    PROVE  EngineOf(s)
<1> DEFINE T == tree[s]
           c == blocks[s]
           p == samples[s]
           X == StampsOf(s)
<1>1. /\ samples \in [Sub -> Seq(Time)] /\ tree \in [Sub -> Seq(Record)]
      /\ blocks \in [Sub -> 0 .. MaxBlocks] /\ added \subseteq Sub
      /\ p \in Seq(Time) /\ T \in Seq(Record) /\ c \in Nat
      /\ X \in SUBSET (Time \ {0}) /\ IndexOf(s, T, X, c)
  BY SubFacts
<1>2. MaxBlocks \in Nat
  BY SubsAssumption
<1>3. /\ t \in Stamps[s] /\ samples' = [samples EXCEPT ![s] = Append(@, t)]
      /\ \A i \in DOMAIN p : p[i] < t
      /\ UNCHANGED <<added, shallow, master, tool, seen, torn>>
  BY DEF AddSample
<1>4. t \in Nat /\ t # 0 /\ t \in Time \ {0}
  BY <1>3, SubNumbers, TimeAssumption
<1>5. samples' \in [Sub -> Seq(Time)] /\ samples'[s] = Append(p, t)
      /\ \A q \in Sub : q # s => samples'[q] = samples[q]
  BY <1>1, <1>3
<1>6. /\ Append(p, t) \in Seq(Time) /\ Len(p) \in Nat
      /\ DOMAIN p = 1 .. Len(p) /\ DOMAIN Append(p, t) = 1 .. Len(p) + 1
      /\ \A k \in 1 .. Len(p) : Append(p, t)[k] = p[k]
      /\ Append(p, t)[Len(p) + 1] = t
      /\ ToSet(Append(p, t)) = ToSet(p) \cup {t}
  BY <1>1, OneMore
<1>7. \A k \in 1 .. Len(T) : T[k].s < t /\ T[k].e < t
  <2> TAKE k \in 1 .. Len(T)
  <2>1. (T[k].s = 0 /\ T[k].e = 0) \/ (T[k].s \in X /\ T[k].e \in X)
    BY <1>1 DEF IndexOf
  <2>2. \A u \in X : u < t
    BY <1>3 DEF StampsOf, ToSet
  <2>3. 0 < t
    BY <1>4
  <2> QED
    BY <2>1, <2>2, <2>3
<1>8. \A i \in DOMAIN Append(p, t) :
         /\ Append(p, t)[i] \in Stamps[s]
         /\ \A j \in DOMAIN Append(p, t) : i < j => Append(p, t)[i] < Append(p, t)[j]
  <2> DEFINE P == Append(p, t)
  <2>1. \A i \in 1 .. Len(p) : /\ p[i] \in Stamps[s] /\ p[i] < t
                               /\ \A j \in 1 .. Len(p) : i < j => p[i] < p[j]
    BY <1>3, <1>6 DEF SubSound
  <2>2. \A i \in 1 .. Len(p) + 1 : (i \in 1 .. Len(p) /\ P[i] = p[i]) \/ (i = Len(p) + 1 /\ P[i] = t)
    BY <1>6
  <2>3. DOMAIN P = 1 .. Len(p) + 1
    BY <1>6
  <2> HIDE DEF P
  <2>4. \A i \in 1 .. Len(p) + 1 : P[i] \in Stamps[s]
    BY <1>3, <2>1, <2>2
  <2>5. \A i, j \in 1 .. Len(p) + 1 : i < j => P[i] < P[j]
    <3> TAKE i, j \in 1 .. Len(p) + 1
    <3> HAVE i < j
    <3>1. i \in 1 .. Len(p) /\ P[i] = p[i]
      BY <1>6, <2>2
    <3> QED
      BY <2>1, <2>2, <3>1
  <2> QED
    BY <2>3, <2>4, <2>5 DEF P
<1>9. /\ tree' \in [Sub -> Seq(Record)] /\ blocks' \in [Sub -> 0 .. MaxBlocks]
      /\ \A q \in Sub : q # s => tree'[q] = tree[q] /\ blocks'[q] = blocks[q]
      /\ c <= blocks'[s] /\ Grown(s, T, tree'[s], X \cup {t}, blocks'[s])
  <2>1. CASE /\ blocks[s] < MaxBlocks /\ blocks' = [blocks EXCEPT ![s] = @ + 1]
             /\ tree' = [tree EXCEPT ![s] = UpdateLastDatablock(@, t, t, BlockId(s, blocks'[s]))]
    <3>1. blocks'[s] = c + 1 /\ c + 1 \in 0 .. MaxBlocks /\ c <= c + 1
      BY <1>1, <1>2, <2>1
    <3> DEFINE new == UpdateLastDatablock(T, t, t, BlockId(s, c + 1))
    <3>2. Grown(s, T, new, X \cup {t}, c + 1)
      BY <1>1, <1>4, <1>7, NewBlockGrows
    <3>3. tree' = [tree EXCEPT ![s] = new]
      BY <2>1, <3>1
    <3> HIDE DEF new
    <3>4. new \in Seq(Record)
      BY <3>2 DEF Grown
    <3>5. tree' \in [Sub -> Seq(Record)] /\ tree'[s] = new /\ \A q \in Sub : q # s => tree'[q] = tree[q]
      BY <1>1, <3>3, <3>4
    <3>6. blocks' \in [Sub -> 0 .. MaxBlocks] /\ \A q \in Sub : q # s => blocks'[q] = blocks[q]
      BY <1>1, <1>2, <2>1, <3>1
    <3> QED
      BY <3>1, <3>2, <3>5, <3>6
  <2>2. CASE /\ T # <<>> /\ UNCHANGED blocks
             /\ tree' = [tree EXCEPT ![s] =
                           UpdateLastDatablock(@, IF Null(Last(T)) THEN t ELSE Last(T).s, t,
                                               LastDatablock(T))]
    <3> DEFINE start == IF Null(Last(T)) THEN t ELSE Last(T).s
               new   == UpdateLastDatablock(T, start, t, LastDatablock(T))
    <3>1. Grown(s, T, new, X \cup {t}, c)
      <4>1. CASE Null(Last(T))
        <5>1. Grown(s, T, UpdateLastDatablock(T, t, t, LastDatablock(T)), X \cup {t}, c)
          BY <1>1, <1>4, <1>7, <2>2, <4>1, FirstSampleGrows
        <5> QED
          BY <4>1, <5>1
      <4>2. CASE ~Null(Last(T))
        <5>1. Grown(s, T, UpdateLastDatablock(T, Last(T).s, t, LastDatablock(T)), X \cup {t}, c)
          BY <1>1, <1>4, <1>7, <2>2, <4>2, LastBlockGrows
        <5> QED
          BY <4>2, <5>1
      <4> QED
        BY <4>1, <4>2
    <3>2. tree' = [tree EXCEPT ![s] = new]
      BY <2>2
    <3> HIDE DEF new
    <3>3. new \in Seq(Record)
      BY <3>1 DEF Grown
    <3>4. tree' \in [Sub -> Seq(Record)] /\ tree'[s] = new /\ \A q \in Sub : q # s => tree'[q] = tree[q]
      BY <1>1, <3>2, <3>3
    <3>5. c <= c
      BY <1>1
    <3> QED
      BY <1>1, <2>2, <3>1, <3>4, <3>5
  <2> QED
    BY <2>1, <2>2 DEF AddSample
<1>10. ToSet(samples'[s]) = X \cup {t}
  BY <1>5, <1>6 DEF StampsOf
<1>11. SubSound(s)'
  BY <1>5, <1>8, <1>9, <1>10 DEF SubSound, StampsOf, Grown
<1> QED
  BY <1>1, <1>3, <1>5, <1>9, <1>10, <1>11 DEF EngineOf, Grown

LEMMA NothingAdds ==
    ASSUME MasterTypeOK, NEW s \in Sub, SubSound(s), AddNothing(s)
    PROVE  EngineOf(s)
<1> DEFINE T == tree[s]
           c == blocks[s]
           X == StampsOf(s)
           new == UpdateLastDatablock(T, 0, 0, BlockId(s, c + 1))
<1>1. /\ samples \in [Sub -> Seq(Time)] /\ tree \in [Sub -> Seq(Record)]
      /\ blocks \in [Sub -> 0 .. MaxBlocks] /\ added \subseteq Sub
      /\ T \in Seq(Record) /\ c \in Nat
      /\ X \in SUBSET (Time \ {0}) /\ IndexOf(s, T, X, c)
  BY SubFacts
<1>2. MaxBlocks \in Nat
  BY SubsAssumption
<1>3. /\ blocks[s] < MaxBlocks /\ blocks' = [blocks EXCEPT ![s] = @ + 1]
      /\ tree' = [tree EXCEPT ![s] = UpdateLastDatablock(@, 0, 0, BlockId(s, blocks'[s]))]
      /\ UNCHANGED <<samples, added, shallow, master, tool, seen, torn>>
  BY DEF AddNothing
<1>4. blocks'[s] = c + 1 /\ c + 1 \in 0 .. MaxBlocks /\ c <= c + 1
  BY <1>1, <1>2, <1>3
<1>5. Grown(s, T, new, X, c + 1)
  BY <1>1, NothingGrows
<1>6. tree' = [tree EXCEPT ![s] = new]
  BY <1>3, <1>4
<1> HIDE DEF new
<1>7. new \in Seq(Record) /\ IndexOf(s, new, X, c + 1) /\ Earlier(T, new)
  BY <1>5 DEF Grown
<1>8. tree' \in [Sub -> Seq(Record)] /\ tree'[s] = new /\ \A q \in Sub : q # s => tree'[q] = tree[q]
  BY <1>1, <1>6, <1>7
<1>9. blocks' \in [Sub -> 0 .. MaxBlocks] /\ \A q \in Sub : q # s => blocks'[q] = blocks[q]
  BY <1>1, <1>2, <1>3, <1>4
<1>10. SubSound(s)'
  BY <1>3, <1>4, <1>7, <1>8 DEF SubSound, StampsOf
<1>11. X = ToSet(samples'[s])
  BY <1>3 DEF StampsOf
<1> QED
  BY <1>1, <1>3, <1>4, <1>7, <1>8, <1>9, <1>10, <1>11 DEF EngineOf

-----------------------------------------------------------------------------
(* The master index beside the engines.                                    *)
LEMMA ReachesIs ==
    ASSUME NEW idx \in Seq(Record), NEW b, NEW t
    PROVE  (\E j \in Holding(idx, t) : b \in ToSet(idx[j].blocks)) <=> LeadsTo(idx, b, t)
<1>1. DOMAIN idx = 1 .. Len(idx)
  OBVIOUS
<1> QED
  BY <1>1 DEF Holding, LeadsTo

\* What Covered(s) says.
LEMMA CoveredIs ==
    ASSUME MasterTypeOK, NEW s \in Sub
    PROVE  Covered(s) <=> \A i \in 1 .. Len(seen[s]) : \A t \in (seen[s][i].s .. seen[s][i].e) \ {0} :
                             LeadsTo(master, IF shallow THEN s ELSE Head(seen[s][i].blocks), t)
<1>1. seen[s] \in Seq(Record) /\ master \in Seq(Record)
  BY DEF MasterTypeOK
<1>2. DOMAIN seen[s] = 1 .. Len(seen[s])
  BY <1>1
<1>3. \A b, t : (\E j \in Holding(master, t) : b \in ToSet(master[j].blocks)) <=> LeadsTo(master, b, t)
  BY <1>1, ReachesIs
<1> QED
  BY <1>2, <1>3 DEF Covered

\* What has not been touched stays covered.
LEMMA SameCovered ==
    ASSUME UNCHANGED <<master, seen, shallow>>, NEW s \in Sub, Covered(s)
    PROVE  Covered(s)'
BY DEF Covered, Holding

\* The master does not lead to other blocks.
LEMMA SameKnown ==
    ASSUME UNCHANGED master, NEW b
    PROVE  Known(b)' <=> Known(b)
BY DEF Known

LEMMA MasterInitHolds ==
    ASSUME MasterInit
    PROVE  MasterInv
<1>1. MasterTypeOK
  <2>1. 0 \in 0 .. MaxBlocks /\ <<>> \in Seq(Record) /\ <<>> \in Seq(Time)
    BY SubsAssumption
  <2> QED
    BY <2>1 DEF MasterInit, MasterTypeOK, Idle
<1>2. \A s, c, n : IndexOf(s, <<>>, c, n) /\ Earlier(<<>>, <<>>)
  BY DEF IndexOf, Earlier, Ordered, Filled
<1>3. \A s \in Sub : SubSound(s)
  BY <1>2 DEF MasterInit, SubSound, StampsOf
<1>4. ToolSound
  BY <1>2 DEF MasterInit, ToolSound, Idle
<1>5. FullSound
  BY DEF MasterInit, FullSound, Known, LeadsTo, Ordered, Idle
<1>6. MasterCovers
  BY DEF MasterInit, MasterCovers, Covered
<1> QED
  BY <1>1, <1>3, <1>4, <1>5, <1>6 DEF MasterInv

\* FullSound speaks of the master and of the tool.
LEMMA FullSoundStays ==
    ASSUME FullSound, UNCHANGED <<shallow, master, seen>>, torn \subseteq torn',
           \/ UNCHANGED tool
           \/ tool.pc # "block" /\ tool'.pc # "block"
           \/ tool.pc # "block" /\ tool'.k = Len(tool'.src) /\ Len(tool'.src) \in Nat
           \/ tool'.pc # "block" /\ tool.sub \in torn'
    PROVE  FullSound'
<1>1. /\ Ordered(master')
      /\ \A j \in 1 .. Len(master') : /\ master'[j].blocks # <<>>
                                      /\ master'[j].s = 0 => master'[j].e = 0
  <2>1. Ordered(master)
    BY DEF FullSound
  <2>2. \A j \in 1 .. Len(master) : master[j].blocks # <<>>
    BY DEF FullSound
  <2>3. \A j \in 1 .. Len(master) : master[j].s = 0 => master[j].e = 0
    BY DEF FullSound
  <2>4. master' = master
    OBVIOUS
  <2> QED
    BY <2>1, <2>2, <2>3, <2>4
<1>2. ASSUME ~shallow', NEW s \in Sub \ torn', NEW n \in 1 .. MaxBlocks, Known(BlockId(s, n))'
      PROVE  \/ \E x \in Filled(seen'[s]) : x.blocks = <<BlockId(s, n)>>
             \/ /\ tool'.pc = "block" /\ tool'.sub = s
                /\ \E m \in 1 .. Len(tool'.src) :
                      /\ tool'.k < m /\ ~Null(tool'.src[m])
                      /\ tool'.src[m].blocks = <<BlockId(s, n)>>
  <2>1. s \in Sub \ torn /\ Known(BlockId(s, n))
    BY <1>2, SameKnown
  <2>2. \/ \E x \in Filled(seen[s]) : x.blocks = <<BlockId(s, n)>>
        \/ /\ tool.pc = "block" /\ tool.sub = s
           /\ \E m \in 1 .. Len(tool.src) :
                 /\ tool.k < m /\ ~Null(tool.src[m])
                 /\ tool.src[m].blocks = <<BlockId(s, n)>>
    BY <1>2, <2>1 DEF FullSound
  <2> QED
    BY <1>2, <2>2
<1>3. ASSUME ~shallow', tool'.pc = "block", NEW n \in 1 .. Len(tool'.src), tool'.k < n,
             NEW t \in tool'.src[n].s .. tool'.src[n].e
      PROVE  LeadsTo(master', Head(tool'.src[n].blocks), t)
  <2>1. UNCHANGED tool
    <3>1. ~(tool'.k = Len(tool'.src) /\ Len(tool'.src) \in Nat)
      BY <1>3
    <3> QED
      BY <1>3, <3>1
  <2> QED
    BY <1>3, <2>1 DEF FullSound
<1> QED
  BY <1>1, <1>2, <1>3 DEF FullSound

LEMMA EngineKeepsMaster ==
    ASSUME MasterInv, NEW s \in Sub, EngineOf(s)
    PROVE  MasterInv'
<1>1. /\ \A q \in Sub : q # s => /\ samples'[q] = samples[q] /\ tree'[q] = tree[q]
                                 /\ blocks'[q] = blocks[q]
      /\ SubSound(s)' /\ Earlier(tree[s], tree'[s])
      /\ StampsOf(s) \subseteq ToSet(samples'[s]) /\ blocks[s] <= blocks'[s]
      /\ UNCHANGED <<shallow, master, tool, seen, torn>>
  BY DEF EngineOf
<1>2. MasterTypeOK /\ MasterTypeOK'
  BY DEF MasterInv, MasterTypeOK, EngineOf
<1>3. \A q \in Sub : blocks[q] \in Nat /\ blocks'[q] \in Nat
  <2> TAKE q \in Sub
  <2>1. blocks[q] \in 0 .. MaxBlocks /\ blocks'[q] \in 0 .. MaxBlocks
    BY <1>2 DEF MasterTypeOK
  <2> QED
    BY <2>1, SubNumbers
<1>4. \A q \in Sub : SubSound(q)'
  <2> TAKE q \in Sub
  <2>1. CASE q = s
    BY <1>1, <2>1
  <2>2. CASE q # s
    <3>1. SubSound(q) /\ samples'[q] = samples[q] /\ tree'[q] = tree[q] /\ blocks'[q] = blocks[q]
      BY <1>1, <2>2 DEF MasterInv
    <3> QED
      BY <3>1 DEF SubSound, StampsOf
  <2> QED
    BY <2>1, <2>2
<1>5. \A q \in Sub : StampsOf(q) \subseteq ToSet(samples'[q]) /\ blocks[q] <= blocks'[q]
  <2> TAKE q \in Sub
  <2>1. CASE q = s
    BY <1>1, <2>1
  <2>2. CASE q # s
    <3>1. samples'[q] = samples[q] /\ blocks'[q] = blocks[q] /\ blocks[q] <= blocks[q]
      BY <1>1, <1>3, <2>2
    <3> QED
      BY <3>1 DEF StampsOf
  <2> QED
    BY <2>1, <2>2
<1>6. \A q \in Sub : \A idx : IndexOf(q, idx, StampsOf(q), blocks[q])
                        => IndexOf(q, idx, ToSet(samples'[q]), blocks'[q])
  BY <1>3, <1>5, MoreStamps
<1>7. \A q \in Sub : \A idx : Earlier(idx, tree[q]) => Earlier(idx, tree'[q])
  <2> TAKE q \in Sub
  <2> TAKE idx
  <2> HAVE Earlier(idx, tree[q])
  <2>1. CASE q = s
    BY <1>1, <2>1, EarlierStill
  <2>2. CASE q # s
    BY <1>1, <2>2
  <2> QED
    BY <2>1, <2>2
<1>8. ToolSound'
  <2>1. ToolSound
    BY DEF MasterInv
  <2>2. \A q \in Sub : /\ IndexOf(q, seen'[q], ToSet(samples'[q]), blocks'[q])
                       /\ Earlier(seen'[q], tree'[q])
    BY <1>1, <1>6, <1>7, <2>1 DEF ToolSound
  <2>3. ASSUME tool.pc \in {"block", "range"}
        PROVE  /\ IndexOf(tool.sub, tool.src, ToSet(samples'[tool.sub]), blocks'[tool.sub])
               /\ Earlier(tool.src, tree'[tool.sub]) /\ Earlier(seen[tool.sub], tool.src)
    <3>1. /\ tool.sub \in Sub /\ IndexOf(tool.sub, tool.src, StampsOf(tool.sub), blocks[tool.sub])
          /\ Earlier(tool.src, tree[tool.sub]) /\ Earlier(seen[tool.sub], tool.src)
      BY <2>1, <2>3 DEF ToolSound
    <3> QED
      BY <1>6, <1>7, <3>1
  <2>4. /\ tool.pc # "idle" => tool.sub \in Sub
        /\ tool.pc = "block" => ~shallow /\ tool.k \in 1 .. Len(tool.src)
        /\ tool.pc = "range" => shallow /\ \A i \in 1 .. Len(tool.src) : ~Null(tool.src[i])
    BY <2>1 DEF ToolSound
  <2> QED
    BY <1>1, <2>2, <2>3, <2>4 DEF ToolSound, StampsOf
<1>9. FullSound'
  BY <1>1, FullSoundStays DEF MasterInv
<1>10. MasterCovers'
  BY <1>1, SameCovered DEF MasterInv, MasterCovers
<1> QED
  BY <1>2, <1>4, <1>8, <1>9, <1>10 DEF MasterInv

LEMMA AddChannelKeepsMaster ==
    ASSUME MasterInv, NEW s \in Sub, AddChannel(s)
    PROVE  MasterInv'
<1>1. /\ added' = added \cup {s}
      /\ UNCHANGED <<samples, tree, blocks, shallow, master, tool, seen, torn>>
  BY DEF AddChannel
<1>2. MasterTypeOK'
  BY <1>1 DEF MasterInv, MasterTypeOK
<1>3. (\A q \in Sub : SubSound(q)') /\ ToolSound'
  BY <1>1 DEF MasterInv, SubSound, ToolSound, StampsOf
<1>4. FullSound'
  BY <1>1, FullSoundStays DEF MasterInv
<1>5. MasterCovers'
  BY <1>1, SameCovered DEF MasterInv, MasterCovers
<1> QED
  BY <1>2, <1>3, <1>4, <1>5 DEF MasterInv

\* The steps of the tool leave the sub-archives alone.
LEMMA ToolLeavesSubs ==
    ASSUME MasterInv, UNCHANGED <<samples, tree, blocks>>
    PROVE  \A s \in Sub : SubSound(s)'
BY DEF MasterInv, SubSound, StampsOf

\* The tool's place after the sub-archive that it is at.
LEMMA NextSubIs ==
    ASSUME MasterInv, tool.pc # "idle"
    PROVE  /\ NextSub(tool.sub) \in [pc : {"idle", "sub", "block", "range"}, sub : Nat,
                                     src : Seq(Record), k : Nat, runs : Nat]
           /\ NextSub(tool.sub).pc \in {"idle", "sub"}
           /\ NextSub(tool.sub).pc = "sub" => NextSub(tool.sub).sub \in Sub
<1>1. /\ tool \in [pc : {"idle", "sub", "block", "range"}, sub : Nat,
                   src : Seq(Record), k : Nat, runs : Nat]
      /\ tool.sub \in 1 .. Subs /\ Subs \in Nat
  BY SubNumbers DEF MasterInv, MasterTypeOK, ToolSound, Sub
<1> DEFINE pc1 == IF tool.sub = Subs THEN "idle" ELSE "sub"
<1>2. /\ tool.sub + 1 \in Nat /\ pc1 \in {"idle", "sub"}
      /\ pc1 = "sub" => tool.sub + 1 \in 1 .. Subs
  BY <1>1
<1>3. NextSub(tool.sub) = [tool EXCEPT !.pc = pc1, !.sub = tool.sub + 1]
  BY DEF NextSub
<1> HIDE DEF pc1
<1>4. /\ NextSub(tool.sub) \in [pc : {"idle", "sub", "block", "range"}, sub : Nat,
                                src : Seq(Record), k : Nat, runs : Nat]
      /\ NextSub(tool.sub).pc = pc1 /\ NextSub(tool.sub).sub = tool.sub + 1
  BY <1>1, <1>2, <1>3
<1> QED
  BY <1>2, <1>4 DEF Sub

LEMMA StartKeepsMaster ==
    ASSUME MasterInv, StartRun
    PROVE  MasterInv'
<1>1. /\ tool.pc = "idle" /\ tool' = [tool EXCEPT !.pc = "sub", !.sub = 1, !.runs = @ + 1]
      /\ UNCHANGED <<samples, added, tree, blocks, shallow, master, seen, torn>>
      /\ tool \in [pc : {"idle", "sub", "block", "range"}, sub : Nat,
                   src : Seq(Record), k : Nat, runs : Nat]
  BY DEF StartRun, MasterInv, MasterTypeOK
<1>2. /\ tool' \in [pc : {"idle", "sub", "block", "range"}, sub : Nat,
                    src : Seq(Record), k : Nat, runs : Nat]
      /\ tool'.pc = "sub" /\ tool'.sub = 1 /\ 1 \in Sub
  <2>1. 1 \in Sub /\ 1 \in Nat
    BY SubsAssumption DEF Sub
  <2>2. tool.runs + 1 \in Nat
    BY <1>1
  <2> QED
    BY <1>1, <2>1, <2>2
<1>3. MasterTypeOK'
  BY <1>1, <1>2 DEF MasterInv, MasterTypeOK
<1>4. ToolSound'
  BY <1>1, <1>2 DEF MasterInv, ToolSound, StampsOf
<1>5. FullSound'
  BY <1>1, <1>2, FullSoundStays DEF MasterInv
<1>6. MasterCovers'
  BY <1>1, SameCovered DEF MasterInv, MasterCovers
<1>7. \A s \in Sub : SubSound(s)'
  BY <1>1, ToolLeavesSubs
<1> QED
  BY <1>3, <1>4, <1>5, <1>6, <1>7 DEF MasterInv

LEMMA ReadKeepsMaster ==
    ASSUME MasterInv, ReadTree
    PROVE  MasterInv'
<1> DEFINE T == tree[tool.sub]
           skip == \/ tool.sub \notin added
                   \/ ~shallow /\ T = <<>>
                   \/ shallow /\ \E i \in DOMAIN T : Null(T[i])
<1>1. /\ tool.pc = "sub"
      /\ UNCHANGED <<samples, added, tree, blocks, shallow, master, seen, torn>>
      /\ tool \in [pc : {"idle", "sub", "block", "range"}, sub : Nat,
                   src : Seq(Record), k : Nat, runs : Nat]
      /\ tree \in [Sub -> Seq(Record)] /\ tool.sub \in Sub
      /\ tool' = IF skip THEN NextSub(tool.sub)
                 ELSE [tool EXCEPT !.pc = IF shallow THEN "range" ELSE "block",
                                   !.src = T, !.k = Len(T)]
      /\ shallow \in BOOLEAN
  BY DEF ReadTree, MasterInv, MasterTypeOK, ToolSound
<1>2. MasterCovers' /\ \A s \in Sub : SubSound(s)'
  BY <1>1, SameCovered, ToolLeavesSubs DEF MasterInv, MasterCovers
<1>3. CASE skip
  <2>1. /\ tool' \in [pc : {"idle", "sub", "block", "range"}, sub : Nat,
                      src : Seq(Record), k : Nat, runs : Nat]
        /\ tool'.pc \in {"idle", "sub"} /\ (tool'.pc = "sub" => tool'.sub \in Sub)
    BY <1>1, <1>3, NextSubIs
  <2>2. MasterTypeOK'
    BY <1>1, <2>1 DEF MasterInv, MasterTypeOK
  <2>3. ToolSound'
    BY <1>1, <2>1 DEF MasterInv, ToolSound, StampsOf
  <2>4. FullSound'
    <3>1. FullSound /\ tool.pc # "block" /\ tool'.pc # "block"
      BY <1>1, <2>1 DEF MasterInv
    <3> QED
      BY <1>1, <3>1, FullSoundStays
  <2> QED
    BY <1>2, <2>2, <2>3, <2>4 DEF MasterInv
<1>4. CASE ~skip
  <2>1. T \in Seq(Record) /\ Len(T) \in Nat /\ DOMAIN T = 1 .. Len(T)
    BY <1>1, RecordTypes
  <2>2. ~shallow => T # <<>> /\ Len(T) \in 1 .. Len(T)
    BY <1>4, <2>1, RecordTypes
  <2>3. shallow => \A i \in 1 .. Len(T) : ~Null(T[i])
    BY <1>4, <2>1
  <2>4. /\ tool' \in [pc : {"idle", "sub", "block", "range"}, sub : Nat,
                      src : Seq(Record), k : Nat, runs : Nat]
        /\ tool'.pc = IF shallow THEN "range" ELSE "block"
        /\ tool'.sub = tool.sub /\ tool'.src = T /\ tool'.k = Len(T)
    <3>1. tool' = [tool EXCEPT !.pc = IF shallow THEN "range" ELSE "block", !.src = T, !.k = Len(T)]
      BY <1>1, <1>4
    <3> HIDE DEF T
    <3> QED
      BY <1>1, <2>1, <3>1
  <2> HIDE DEF T, skip
  <2>5. MasterTypeOK'
    BY <1>1, <2>4 DEF MasterInv, MasterTypeOK
  <2>6. ToolSound'
    <3>1. /\ IndexOf(tool.sub, T, StampsOf(tool.sub), blocks[tool.sub])
          /\ Earlier(T, T) /\ Earlier(seen[tool.sub], T)
      BY <1>1, EarlierSelf DEF MasterInv, SubSound, ToolSound, T
    <3>2. T = tree'[tool.sub]
      BY <1>1 DEF T
    <3>3. /\ \A s \in Sub : /\ IndexOf(s, seen'[s], ToSet(samples'[s]), blocks'[s])
                            /\ Earlier(seen'[s], tree'[s])
          /\ tool'.sub \in Sub
      BY <1>1, <2>4 DEF MasterInv, ToolSound, StampsOf
    <3>4. /\ IndexOf(tool'.sub, tool'.src, ToSet(samples'[tool'.sub]), blocks'[tool'.sub])
          /\ Earlier(tool'.src, tree'[tool'.sub]) /\ Earlier(seen'[tool'.sub], tool'.src)
      BY <1>1, <2>4, <3>1, <3>2 DEF StampsOf
    <3>5. /\ tool'.pc = "block" => ~shallow' /\ tool'.k \in 1 .. Len(tool'.src)
          /\ tool'.pc = "range" => shallow' /\ \A i \in 1 .. Len(tool'.src) : ~Null(tool'.src[i])
      BY <1>1, <2>1, <2>2, <2>3, <2>4
    <3> QED
      BY <3>3, <3>4, <3>5 DEF ToolSound, StampsOf
  <2>7. FullSound'
    <3>1. FullSound /\ tool.pc # "block" /\ tool'.k = Len(tool'.src) /\ Len(tool'.src) \in Nat
      BY <1>1, <2>1, <2>4 DEF MasterInv
    <3> QED
      BY <1>1, <3>1, FullSoundStays
  <2> QED
    BY <1>2, <2>5, <2>6, <2>7 DEF MasterInv
<1> QED
  BY <1>3, <1>4

LEMMA InterruptKeepsMaster ==
    ASSUME MasterInv, Interrupt
    PROVE  MasterInv'
<1>1. /\ tool.pc # "idle" /\ tool' = [tool EXCEPT !.pc = "idle"]
      /\ torn' = (IF tool.pc = "block" THEN torn \cup {tool.sub} ELSE torn)
      /\ UNCHANGED <<samples, added, tree, blocks, shallow, master, seen>>
      /\ tool \in [pc : {"idle", "sub", "block", "range"}, sub : Nat,
                   src : Seq(Record), k : Nat, runs : Nat]
      /\ tool.sub \in Sub
  BY DEF Interrupt, MasterInv, MasterTypeOK, ToolSound
<1>2. /\ tool' \in [pc : {"idle", "sub", "block", "range"}, sub : Nat,
                    src : Seq(Record), k : Nat, runs : Nat]
      /\ tool'.pc = "idle" /\ torn' \subseteq torn \cup {tool.sub} /\ torn \subseteq torn'
      /\ tool.pc = "block" => tool.sub \in torn'
  BY <1>1
<1>3. MasterTypeOK'
  BY <1>1, <1>2 DEF MasterInv, MasterTypeOK
<1>4. ToolSound'
  BY <1>1, <1>2 DEF MasterInv, ToolSound, StampsOf
<1>5. FullSound'
  <2>1. FullSound /\ tool'.pc # "block" /\ (tool.pc # "block" \/ tool.sub \in torn')
    BY <1>2 DEF MasterInv
  <2> QED
    BY <1>1, <1>2, <2>1, FullSoundStays
<1>6. MasterCovers'
  BY <1>1, <1>2, SameCovered DEF MasterInv, MasterCovers
<1> QED
  BY <1>1, <1>3, <1>4, <1>5, <1>6, ToolLeavesSubs DEF MasterInv

\* The records of a master: those that start at 0 are null ones, the others have
\* blocks of D.
Leading(D) ==
    {x \in Record : /\ x.blocks # <<>> /\ (x.s = 0 => x.e = 0)
                    /\ x.s # 0 => ToSet(x.blocks) \subseteq D}

LEMMA LeadingFits ==
    ASSUME NEW D, NEW b \in Nat
    PROVE  Fits(Leading(D), {0}, b) /\ (b \in D => Fits(Leading(D), Time \ {0}, b))
<1> DEFINE P == Leading(D)
<1>1. /\ Time \subseteq Nat /\ 0 \in Time /\ \A n \in Time \ {0} : n \in Nat /\ n > 0
      /\ \A x \in P : x \in Record /\ x.s \in Nat /\ x.e \in Nat /\ x.s \in Time /\ x.e \in Time
                      /\ x.blocks \in Seq(Nat)
  <2>1. Time \subseteq Nat /\ 0 \in Time
    BY TimeAssumption
  <2>2. \A n \in Time \ {0} : n \in Nat /\ n > 0
    BY <2>1
  <2>3. \A x \in P : x \in Record
    BY DEF Leading
  <2>4. \A x \in Record : x.s \in Time /\ x.e \in Time /\ x.blocks \in Seq(Nat)
    BY DEF Record
  <2> HIDE DEF P
  <2> QED
    BY <2>1, <2>2, <2>3, <2>4
<1>2. \A n0, n1 \in Time : /\ [s |-> n0, e |-> n1, blocks |-> <<b>>] \in Record
                           /\ <<b>> # <<>> /\ ToSet(<<b>>) = {b}
  <2>1. ToSet(<<b>>) = {b}
    BY DEF ToSet
  <2> QED
    BY <2>1 DEF Record
<1>3. \A x \in P : \A c \in Time :
         /\ Ending(x, c) \in Record /\ Ending(x, c).s = x.s /\ Ending(x, c).e = c
         /\ Ending(x, c).blocks = x.blocks
         /\ Starting(x, c) \in Record /\ Starting(x, c).s = c /\ Starting(x, c).e = x.e
         /\ Starting(x, c).blocks = x.blocks
  BY <1>1, CutRecord
<1>4. Fits(P, {0}, b)
  <2>1. P \subseteq Record /\ {0} \subseteq Time
    BY <1>1
  <2>2. [s |-> 0, e |-> 0, blocks |-> <<b>>] \in P
    BY <1>1, <1>2 DEF Leading
  <2>3. \A x \in P : ~(x.s < 0)
    BY <1>1
  <2>4. \A x \in P : x.s = 0 => Ending(x, 0) \in P
    <3> TAKE x \in P
    <3> HAVE x.s = 0
    <3>1. /\ Ending(x, 0) \in Record /\ Ending(x, 0).s = 0 /\ Ending(x, 0).e = 0
          /\ Ending(x, 0).blocks = x.blocks /\ x.blocks # <<>>
      BY <1>1, <1>3 DEF Leading
    <3> QED
      BY <3>1 DEF Leading
  <2> HIDE DEF P
  <2> QED
    BY <2>1, <2>2, <2>3, <2>4 DEF Fits
<1>5. ASSUME b \in D PROVE Fits(P, Time \ {0}, b)
  <2>1. P \subseteq Record /\ Time \ {0} \subseteq Time
    BY <1>1
  <2>2. \A n0, n1 \in Time \ {0} : n0 <= n1 => [s |-> n0, e |-> n1, blocks |-> <<b>>] \in P
    BY <1>2, <1>5 DEF Leading
  <2>3. ASSUME NEW x \in P, NEW n0 \in Time \ {0}, NEW n1 \in Time \ {0},
               x.s < n1, n0 < x.e, n0 <= n1
        PROVE  /\ n0 <= x.s => x.s \in Time \ {0}
               /\ x.e <= n1 => x.e \in Time \ {0}
               /\ n0 <= x.s /\ x.e <= n1 /\ b \notin ToSet(x.blocks) => WithBlock(x, b) \in P
    <3>1. n0 \in Nat /\ n1 \in Nat /\ n0 > 0 /\ x.s \in Nat /\ x.e \in Nat /\ x.s \in Time /\ x.e \in Time
      BY <1>1
    <3>2. x.e # 0 /\ (n0 <= x.s => x.s # 0)
      BY <2>3, <3>1
    <3>3. WithBlock(x, b) \in P
      <4>1. /\ WithBlock(x, b).s = x.s /\ WithBlock(x, b).e = x.e
            /\ WithBlock(x, b).blocks = Append(x.blocks, b)
            /\ WithBlock(x, b) \in Record
        <5>1. x \in Record /\ Append(x.blocks, b) \in Seq(Nat)
          BY <1>1
        <5> QED
          BY <5>1 DEF WithBlock, Record
      <4>2. Append(x.blocks, b) # <<>> /\ ToSet(Append(x.blocks, b)) = ToSet(x.blocks) \cup {b}
        <5>1. x.blocks \in Seq(Nat)
          BY <1>1
        <5>2. Append(x.blocks, b) # <<>>
          <6> DEFINE longer == Append(x.blocks, b)
          <6>1. Len(longer) = Len(x.blocks) + 1 /\ Len(x.blocks) \in Nat
            BY <5>1, OneMore
          <6> HIDE DEF longer
          <6>2. Len(longer) # 0 /\ Len(<<>>) = 0
            BY <6>1
          <6>3. longer # <<>>
            BY <6>2
          <6> QED
            BY <6>3 DEF longer
        <5> QED
          BY <5>1, <5>2, AddedElement
      <4>3. (x.s = 0 => x.e = 0) /\ (x.s # 0 => ToSet(x.blocks) \subseteq D)
        BY DEF Leading
      <4> HIDE DEF P
      <4>4. x.s # 0 => ToSet(Append(x.blocks, b)) \subseteq D
        BY <1>5, <4>2, <4>3
      <4> QED
        BY <4>1, <4>2, <4>3, <4>4 DEF Leading, P
    <3> QED
      BY <3>1, <3>2, <3>3
  <2>4. \A x \in P : \A c \in Time \ {0} : x.s < c /\ c < x.e => Ending(x, c) \in P /\ Starting(x, c) \in P
    <3> TAKE x \in P
    <3> TAKE c \in Time \ {0}
    <3> HAVE x.s < c /\ c < x.e
    <3>1. c \in Time /\ c \in Nat /\ c > 0 /\ x.e \in Nat /\ x.e # 0
      BY <1>1
    <3>2. x.blocks # <<>> /\ x.s # 0 /\ ToSet(x.blocks) \subseteq D
      BY <3>1 DEF Leading
    <3>3. /\ Ending(x, c) \in Record /\ Ending(x, c).s = x.s /\ Ending(x, c).blocks = x.blocks
          /\ Starting(x, c) \in Record /\ Starting(x, c).s = c /\ Starting(x, c).blocks = x.blocks
      BY <1>3, <3>1
    <3>4. c # 0
      BY <3>1
    <3> QED
      BY <3>2, <3>3, <3>4 DEF Leading
  <2>5. \A x \in P : \A e \in Time \ {0} : x.s \in Time \ {0} => Ending(x, e) \in P
    <3> TAKE x \in P
    <3> TAKE e \in Time \ {0}
    <3> HAVE x.s \in Time \ {0}
    <3>1. Ending(x, e) \in Record /\ Ending(x, e).s = x.s /\ Ending(x, e).blocks = x.blocks
      BY <1>3
    <3> QED
      BY <3>1 DEF Leading
  <2> HIDE DEF P
  <2> QED
    BY <2>1, <2>2, <2>3, <2>4, <2>5 DEF Fits
<1> QED
  BY <1>4, <1>5

\* What an update of the master index keeps and adds.
LEMMA MasterGrows ==
    ASSUME MasterTypeOK, FullSound, NEW s \in Time, NEW e \in Time, NEW b \in Nat,
           s <= e, s = 0 <=> e = 0, master' = UpdateLastDatablock(master, s, e, b)
    PROVE  /\ master' \in Seq(Record)
           /\ \A c, x \in Nat : LeadsTo(master, c, x) => LeadsTo(master', c, x)
           /\ \A x \in Nat : s <= x /\ x <= e => LeadsTo(master', b, x)
           /\ Ordered(master')
           /\ \A j \in 1 .. Len(master') : /\ master'[j].blocks # <<>>
                                           /\ master'[j].s = 0 => master'[j].e = 0
           /\ \A c \in Nat : Known(c)' => Known(c) \/ (c = b /\ s # 0)
<1> DEFINE D == {c \in Nat : Known(c) \/ (c = b /\ s # 0)}
           P == Leading(D)
<1>1. master \in Seq(Record) /\ Ordered(master) /\ Len(master) \in Nat
      /\ \A j \in 1 .. Len(master) : /\ master[j] \in Record /\ master[j].s \in Time
                                     /\ master[j].s \in Nat /\ master[j].e \in Nat
                                     /\ master[j].blocks \in Seq(Nat)
  <2>1. master \in Seq(Record) /\ Ordered(master)
    BY DEF MasterTypeOK, FullSound
  <2> QED
    BY <2>1, RecordTypes
<1>2. \A j \in 1 .. Len(master) : /\ master[j].blocks # <<>>
                                  /\ master[j].s = 0 => master[j].e = 0
  BY DEF FullSound
<1>3. ASSUME NEW j \in 1 .. Len(master), master[j].s # 0 PROVE ToSet(master[j].blocks) \subseteq D
  <2> SUFFICES ASSUME NEW c \in ToSet(master[j].blocks) PROVE c \in D
    OBVIOUS
  <2>1. c \in Nat
    BY <1>1 DEF ToSet
  <2>2. master[j].s <= master[j].s /\ master[j].s <= master[j].e
    BY <1>1 DEF Ordered
  <2>3. LeadsTo(master, c, master[j].s) /\ master[j].s \in Time \ {0}
    BY <1>1, <1>3, <2>2 DEF LeadsTo
  <2> QED
    BY <2>1, <2>3 DEF Known
<1>4. master \in Tidy(P)
  BY <1>1, <1>2, <1>3 DEF Tidy, Leading
<1> HIDE DEF D
<1>5. master' \in Tidy(P)
  <2>1. CASE s = 0
    <3>1. Fits(P, {0}, b)
      BY LeadingFits
    <3> HIDE DEF P
    <3>2. s \in {0} /\ e \in {0}
      BY <2>1
    <3> QED
      BY <1>4, <3>1, <3>2, UpdateFits
  <2>2. CASE s # 0
    <3>1. b \in D
      BY <2>2 DEF D
    <3>2. Fits(P, Time \ {0}, b)
      BY <3>1, LeadingFits
    <3> DEFINE W == Time \ {0}
    <3>3. s \in W /\ e \in W /\ Fits(P, W, b)
      BY <2>2, <3>2
    <3> HIDE DEF P, W
    <3> QED
      BY <1>4, <3>3, UpdateFits
  <2> QED
    BY <2>1, <2>2
<1>6. master' \in Seq(Record) /\ Ordered(master') /\ \A j \in 1 .. Len(master') : master'[j] \in P
  BY <1>5 DEF Tidy
<1>7. \A j \in 1 .. Len(master') : /\ master'[j].blocks # <<>>
                                   /\ master'[j].s = 0 => master'[j].e = 0
  BY <1>6 DEF Leading
<1>8. \A c \in Nat : Known(c)' => c \in D
  <2> TAKE c \in Nat
  <2> HAVE Known(c)'
  <2>1. PICK t \in Time \ {0} : LeadsTo(master', c, t)
    BY DEF Known
  <2>2. PICK j \in 1 .. Len(master') : /\ master'[j].s <= t /\ t <= master'[j].e
                                       /\ c \in ToSet(master'[j].blocks)
    BY <2>1 DEF LeadsTo
  <2>3. t \in Nat /\ t # 0 /\ master'[j].e \in Nat
    BY <1>6, <2>1, RecordTypes, TimeAssumption
  <2>4. master'[j].s # 0
    BY <1>7, <2>2, <2>3
  <2>5. ToSet(master'[j].blocks) \subseteq D
    BY <1>6, <2>4 DEF Leading
  <2> QED
    BY <2>2, <2>5
<1>9. \A c \in Nat : Known(c)' => Known(c) \/ (c = b /\ s # 0)
  BY <1>8 DEF D
<1>10. /\ \A c, x \in Nat : LeadsTo(master, c, x) => LeadsTo(master', c, x)
       /\ \A x \in Nat : s <= x /\ x <= e => LeadsTo(master', b, x)
  BY <1>1, UpdateLeads
<1> QED
  BY <1>6, <1>7, <1>9, <1>10

\* A block that an update does not enter anew is in the master already.
LEMMA NotNewKnown ==
    ASSUME MasterTypeOK, FullSound, NEW s \in Time \ {0}, NEW e \in Time \ {0}, NEW b \in Nat,
           s <= e, master' = UpdateLastDatablock(master, s, e, b), ~IsNew(master, s, e, b)
    PROVE  Known(b)
<1>1. master \in Seq(Record) /\ Ordered(master) /\ s \in Nat
  BY TimeAssumption DEF MasterTypeOK, FullSound
<1>2. CASE Stretches(master, s, e, b)
  <2> DEFINE n == Len(master)
  <2>1. master # <<>> /\ master[n].blocks = <<b>> /\ master[n].s = s
    BY <1>2 DEF Stretches
  <2>2. n \in 1 .. n /\ master[n].e \in Nat
    BY <1>1, <2>1, RecordTypes
  <2>3. s <= s /\ s <= master[n].e
    BY <1>1, <2>1, <2>2 DEF Ordered
  <2>4. b \in ToSet(<<b>>)
    BY DEF ToSet
  <2>5. LeadsTo(master, b, s)
    BY <2>1, <2>2, <2>3, <2>4 DEF LeadsTo
  <2> QED
    BY <2>5 DEF Known
<1>3. CASE master' = master
  <2>1. s <= s
    BY <1>1
  <2>2. LeadsTo(master', b, s)
    BY <1>1, <2>1, UpdateLeads
  <2> QED
    BY <1>3, <2>2 DEF Known
<1> QED
  BY <1>2, <1>3 DEF IsNew

\* What makes a sub-archive covered after a step.
LEMMA CoveredNext ==
    ASSUME NEW q \in Sub, master' \in Seq(Record), seen'[q] \in Seq(Record),
           \A i \in 1 .. Len(seen'[q]) : \A t \in (seen'[q][i].s .. seen'[q][i].e) \ {0} :
              LeadsTo(master', IF shallow' THEN q ELSE Head(seen'[q][i].blocks), t)
    PROVE  Covered(q)'
<1>1. DOMAIN seen'[q] = 1 .. Len(seen'[q])
  OBVIOUS
<1>2. \A b, t : (\E j \in Holding(master', t) : b \in ToSet(master'[j].blocks)) <=> LeadsTo(master', b, t)
  BY ReachesIs
<1>3. \A i \in DOMAIN seen'[q] : \A t \in (seen'[q][i].s .. seen'[q][i].e) \ {0} :
         \E j \in Holding(master', t) :
            (IF shallow' THEN q ELSE Head(seen'[q][i].blocks)) \in ToSet(master'[j].blocks)
  BY <1>1, <1>2
<1> QED
  BY <1>3 DEF Covered, Holding

\* A sub-archive stays covered when the master leads to more.
LEMMA CoveredStill ==
    ASSUME MasterTypeOK, ToolSound, NEW q \in Sub, Covered(q), master' \in Seq(Record),
           seen'[q] = seen[q], shallow' = shallow,
           \A c, x \in Nat : LeadsTo(master, c, x) => LeadsTo(master', c, x)
    PROVE  Covered(q)'
<1>1. seen[q] \in Seq(Record) /\ IndexOf(q, seen[q], StampsOf(q), blocks[q]) /\ blocks[q] \in Nat
  <2>1. seen[q] \in Seq(Record) /\ blocks[q] \in 0 .. MaxBlocks
    BY DEF MasterTypeOK
  <2> QED
    BY <2>1, SubNumbers DEF ToolSound
<1>2. ASSUME NEW i \in 1 .. Len(seen[q]), NEW t \in (seen[q][i].s .. seen[q][i].e) \ {0}
      PROVE  LeadsTo(master', IF shallow THEN q ELSE Head(seen[q][i].blocks), t)
  <2>1. LeadsTo(master, IF shallow THEN q ELSE Head(seen[q][i].blocks), t)
    BY CoveredIs
  <2>2. t \in Nat /\ q \in Nat
    <3>1. seen[q][i].s \in Nat /\ seen[q][i].e \in Nat
      BY <1>1, RecordTypes
    <3>2. t \in Nat
      BY <3>1
    <3>3. q \in Nat
      BY SubNumbers
    <3> QED
      BY <3>2, <3>3
  <2>3. Head(seen[q][i].blocks) \in Nat
    BY <1>1, BlockOf
  <2> QED
    BY <2>1, <2>2, <2>3
<1> QED
  BY <1>1, <1>2, CoveredNext

LEMMA TransferKeepsMaster ==
    ASSUME MasterInv, Transfer
    PROVE  MasterInv'
<1> DEFINE s == tool.sub
           src == tool.src
           k == tool.k
           x == src[k]
           b == Head(x.blocks)
           more == IsNew(master, x.s, x.e, b) /\ k > 1
<1>1. /\ tool.pc = "block" /\ UNCHANGED <<samples, added, tree, blocks, shallow, torn>>
      /\ tool \in [pc : {"idle", "sub", "block", "range"}, sub : Nat,
                   src : Seq(Record), k : Nat, runs : Nat]
      /\ seen \in [Sub -> Seq(Record)] /\ master \in Seq(Record)
      /\ s \in Sub /\ src \in Seq(Record) /\ ~shallow /\ k \in 1 .. Len(src)
      /\ IndexOf(s, src, StampsOf(s), blocks[s])
      /\ Earlier(src, tree[s]) /\ Earlier(seen[s], src)
      /\ \A q \in Sub : /\ IndexOf(q, seen[q], StampsOf(q), blocks[q])
                        /\ Earlier(seen[q], tree[q])
      /\ MasterTypeOK /\ ToolSound /\ FullSound /\ MasterCovers /\ SubSound(s)
  BY DEF Transfer, MasterInv, MasterTypeOK, ToolSound
<1>2. blocks[s] \in Nat /\ StampsOf(s) \in SUBSET (Time \ {0}) /\ blocks[s] <= MaxBlocks
      /\ MaxBlocks \in Nat
  <2>1. blocks[s] \in 0 .. MaxBlocks
    BY <1>1 DEF MasterTypeOK
  <2> QED
    BY <1>1, <2>1, SubFacts, SubNumbers
<1>3. /\ Len(src) \in Nat /\ k \in Nat /\ k \in 1 .. Len(src)
      /\ \A n \in 1 .. Len(src) :
            /\ src[n] \in Record /\ src[n].s \in Time /\ src[n].e \in Time
            /\ src[n].s \in Nat /\ src[n].e \in Nat /\ src[n].s <= src[n].e
            /\ src[n].blocks = <<Head(src[n].blocks)>> /\ Head(src[n].blocks) \in Nat
            /\ \A m \in 1 .. Len(src) :
                  n < m => /\ src[n].e <= src[m].s
                           /\ ~Null(src[n]) => Head(src[n].blocks) < Head(src[m].blocks)
  <2>1. Len(src) \in Nat /\ k \in Nat /\ k \in 1 .. Len(src)
    BY <1>1, RecordTypes
  <2> DEFINE X == StampsOf(s)
             count == blocks[s]
  <2>2. /\ s \in Sub /\ src \in Seq(Record) /\ X \in SUBSET (Time \ {0}) /\ count \in Nat
        /\ IndexOf(s, src, X, count)
    BY <1>1, <1>2
  <2> HIDE DEF s, src, k, X, count
  <2>3. \A n \in 1 .. Len(src) :
            /\ src[n] \in Record /\ src[n].s \in Time /\ src[n].e \in Time
            /\ src[n].s \in Nat /\ src[n].e \in Nat /\ src[n].s <= src[n].e
            /\ src[n].blocks = <<Head(src[n].blocks)>> /\ Head(src[n].blocks) \in Nat
            /\ \A m \in 1 .. Len(src) :
                  n < m => /\ src[n].e <= src[m].s
                           /\ ~Null(src[n]) => Head(src[n].blocks) < Head(src[m].blocks)
    BY <2>2, IndexFacts
  <2> QED
    BY <2>1, <2>3
<1>4. \A n \in 1 .. Len(src) : (src[n].s = 0 <=> src[n].e = 0) /\ (Null(src[n]) <=> src[n].e = 0)
  <2> DEFINE X == StampsOf(s)
             count == blocks[s]
  <2>1. /\ s \in Sub /\ src \in Seq(Record) /\ X \in SUBSET (Time \ {0}) /\ count \in Nat
        /\ IndexOf(s, src, X, count)
    BY <1>1, <1>2
  <2> HIDE DEF s, src, k, X, count
  <2> TAKE n \in 1 .. Len(src)
  <2>2. src[n].s = 0 <=> src[n].e = 0
    BY <2>1, IndexFacts
  <2>3. Null(src[n]) <=> src[n].e = 0
    BY <2>1, IndexFacts
  <2> QED
    BY <2>2, <2>3
<1>5. PICK c \in 1 .. blocks[s] : c \in Nat /\ b = BlockId(s, c)
  <2> DEFINE X == StampsOf(s)
             count == blocks[s]
  <2>1. s \in Sub /\ count \in Nat /\ IndexOf(s, src, X, count) /\ k \in 1 .. Len(src)
    BY <1>1, <1>2
  <2> HIDE DEF s, src, k, X, count
  <2>2. PICK c \in 1 .. count : c \in Nat /\ Head(src[k].blocks) = BlockId(s, c)
    BY <2>1, BlockOf
  <2>3. b = Head(src[k].blocks) /\ count = blocks[s]
    BY DEF count
  <2> QED
    BY <2>2, <2>3
<1>6. c \in 1 .. MaxBlocks
  BY <1>2, <1>5
<1>7. \A q \in Sub : \A n \in 1 .. MaxBlocks : BlockId(q, n) \in Nat /\ (BlockId(q, n) = b => q = s)
  <2>1. \A n \in 1 .. MaxBlocks : n \in Nat
    OBVIOUS
  <2> HIDE DEF s, b
  <2> QED
    BY <1>1, <1>5, <2>1, SubNumbers
<1>8. /\ master' = UpdateLastDatablock(master, x.s, x.e, b)
      /\ tool' = IF more THEN [tool EXCEPT !.k = @ - 1] ELSE NextSub(s)
      /\ seen' = IF more THEN seen ELSE [seen EXCEPT ![s] = src]
  BY DEF Transfer, NextBlock
<1>9. /\ x.s \in Time /\ x.e \in Time /\ x.s \in Nat /\ x.e \in Nat /\ x.s <= x.e /\ (x.s = 0 <=> x.e = 0)
      /\ b \in Nat /\ x.blocks = <<b>> /\ (Null(x) <=> x.s = 0)
  <2> HIDE DEF src, k
  <2>1. x.s = 0 <=> x.e = 0
    BY <1>3, <1>4
  <2>2. Null(x) <=> x.s = 0
    BY <1>3, <1>4, <2>1
  <2> QED
    BY <1>3, <2>1, <2>2
<1> HIDE DEF s, src, k, x, b, more
<1>10. /\ master' \in Seq(Record)
       /\ \A a, y \in Nat : LeadsTo(master, a, y) => LeadsTo(master', a, y)
       /\ \A y \in Nat : x.s <= y /\ y <= x.e => LeadsTo(master', b, y)
       /\ Ordered(master')
       /\ \A j \in 1 .. Len(master') : /\ master'[j].blocks # <<>>
                                       /\ master'[j].s = 0 => master'[j].e = 0
       /\ \A a \in Nat : Known(a)' => Known(a) \/ (a = b /\ x.s # 0)
  BY <1>1, <1>8, <1>9, MasterGrows
<1>11. ASSUME NEW q \in Sub \ torn, NEW n \in 1 .. MaxBlocks, Known(BlockId(q, n))
       PROVE  \/ \E y \in Filled(seen[q]) : y.blocks = <<BlockId(q, n)>>
              \/ /\ q = s
                 /\ \E m \in 1 .. Len(src) :
                       k < m /\ ~Null(src[m]) /\ src[m].blocks = <<BlockId(q, n)>>
  BY <1>1, <1>11 DEF FullSound, s, src, k
<1>12. \A n \in 1 .. Len(src) : k <= n =>
          \A y \in src[n].s .. src[n].e : LeadsTo(master', Head(src[n].blocks), y)
  <2> TAKE n \in 1 .. Len(src)
  <2> HAVE k <= n
  <2> TAKE y \in src[n].s .. src[n].e
  <2>1. y \in Nat /\ src[n].s <= y /\ y <= src[n].e /\ Head(src[n].blocks) \in Nat
    BY <1>3
  <2>2. CASE n = k
    BY <1>10, <2>1, <2>2 DEF x, b
  <2>3. CASE k < n
    <3>1. LeadsTo(master, Head(src[n].blocks), y)
      BY <1>1, <2>3 DEF FullSound, src, k
    <3> QED
      BY <1>10, <2>1, <3>1
  <2> QED
    BY <1>3, <2>2, <2>3
<1>13. x \in Filled(src) \/ x.s = 0
  BY <1>3, <1>9, FilledIs DEF x
<1>14. ASSUME ~more, NEW q \in Sub \ torn, q = s PROVE Covered(q)'
  <2>1. seen'[s] = src
    BY <1>1, <1>8, <1>14
  <2>2. ASSUME NEW i \in 1 .. Len(src), NEW y \in (src[i].s .. src[i].e) \ {0}
        PROVE  LeadsTo(master', Head(src[i].blocks), y)
    <3>1. y \in Nat /\ y # 0 /\ src[i].s <= y /\ y <= src[i].e /\ Head(src[i].blocks) \in Nat
      BY <1>3
    <3>2. CASE k <= i
      BY <1>12, <3>2
    <3>3. CASE i < k
      <4>1. src[i].e # 0 /\ ~Null(src[i]) /\ src[i].e <= x.s /\ Head(src[i].blocks) < b
        <5>1. src[i].e # 0
          BY <1>3, <3>1
        <5>2. ~Null(src[i])
          BY <1>4, <5>1
        <5> QED
          BY <1>3, <3>3, <5>1, <5>2 DEF x, b
      <4>2. x.s \in Time \ {0} /\ x.e \in Time \ {0}
        <5>1. x.s # 0
          BY <1>3, <1>9, <4>1
        <5> QED
          BY <1>9, <5>1
      <4>3. ~IsNew(master, x.s, x.e, b)
        <5>1. k > 1
          BY <1>3, <3>3
        <5> QED
          BY <1>14, <5>1 DEF more
      <4>4. Known(b)
        BY <1>1, <1>8, <1>9, <4>2, <4>3, NotNewKnown
      <4>5. PICK x0 \in Filled(seen[s]) : x0.blocks = <<b>>
        <5>1. ASSUME NEW m \in 1 .. Len(src), k < m, src[m].blocks = <<b>> PROVE FALSE
          <6>1. Head(src[m].blocks) = b
            BY <5>1
          <6>2. ~Null(src[k])
            BY <1>9, <4>2 DEF x
          <6>3. Head(src[k].blocks) < Head(src[m].blocks)
            BY <1>3, <5>1, <6>2
          <6> QED
            BY <1>9, <6>1, <6>3 DEF b, x
        <5>2. s \in Sub \ torn /\ Known(BlockId(s, c))
          BY <1>1, <1>5, <1>14, <4>4
        <5> QED
          BY <1>5, <1>6, <1>11, <5>1, <5>2
      <4>6. src[i] \in Filled(src)
        BY <4>1, FilledIs
      <4>7. Head(src[i].blocks) < Head(x0.blocks)
        <5>1. Head(x0.blocks) = b
          BY <4>5
        <5> QED
          BY <4>1, <5>1
      <4>8. src[i] \in Filled(seen[s])
        BY <1>1, <4>5, <4>6, <4>7 DEF Earlier
      <4>9. PICK n \in 1 .. Len(seen[s]) : src[i] = seen[s][n]
        BY <4>8, FilledIs
      <4>10. Covered(s)
        BY <1>1, <1>14 DEF MasterCovers
      <4>11. LeadsTo(master, Head(src[i].blocks), y)
        <5>1. y \in (seen[s][n].s .. seen[s][n].e) \ {0}
          BY <4>9
        <5>2. LeadsTo(master, Head(seen[s][n].blocks), y)
          BY <1>1, <4>10, <5>1, CoveredIs
        <5> QED
          BY <4>9, <5>2
      <4> QED
        BY <1>10, <3>1, <4>11
    <3> QED
      BY <1>3, <3>2, <3>3
  <2>3. ~shallow' /\ s \in Sub /\ src \in Seq(Record)
    BY <1>1
  <2>4. seen'[q] \in Seq(Record) /\ \A i \in 1 .. Len(seen'[q]) :
           \A y \in (seen'[q][i].s .. seen'[q][i].e) \ {0} :
              LeadsTo(master', IF shallow' THEN q ELSE Head(seen'[q][i].blocks), y)
    BY <1>14, <2>1, <2>2, <2>3
  <2> QED
    BY <1>10, <2>4, CoveredNext
<1>15. MasterCovers'
  <2>1. ASSUME NEW q \in Sub \ torn PROVE Covered(q)'
    <3>1. CASE more \/ q # s
      <4>1. seen'[q] = seen[q] /\ shallow' = shallow
        BY <1>1, <1>8, <3>1
      <4>2. Covered(q)
        BY <1>1 DEF MasterCovers
      <4> QED
        BY <1>1, <1>10, <4>1, <4>2, CoveredStill
    <3>2. CASE ~more /\ q = s
      BY <1>14, <3>2
    <3> QED
      BY <3>1, <3>2
  <2> QED
    BY <1>1, <2>1 DEF MasterCovers
<1>16. \A q \in Sub : SubSound(q)'
  BY <1>1, ToolLeavesSubs
<1>17. CASE more
  <2>1. k - 1 \in Nat /\ k - 1 \in 1 .. Len(src)
    BY <1>3, <1>17 DEF more
  <2>2. /\ tool' \in [pc : {"idle", "sub", "block", "range"}, sub : Nat,
                      src : Seq(Record), k : Nat, runs : Nat]
        /\ tool'.pc = "block" /\ tool'.sub = s /\ tool'.src = src /\ tool'.k = k - 1
        /\ seen' = seen
    BY <1>1, <1>8, <1>17, <2>1 DEF s, src, k
  <2>3. MasterTypeOK'
    BY <1>1, <1>10, <2>2 DEF MasterTypeOK
  <2>4. ToolSound'
    BY <1>1, <2>1, <2>2 DEF ToolSound, StampsOf
  <2>5. FullSound'
    <3>1. ASSUME NEW q \in Sub \ torn, NEW n \in 1 .. MaxBlocks, Known(BlockId(q, n))'
          PROVE  \/ \E y \in Filled(seen[q]) : y.blocks = <<BlockId(q, n)>>
                 \/ /\ q = s
                    /\ \E m \in 1 .. Len(src) :
                          k - 1 < m /\ ~Null(src[m]) /\ src[m].blocks = <<BlockId(q, n)>>
      <4>1. CASE Known(BlockId(q, n))
        <5>1. \A m \in 1 .. Len(src) : k < m => k - 1 < m
          BY <1>3
        <5> QED
          BY <1>11, <4>1, <5>1
      <4>2. CASE BlockId(q, n) = b /\ x.s # 0
        <5>1. q = s
          BY <1>7, <4>2
        <5>2. k - 1 < k /\ ~Null(src[k]) /\ src[k].blocks = <<BlockId(q, n)>> /\ k \in 1 .. Len(src)
          BY <1>3, <1>9, <4>2 DEF x
        <5> QED
          BY <5>1, <5>2
      <4>3. BlockId(q, n) \in Nat
        BY <1>7
      <4> QED
        BY <1>10, <3>1, <4>1, <4>2, <4>3
    <3>2. \A n \in 1 .. Len(src) : k - 1 < n =>
             \A y \in src[n].s .. src[n].e : LeadsTo(master', Head(src[n].blocks), y)
      <4>1. \A n \in 1 .. Len(src) : k - 1 < n => k <= n
        BY <1>3
      <4> QED
        BY <1>12, <4>1
    <3>3. torn' = torn /\ ~shallow'
      BY <1>1
    <3>4. \A q \in Sub \ torn' : \A n \in 1 .. MaxBlocks :
             Known(BlockId(q, n))' =>
                \/ \E y \in Filled(seen'[q]) : y.blocks = <<BlockId(q, n)>>
                \/ /\ tool'.pc = "block" /\ tool'.sub = q
                   /\ \E m \in 1 .. Len(tool'.src) :
                         /\ tool'.k < m /\ ~Null(tool'.src[m])
                         /\ tool'.src[m].blocks = <<BlockId(q, n)>>
      BY <2>2, <3>1, <3>3
    <3>5. \A n \in 1 .. Len(tool'.src) : tool'.k < n =>
             \A y \in tool'.src[n].s .. tool'.src[n].e : LeadsTo(master', Head(tool'.src[n].blocks), y)
      BY <2>2, <3>2
    <3> QED
      BY <1>10, <3>4, <3>5 DEF FullSound
  <2> QED
    BY <1>15, <1>16, <2>3, <2>4, <2>5 DEF MasterInv
<1>18. CASE ~more
  <2>1. /\ tool' \in [pc : {"idle", "sub", "block", "range"}, sub : Nat,
                      src : Seq(Record), k : Nat, runs : Nat]
        /\ tool'.pc \in {"idle", "sub"} /\ (tool'.pc = "sub" => tool'.sub \in Sub)
    BY <1>1, <1>8, <1>18, NextSubIs DEF s
  <2>2. seen' \in [Sub -> Seq(Record)] /\ seen'[s] = src /\ \A q \in Sub : q # s => seen'[q] = seen[q]
    BY <1>1, <1>8, <1>18
  <2>3. MasterTypeOK'
    BY <1>1, <1>10, <2>1, <2>2 DEF MasterTypeOK
  <2>4. ToolSound'
    <3>1. \A q \in Sub : /\ IndexOf(q, seen'[q], ToSet(samples'[q]), blocks'[q])
                         /\ Earlier(seen'[q], tree'[q])
      <4> TAKE q \in Sub
      <4>1. CASE q = s
        BY <1>1, <2>2, <4>1 DEF StampsOf
      <4>2. CASE q # s
        BY <1>1, <2>2, <4>2 DEF StampsOf
      <4> QED
        BY <4>1, <4>2
    <3> QED
      BY <2>1, <3>1 DEF ToolSound, StampsOf
  <2>5. FullSound'
    <3>1. ASSUME NEW q \in Sub \ torn, NEW n \in 1 .. MaxBlocks, Known(BlockId(q, n))'
          PROVE  \E y \in Filled(seen'[q]) : y.blocks = <<BlockId(q, n)>>
      <4>1. CASE Known(BlockId(q, n))
        <5>1. CASE \E y \in Filled(seen[q]) : y.blocks = <<BlockId(q, n)>>
          <6>1. PICK y \in Filled(seen[q]) : y.blocks = <<BlockId(q, n)>>
            BY <5>1
          <6>2. CASE q = s
            <7>1. \E z \in Filled(src) : z.blocks = y.blocks
              BY <1>1, <6>1, <6>2 DEF Earlier
            <7> QED
              BY <2>2, <6>1, <6>2, <7>1
          <6>3. CASE q # s
            BY <2>2, <6>1, <6>3
          <6> QED
            BY <6>2, <6>3
        <5>2. CASE /\ q = s
                   /\ \E m \in 1 .. Len(src) :
                         k < m /\ ~Null(src[m]) /\ src[m].blocks = <<BlockId(q, n)>>
          <6>1. PICK m \in 1 .. Len(src) : ~Null(src[m]) /\ src[m].blocks = <<BlockId(q, n)>>
            BY <5>2
          <6>2. src[m] \in Filled(src)
            BY <6>1, FilledIs
          <6> QED
            BY <2>2, <5>2, <6>1, <6>2
        <5> QED
          BY <1>11, <4>1, <5>1, <5>2
      <4>2. CASE BlockId(q, n) = b /\ x.s # 0
        <5>1. q = s /\ x \in Filled(src) /\ x.blocks = <<BlockId(q, n)>>
          BY <1>7, <1>9, <1>13, <4>2
        <5> QED
          BY <2>2, <5>1
      <4>3. BlockId(q, n) \in Nat
        BY <1>7
      <4> QED
        BY <1>10, <3>1, <4>1, <4>2, <4>3
    <3>2. torn' = torn /\ tool'.pc # "block"
      BY <1>1, <2>1
    <3> QED
      BY <1>10, <3>1, <3>2 DEF FullSound
  <2> QED
    BY <1>15, <1>16, <2>3, <2>4, <2>5 DEF MasterInv
<1> QED
  BY <1>17, <1>18

\* What the range of a sub-archive is: from the start of its first record to the end of
\* its last one, or the null range.
LEMMA RangeIs ==
    ASSUME MasterInv, tool.pc = "range"
    PROVE  LET src   == tool.src
               range == RangeOf(src)
           IN  /\ tool.sub \in Sub /\ tool.sub \in Nat /\ src \in Seq(Record) /\ shallow
               /\ range.s \in Time /\ range.e \in Time /\ range.s \in Nat /\ range.e \in Nat
               /\ range.s <= range.e /\ (range.s = 0 <=> range.e = 0)
               /\ \A i \in 1 .. Len(src) :
                     /\ src[i].s \in Nat /\ src[i].e \in Nat
                     /\ range.s <= src[i].s /\ src[i].e <= range.e
               /\ src # <<>> => /\ range.s \in StampsOf(tool.sub) /\ range.e \in StampsOf(tool.sub)
                                /\ 0 \notin StampsOf(tool.sub)
               /\ src = <<>> => range.s = 0
<1> DEFINE src == tool.src
           s == tool.sub
           n == Len(src)
           X == StampsOf(s)
           count == blocks[s]
<1>1. /\ s \in Sub /\ src \in Seq(Record) /\ shallow /\ IndexOf(s, src, X, count)
      /\ \A i \in 1 .. n : ~Null(src[i])
      /\ X \in SUBSET (Time \ {0}) /\ count \in Nat
  <2>1. /\ s \in Sub /\ src \in Seq(Record) /\ shallow /\ IndexOf(s, src, X, count)
        /\ \A i \in 1 .. n : ~Null(src[i])
        /\ MasterTypeOK /\ SubSound(s)
    BY DEF MasterInv, MasterTypeOK, ToolSound
  <2>2. X \in SUBSET (Time \ {0}) /\ count \in Nat
    BY <2>1, SubFacts
  <2> QED
    BY <2>1, <2>2
<1>2. s \in Nat
  BY <1>1, SubNumbers
<1>3. CASE src = <<>>
  <2>1. RangeOf(src).s = 0 /\ RangeOf(src).e = 0
    BY <1>3 DEF RangeOf
  <2>2. 0 \in Time /\ n = 0
    BY <1>3, TimeAssumption
  <2> QED
    BY <1>1, <1>2, <1>3, <2>1, <2>2
<1>4. CASE src # <<>>
  <2>1. RangeOf(src).s = src[1].s /\ RangeOf(src).e = src[n].e
    BY <1>4 DEF RangeOf, Last
  <2> HIDE DEF src, s, X, count
  <2>2. n \in Nat /\ 1 \in 1 .. n /\ n \in 1 .. n
    BY <1>1, <1>4, RecordTypes
  <2>3. \A i \in 1 .. n :
           /\ src[i].s \in Time /\ src[i].e \in Time
           /\ src[i].s \in Nat /\ src[i].e \in Nat /\ src[i].s <= src[i].e
           /\ \A j \in 1 .. n : i < j => src[i].e <= src[j].s
    BY <1>1, IndexFacts
  <2>4. src[1].s \in X /\ src[n].e \in X
    BY <1>1, <2>2, IndexFacts
  <2>5. 0 \notin X
    BY <1>1
  <2>6. \A i \in 1 .. n : src[1].s <= src[i].s /\ src[i].e <= src[n].e
    <3> TAKE i \in 1 .. n
    <3>1. i = 1 \/ 1 < i
      BY <2>2
    <3>2. i = n \/ i < n
      BY <2>2
    <3>3. src[1].s <= src[i].s
      BY <2>2, <2>3, <3>1
    <3>4. src[i].e <= src[n].e
      BY <2>2, <2>3, <3>2
    <3> QED
      BY <3>3, <3>4
  <2>7. src[1].s <= src[n].e
    BY <2>2, <2>3, <2>6
  <2>8. src[1].s # 0 /\ src[n].e # 0
    BY <2>4, <2>5
  <2> QED
    BY <1>1, <1>2, <1>4, <2>1, <2>2, <2>3, <2>4, <2>5, <2>6, <2>7, <2>8 DEF src, s, X
<1> QED
  BY <1>3, <1>4

LEMMA RangeKeepsMaster ==
    ASSUME MasterInv, TransferRange
    PROVE  /\ MasterInv'
           /\ \A c, x \in Nat : LeadsTo(master, c, x) => LeadsTo(master', c, x)
<1> DEFINE s == tool.sub
           src == tool.src
           range == RangeOf(src)
<1>1. /\ tool.pc = "range" /\ UNCHANGED <<samples, added, tree, blocks, shallow, torn>>
      /\ master' = UpdateLastDatablock(master, range.s, range.e, s)
      /\ tool' = NextSub(s) /\ seen' = [seen EXCEPT ![s] = src]
  BY DEF TransferRange
<1>2. /\ s \in Sub /\ s \in Nat /\ src \in Seq(Record) /\ shallow
      /\ range.s \in Time /\ range.e \in Time /\ range.s \in Nat /\ range.e \in Nat
      /\ range.s <= range.e /\ (range.s = 0 <=> range.e = 0)
      /\ \A i \in 1 .. Len(src) : /\ src[i].s \in Nat /\ src[i].e \in Nat
                                  /\ range.s <= src[i].s /\ src[i].e <= range.e
  BY <1>1, RangeIs
<1>3. /\ seen \in [Sub -> Seq(Record)] /\ master \in Seq(Record)
      /\ IndexOf(s, src, StampsOf(s), blocks[s]) /\ Earlier(src, tree[s])
      /\ MasterTypeOK /\ ToolSound /\ FullSound /\ MasterCovers
      /\ \A q \in Sub : IndexOf(q, seen[q], StampsOf(q), blocks[q]) /\ Earlier(seen[q], tree[q])
  BY <1>1 DEF MasterInv, MasterTypeOK, ToolSound
<1> HIDE DEF range
<1>4. /\ master' \in Seq(Record)
      /\ \A c, x \in Nat : LeadsTo(master, c, x) => LeadsTo(master', c, x)
      /\ \A x \in Nat : range.s <= x /\ x <= range.e => LeadsTo(master', s, x)
      /\ Ordered(master')
      /\ \A j \in 1 .. Len(master') : /\ master'[j].blocks # <<>>
                                      /\ master'[j].s = 0 => master'[j].e = 0
  BY <1>1, <1>2, <1>3, MasterGrows
<1>5. /\ tool' \in [pc : {"idle", "sub", "block", "range"}, sub : Nat,
                    src : Seq(Record), k : Nat, runs : Nat]
      /\ tool'.pc \in {"idle", "sub"} /\ (tool'.pc = "sub" => tool'.sub \in Sub)
      /\ seen' \in [Sub -> Seq(Record)] /\ seen'[s] = src
      /\ \A q \in Sub : q # s => seen'[q] = seen[q]
  BY <1>1, <1>2, <1>3, NextSubIs
<1> HIDE DEF s, src
<1>6. MasterTypeOK'
  BY <1>1, <1>3, <1>4, <1>5 DEF MasterTypeOK
<1>7. \A q \in Sub : SubSound(q)'
  BY <1>1, ToolLeavesSubs
<1>8. ToolSound'
  <2>1. \A q \in Sub : /\ IndexOf(q, seen'[q], ToSet(samples'[q]), blocks'[q])
                       /\ Earlier(seen'[q], tree'[q])
    <3> TAKE q \in Sub
    <3>1. CASE q = s
      BY <1>1, <1>3, <1>5, <3>1 DEF StampsOf
    <3>2. CASE q # s
      BY <1>1, <1>3, <1>5, <3>2 DEF StampsOf
    <3> QED
      BY <3>1, <3>2
  <2> QED
    BY <1>5, <2>1 DEF ToolSound, StampsOf
<1>9. FullSound'
  BY <1>1, <1>2, <1>4 DEF FullSound
<1>10. MasterCovers'
  <2>1. ASSUME NEW q \in Sub, Covered(q), q # s PROVE Covered(q)'
    BY <1>1, <1>3, <1>4, <1>5, <2>1, CoveredStill
  <2>2. ASSUME NEW q \in Sub, q = s PROVE Covered(q)'
    <3>1. ASSUME NEW i \in 1 .. Len(src), NEW t \in (src[i].s .. src[i].e) \ {0}
          PROVE  LeadsTo(master', q, t)
      <4>1. t \in Nat /\ range.s <= t /\ t <= range.e
        BY <1>2
      <4> QED
        BY <1>4, <2>2, <4>1
    <3>2. shallow' /\ seen'[q] = src
      BY <1>1, <1>2, <1>5, <2>2
    <3>3. \A i \in 1 .. Len(seen'[q]) : \A t \in (seen'[q][i].s .. seen'[q][i].e) \ {0} :
             LeadsTo(master', IF shallow' THEN q ELSE Head(seen'[q][i].blocks), t)
      BY <3>1, <3>2
    <3> QED
      BY <1>2, <1>4, <3>2, <3>3, CoveredNext
  <2> QED
    BY <1>1, <1>3, <2>1, <2>2 DEF MasterCovers
<1> QED
  BY <1>4, <1>6, <1>7, <1>8, <1>9, <1>10 DEF MasterInv

LEMMA MasterKeeps ==
    ASSUME MasterInv, [MasterNext]_masterVars
    PROVE  MasterInv'
<1>1. CASE UNCHANGED masterVars
  <2>1. UNCHANGED <<samples, added, tree, blocks, shallow, master, tool, seen, torn>>
    BY <1>1 DEF masterVars
  <2>2. MasterTypeOK'
    BY <2>1 DEF MasterInv, MasterTypeOK
  <2>3. ToolSound'
    BY <2>1 DEF MasterInv, ToolSound, StampsOf
  <2>4. FullSound'
    BY <2>1, FullSoundStays DEF MasterInv
  <2>5. MasterCovers'
    BY <2>1, SameCovered DEF MasterInv, MasterCovers
  <2> QED
    BY <2>1, <2>2, <2>3, <2>4, <2>5, ToolLeavesSubs DEF MasterInv
<1>2. ASSUME NEW s \in Sub, AddChannel(s) PROVE MasterInv'
  BY <1>2, AddChannelKeepsMaster
<1>3. ASSUME NEW s \in Sub, NEW t \in Time, AddSample(s, t) PROVE MasterInv'
  <2>1. EngineOf(s)
    BY <1>3, AddGrows DEF MasterInv
  <2> QED
    BY <2>1, EngineKeepsMaster
<1>4. ASSUME NEW s \in Sub, AddNothing(s) PROVE MasterInv'
  <2>1. EngineOf(s)
    BY <1>4, NothingAdds DEF MasterInv
  <2> QED
    BY <2>1, EngineKeepsMaster
<1>5. CASE MasterNext
  BY <1>2, <1>3, <1>4, <1>5, StartKeepsMaster, ReadKeepsMaster, TransferKeepsMaster,
     RangeKeepsMaster, InterruptKeepsMaster DEF MasterNext
<1> QED
  BY <1>1, <1>5

LEMMA ReadNextOfMaster ==
    ASSUME [ReadNext]_vars
    PROVE  [MasterNext]_masterVars
<1>1. CASE UNCHANGED vars
  BY <1>1 DEF vars
<1>2. CASE ReadNext
  BY <1>2 DEF ReadNext, Find, NextInBlock, NextBeyondLast, NextOfInvalid, NextBlockOfTop
<1> QED
  BY <1>1, <1>2

\* MasterIndex::create beside the engines: a block that is in a full index was entered
\* after all later ones of its tree, in an update that went on to the first, to a known
\* one, or that still goes on; with or without a reader.
THEOREM MasterSoundly == Spec => []MasterInv
<1>1. Init => MasterInv
  BY MasterInitHolds DEF Init
<1>2. MasterInv /\ [ReadNext]_vars => MasterInv'
  BY MasterKeeps, ReadNextOfMaster
<1> QED
  BY <1>1, <1>2, PTL DEF Spec

\* MasterIndex::addChannelInfo and ShallowIndex::addChannelInfo: what the tool has been
\* through, the master index leads to.
THEOREM MasterLeads == Spec => []MasterCovers
<1>1. MasterInv => MasterCovers
  BY DEF MasterInv
<1> QED
  BY <1>1, MasterSoundly, PTL

-----------------------------------------------------------------------------
(* The reader of a shallow index.                                         *)

\* The samples of a sub-archive are in order.
LEMMA SampleOrder ==
    ASSUME MasterInv, NEW s \in Sub
    PROVE  /\ s \in Nat /\ samples[s] \in Seq(Time) /\ Len(samples[s]) \in Nat
           /\ DOMAIN samples[s] = 1 .. Len(samples[s])
           /\ StampsOf(s) = {samples[s][i] : i \in 1 .. Len(samples[s])}
           /\ \A i \in 1 .. Len(samples[s]) :
                 /\ samples[s][i] \in Nat /\ samples[s][i] \in Time
                 /\ samples[s][i] \in Stamps[s] /\ samples[s][i] \in StampsOf(s)
           /\ \A i, j \in 1 .. Len(samples[s]) : samples[s][i] < samples[s][j] <=> i < j
           /\ samples[s] # <<>> => /\ 1 \in 1 .. Len(samples[s])
                                   /\ Len(samples[s]) \in 1 .. Len(samples[s])
                                   /\ Last(samples[s]) = samples[s][Len(samples[s])]
           /\ \A i \in 1 .. Len(samples[s]) :
                 samples[s] # <<>> /\ samples[s][1] <= samples[s][i] /\ samples[s][i] <= Last(samples[s])
<1> DEFINE p == samples[s]
<1>1. p \in Seq(Time) /\ SubSound(s)
  BY DEF MasterInv, MasterTypeOK
<1>2. Len(p) \in Nat /\ DOMAIN p = 1 .. Len(p) /\ s \in Nat /\ (p = <<>> => Len(p) = 0)
  <2>1. s \in Nat
    BY SubNumbers
  <2> QED
    BY <1>1, <2>1
<1>3. \A i \in 1 .. Len(p) : p[i] \in Time
  BY <1>1
<1>4. \A i \in 1 .. Len(p) : p[i] \in Nat /\ p[i] \in Stamps[s]
  BY <1>1, <1>2, <1>3, TimeAssumption DEF SubSound
<1>5. \A i, j \in 1 .. Len(p) : i < j => p[i] < p[j]
  BY <1>1, <1>2 DEF SubSound
<1>6. StampsOf(s) = {p[i] : i \in 1 .. Len(p)}
  BY <1>2 DEF StampsOf, ToSet
<1>7. p # <<>> => 1 \in 1 .. Len(p) /\ Len(p) \in 1 .. Len(p) /\ Last(p) = p[Len(p)]
  <2>1. p # <<>> => Len(p) # 0
    BY <1>1
  <2> QED
    BY <1>2, <2>1 DEF Last
<1> HIDE DEF p
<1>8. \A i, j \in 1 .. Len(p) : p[i] < p[j] <=> i < j
  BY <1>2, <1>4, <1>5
<1>9. \A i \in 1 .. Len(p) : p # <<>> /\ p[1] <= p[i] /\ p[i] <= Last(p)
  <2> TAKE i \in 1 .. Len(p)
  <2>1. p # <<>>
    BY <1>2
  <2>2. \A n \in Nat : \A j \in 1 .. n : (j = 1 \/ 1 < j) /\ (j = n \/ j < n)
    OBVIOUS
  <2>3. (i = 1 \/ 1 < i) /\ (i = Len(p) \/ i < Len(p))
    BY <1>2, <2>2
  <2> QED
    BY <1>4, <1>5, <1>7, <2>1, <2>2, <2>3
<1> QED
  BY <1>1, <1>2, <1>3, <1>4, <1>6, <1>7, <1>8, <1>9 DEF p

\* Null records, and those between the samples of their sub-archives.
LEMMA InBetween ==
    ASSUME NEW x \in Record
    PROVE  x \in Between <=> /\ x.blocks # <<>>
                             /\ x.s = 0 => x.e = 0
                             /\ \A q \in ToSet(x.blocks) :
                                   /\ q \in Sub
                                   /\ x.s # 0 => /\ samples[q] # <<>>
                                                 /\ samples[q][1] <= x.s /\ x.e <= Last(samples[q])
BY DEF Between

\* A range between the first and the last sample of a sub-archive keeps the records of the
\* shallow index between those of theirs.
LEMMA BetweenFits ==
    ASSUME MasterInv, NEW b \in Sub, samples[b] # <<>>
    PROVE  Fits(Between, {t \in Time : samples[b][1] <= t /\ t <= Last(samples[b])}, b)
<1> DEFINE W == {t \in Time : samples[b][1] <= t /\ t <= Last(samples[b])}
           first(q) == samples[q][1]
           last(q) == Last(samples[q])
<1>1. \A q \in Sub : samples[q] # <<>> => first(q) \in Nat /\ last(q) \in Nat
  BY SampleOrder
<1>2. b \in Nat /\ Time \subseteq Nat
  BY SampleOrder, TimeAssumption
<1>3. \A x \in Record : /\ x.s \in Time /\ x.e \in Time /\ x.s \in Nat /\ x.e \in Nat
                        /\ x.blocks \in Seq(Nat)
  BY <1>2 DEF Record
<1>4. \A x \in Record : x \in Between <=>
         /\ x.blocks # <<>>
         /\ x.s = 0 => x.e = 0
         /\ \A q \in ToSet(x.blocks) : /\ q \in Sub
                                       /\ x.s # 0 => /\ samples[q] # <<>>
                                                     /\ first(q) <= x.s /\ x.e <= last(q)
  BY InBetween
<1>5. \A t : t \in W <=> t \in Time /\ first(b) <= t /\ t <= last(b)
  OBVIOUS
<1>6. Between \subseteq Record /\ W \subseteq Time /\ \A t \in W : t # 0
  <2>1. first(b) # 0
    BY SampleOrder, SubNumbers
  <2> QED
    BY <1>1, <1>2, <2>1 DEF Between
<1> HIDE DEF W, first, last
<1>7. ASSUME NEW n0 \in W, NEW n1 \in W, n0 <= n1
      PROVE  [s |-> n0, e |-> n1, blocks |-> <<b>>] \in Between
  <2> DEFINE x == [s |-> n0, e |-> n1, blocks |-> <<b>>]
  <2>1. x \in Record
    BY <1>2, <1>5 DEF Record
  <2>2. x.s = n0 /\ x.e = n1 /\ x.blocks # <<>> /\ ToSet(x.blocks) = {b}
    BY DEF ToSet
  <2> HIDE DEF x
  <2>3. x \in Between
    BY <1>4, <1>5, <1>6, <2>1, <2>2
  <2> QED
    BY <2>3 DEF x
<1>8. ASSUME NEW x \in Between, NEW n0 \in W, NEW n1 \in W, x.s < n1, n0 < x.e, n0 <= n1
      PROVE  /\ n0 <= x.s => x.s \in W
             /\ x.e <= n1 => x.e \in W
             /\ n0 <= x.s /\ x.e <= n1 /\ b \notin ToSet(x.blocks) => WithBlock(x, b) \in Between
  <2>1. /\ x \in Record /\ x.s \in Nat /\ x.e \in Nat /\ x.s \in Time /\ x.e \in Time
        /\ n0 \in Nat /\ n1 \in Nat /\ first(b) \in Nat /\ last(b) \in Nat
        /\ first(b) <= n0 /\ n1 <= last(b) /\ x.s # 0
    <3>1. x \in Record /\ x.s \in Nat /\ x.e \in Nat /\ n0 \in Nat /\ n1 \in Nat
      BY <1>2, <1>3, <1>6
    <3>2. x.s # 0
      BY <1>4, <1>8, <3>1
    <3> QED
      BY <1>1, <1>3, <1>5, <3>1, <3>2
  <2>2. n0 <= x.s => x.s \in W
    BY <1>5, <1>8, <2>1
  <2>3. x.e <= n1 => x.e \in W
    BY <1>5, <1>8, <2>1
  <2>4. ASSUME n0 <= x.s, x.e <= n1 PROVE WithBlock(x, b) \in Between
    <3>1. /\ Append(x.blocks, b) \in Seq(Nat) /\ Append(x.blocks, b) # <<>>
          /\ ToSet(Append(x.blocks, b)) = ToSet(x.blocks) \cup {b}
      <4>1. x.blocks \in Seq(Nat)
        BY <1>3, <2>1
      <4>2. Append(x.blocks, b) \in Seq(Nat) /\ Append(x.blocks, b) # <<>>
        BY <1>2, <4>1
      <4> QED
        BY <1>2, <4>1, <4>2, AddedElement
    <3>2. /\ WithBlock(x, b) \in Record /\ WithBlock(x, b).s = x.s /\ WithBlock(x, b).e = x.e
          /\ WithBlock(x, b).blocks = Append(x.blocks, b)
      BY <2>1, <3>1 DEF WithBlock, Record
    <3>3. first(b) <= x.s /\ x.e <= last(b)
      BY <2>1, <2>4
    <3> QED
      BY <1>4, <2>1, <3>1, <3>2, <3>3
  <2> QED
    BY <2>2, <2>3, <2>4
<1>9. ASSUME NEW x \in Between, NEW c \in W, x.s < c, c < x.e
      PROVE  Ending(x, c) \in Between /\ Starting(x, c) \in Between
  <2>1. x \in Record /\ x.s \in Nat /\ x.e \in Nat /\ c \in Nat /\ c \in Time /\ c # 0 /\ x.s # 0
    <3>1. x \in Record /\ x.s \in Nat /\ x.e \in Nat /\ c \in Nat /\ c \in Time /\ c # 0
      BY <1>2, <1>3, <1>6
    <3>2. x.s # 0
      BY <1>4, <1>9, <3>1
    <3> QED
      BY <3>1, <3>2
  <2>2. /\ Ending(x, c) \in Record /\ Ending(x, c).s = x.s
        /\ Ending(x, c).e = c /\ Ending(x, c).blocks = x.blocks
        /\ Starting(x, c) \in Record /\ Starting(x, c).s = c
        /\ Starting(x, c).e = x.e /\ Starting(x, c).blocks = x.blocks
    BY <2>1, CutRecord
  <2>3. \A q \in ToSet(x.blocks) : /\ q \in Sub /\ samples[q] # <<>>
                                   /\ first(q) <= x.s /\ x.e <= last(q)
                                   /\ first(q) <= c /\ c <= last(q)
    BY <1>1, <1>4, <1>9, <2>1
  <2> QED
    BY <1>4, <2>1, <2>2, <2>3
<1>10. ASSUME NEW x \in Between, NEW e \in W, x.blocks = <<b>>, x.s \in W, x.e <= e
       PROVE  Ending(x, e) \in Between
  <2>1. x \in Record /\ e \in Time /\ e <= last(b) /\ x.s # 0
    BY <1>5, <1>6, <1>10
  <2>2. /\ Ending(x, e) \in Record /\ Ending(x, e).s = x.s
        /\ Ending(x, e).e = e /\ Ending(x, e).blocks = x.blocks
    BY <2>1, CutRecord
  <2>3. ToSet(x.blocks) = {b}
    BY <1>10 DEF ToSet
  <2> QED
    BY <1>4, <2>1, <2>2, <2>3
<1> QED
  BY <1>6, <1>7, <1>8, <1>9, <1>10 DEF Fits, W, first, last

\* A sub-archive without samples gets a null record.
LEMMA NullFits ==
    ASSUME NEW b \in Sub
    PROVE  Fits(Between, {0}, b) /\ Fits(OwnOnly, {0}, b)
<1> DEFINE x0 == [s |-> 0, e |-> 0, blocks |-> <<b>>]
<1>1. b \in Nat /\ 0 \in Time /\ Time \subseteq Nat
  BY SubNumbers, TimeAssumption
<1>2. x0 \in Between /\ x0 \in OwnOnly
  <2>1. x0 \in Record
    BY <1>1 DEF Record
  <2>2. x0.blocks = <<b>> /\ x0.s = 0 /\ x0.e = 0 /\ ToSet(<<b>>) = {b} /\ <<b>> # <<>>
    BY DEF ToSet
  <2> HIDE DEF x0
  <2>3. x0 \in Between
    BY <2>1, <2>2, InBetween
  <2> QED
    BY <2>1, <2>2, <2>3 DEF OwnOnly
<1>3. Between \subseteq Record /\ OwnOnly \subseteq Record
  BY DEF Between, OwnOnly
<1>4. \A x \in Record : x.s \in Nat /\ x.e \in Nat
  BY <1>1 DEF Record
<1>5. ASSUME NEW P, P \subseteq Record, x0 \in P
      PROVE  Fits(P, {0}, b)
  <2>1. \A n0, n1 \in {0} : n0 = 0 /\ n1 = 0
    OBVIOUS
  <2>2. \A x \in P : ~(x.s < 0)
    BY <1>4, <1>5
  <2>3. ASSUME NEW x \in P, x.s = 0, x.e <= 0 PROVE Ending(x, 0) = x
    <3>1. x \in Record /\ x.e = 0
      BY <1>4, <1>5, <2>3
    <3> QED
      BY <3>1 DEF Ending, Record
  <2> HIDE DEF x0
  <2>4. \A n0, n1 \in {0} : n0 <= n1 => [s |-> n0, e |-> n1, blocks |-> <<b>>] \in P
    BY <1>5, <2>1 DEF x0
  <2>5. \A x \in P : \A e \in {0} : x.blocks = <<b>> /\ x.s \in {0} /\ x.e <= e => Ending(x, e) \in P
    BY <2>3
  <2>6. \A x \in P : \A n0, n1 \in {0} : ~(x.s < n1 /\ n0 < x.e /\ n0 <= n1)
    BY <2>1, <2>2
  <2>7. \A x \in P : \A c \in {0} : ~(x.s < c /\ c < x.e)
    BY <2>2
  <2>8. P \subseteq Record /\ {0} \subseteq Time
    BY <1>1, <1>5
  <2> QED
    BY <2>4, <2>5, <2>6, <2>7, <2>8 DEF Fits
<1> QED
  BY <1>2, <1>3, <1>5

\* Of sub-archives that do not overlap, two with samples around a common moment are one.
LEMMA ApartOnce ==
    ASSUME MasterInv, Apart, NEW s \in Sub, NEW q \in Sub,
           NEW t \in StampsOf(s), NEW u \in StampsOf(s), NEW v \in StampsOf(q), NEW w \in StampsOf(q),
           t <= v, w <= u
    PROVE  s = q
<1>1. /\ t \in Stamps[s] /\ u \in Stamps[s] /\ v \in Stamps[q] /\ w \in Stamps[q]
      /\ t \in Nat /\ u \in Nat /\ v \in Nat /\ w \in Nat
  <2>1. ASSUME NEW k \in Sub, NEW x \in StampsOf(k) PROVE x \in Stamps[k] /\ x \in Nat
    <3>1. StampsOf(k) = {samples[k][i] : i \in 1 .. Len(samples[k])}
      BY SampleOrder
    <3>2. PICK i \in 1 .. Len(samples[k]) : x = samples[k][i]
      BY <3>1
    <3> QED
      BY <3>2, SampleOrder
  <2> QED
    BY <2>1
<1>2. ASSUME s # q PROVE FALSE
  <2>1. \/ \A x \in Stamps[s], y \in Stamps[q] : x < y
        \/ \A x \in Stamps[s], y \in Stamps[q] : y < x
    BY <1>2 DEF Apart
  <2> QED
    BY <1>1, <2>1
<1> QED
  BY <1>2

\* A range between two samples of a sub-archive keeps the records each to one, if those
\* do not overlap.
LEMMA OwnFits ==
    ASSUME MasterInv, Apart, NEW b \in Sub
    PROVE  Fits(OwnOnly, StampsOf(b), b)
<1> DEFINE W == StampsOf(b)
           Own(x, q) == /\ x.blocks = <<q>>
                        /\ \/ x.s = 0 /\ x.e = 0
                           \/ x.s \in StampsOf(q) /\ x.e \in StampsOf(q)
<1>1. b \in Nat /\ Time \subseteq Nat /\ W \subseteq Time
  BY SampleOrder, TimeAssumption
<1>2. \A x : x \in OwnOnly <=> x \in Record /\ \E q \in Sub : Own(x, q)
  BY DEF OwnOnly
<1>3. \A q \in Sub : \A t \in StampsOf(q) : t \in Nat /\ t \in Time /\ t # 0
  <2> TAKE q \in Sub
  <2>1. StampsOf(q) = {samples[q][i] : i \in 1 .. Len(samples[q])}
    BY SampleOrder
  <2>2. \A i \in 1 .. Len(samples[q]) : samples[q][i] \in Nat /\ samples[q][i] \in Stamps[q]
    BY SampleOrder
  <2>3. Stamps[q] \subseteq Time \ {0}
    BY SubNumbers
  <2> QED
    BY <2>1, <2>2, <2>3
<1>4. \A q \in Sub : \A t, u \in StampsOf(q) : \A v, w \in W : t <= v /\ w <= u => q = b
  BY ApartOnce
<1> HIDE DEF W, Own
<1>5. ASSUME NEW n0 \in W, NEW n1 \in W, n0 <= n1
      PROVE  [s |-> n0, e |-> n1, blocks |-> <<b>>] \in OwnOnly
  <2>1. [s |-> n0, e |-> n1, blocks |-> <<b>>] \in Record
    BY <1>1 DEF Record
  <2>2. Own([s |-> n0, e |-> n1, blocks |-> <<b>>], b)
    BY DEF Own, W
  <2> QED
    BY <1>2, <2>1, <2>2
<1>6. ASSUME NEW x \in OwnOnly, NEW n0 \in W, NEW n1 \in W, x.s < n1, n0 < x.e
      PROVE  x \in Record /\ Own(x, b) /\ x.s \in W /\ x.e \in W /\ b \in ToSet(x.blocks)
  <2>1. PICK q \in Sub : Own(x, q)
    BY <1>2
  <2>2. x.s \in StampsOf(q) /\ x.e \in StampsOf(q)
    <3>1. n0 \in Nat
      BY <1>1
    <3>2. x.e # 0
      BY <1>6, <3>1
    <3> QED
      BY <2>1, <3>2 DEF Own
  <2>3. x.s <= n1 /\ n0 <= x.e
    BY <1>1, <1>3, <1>6, <2>2
  <2>4. q = b
    BY <1>4, <2>2, <2>3
  <2>5. b \in ToSet(<<b>>)
    BY DEF ToSet
  <2>6. x.blocks = <<b>>
    BY <2>1, <2>4 DEF Own
  <2> QED
    BY <1>2, <2>1, <2>2, <2>4, <2>5, <2>6 DEF W
<1>7. ASSUME NEW x \in OwnOnly, NEW c \in W, x.s < c, c < x.e
      PROVE  Ending(x, c) \in OwnOnly /\ Starting(x, c) \in OwnOnly
  <2>1. x \in Record /\ Own(x, b) /\ c \in Time /\ x.s \in W /\ x.e \in W
    BY <1>1, <1>3, <1>6, <1>7
  <2>2. /\ Ending(x, c) \in Record /\ Ending(x, c).s = x.s
        /\ Ending(x, c).e = c /\ Ending(x, c).blocks = x.blocks
        /\ Starting(x, c) \in Record /\ Starting(x, c).s = c
        /\ Starting(x, c).e = x.e /\ Starting(x, c).blocks = x.blocks
    BY <2>1, CutRecord
  <2>3. Own(Ending(x, c), b) /\ Own(Starting(x, c), b)
    BY <2>1, <2>2 DEF Own, W
  <2> QED
    BY <1>2, <2>2, <2>3
<1>8. ASSUME NEW x \in OwnOnly, NEW e \in W, x.blocks = <<b>>, x.s \in W, x.e <= e
      PROVE  Ending(x, e) \in OwnOnly
  <2>1. PICK q \in Sub : Own(x, q)
    BY <1>2
  <2>2. q = b
    BY <1>8, <2>1 DEF Own
  <2>3. x \in Record /\ e \in Time
    BY <1>1, <1>2
  <2>6. x.s # 0
    BY <1>3, <1>8 DEF W
  <2>4. /\ Ending(x, e) \in Record /\ Ending(x, e).s = x.s
        /\ Ending(x, e).e = e /\ Ending(x, e).blocks = x.blocks
    BY <2>3, CutRecord
  <2>5. Own(Ending(x, e), b)
    BY <1>8, <2>1, <2>2, <2>4, <2>6 DEF Own, W
  <2> QED
    BY <1>2, <2>4, <2>5
<1>9. OwnOnly \subseteq Record
  BY <1>2
<1> QED
  BY <1>1, <1>5, <1>6, <1>7, <1>8, <1>9 DEF Fits, W

\* The engine adds a sample behind all others of its sub-archive.
LEMMA AddedSample ==
    ASSUME MasterInv, NEW s \in Sub, NEW t \in Time, AddSample(s, t)
    PROVE  /\ samples'[s] = Append(samples[s], t) /\ \A q \in Sub : q # s => samples'[q] = samples[q]
           /\ t \in Nat /\ t # 0 /\ \A i \in 1 .. Len(samples[s]) : samples[s][i] < t
<1>1. samples \in [Sub -> Seq(Time)]
  BY DEF MasterInv, MasterTypeOK
<1>2. /\ samples' = [samples EXCEPT ![s] = Append(@, t)] /\ t \in Stamps[s]
      /\ \A i \in DOMAIN samples[s] : samples[s][i] < t
  BY DEF AddSample
<1>3. DOMAIN samples[s] = 1 .. Len(samples[s])
  BY SampleOrder
<1> QED
  BY <1>1, <1>2, <1>3, SubNumbers, TimeAssumption

\* Samples are only added, each after those that the sub-archive has.
LEMMA SamplesGrow ==
    ASSUME MasterInv, [MasterNext]_masterVars, NEW q \in Sub
    PROVE  /\ StampsOf(q) \subseteq ToSet(samples'[q])
           /\ Len(samples'[q]) \in Nat /\ Len(samples[q]) <= Len(samples'[q])
           /\ DOMAIN samples'[q] = 1 .. Len(samples'[q])
           /\ \A k \in 1 .. Len(samples[q]) : samples'[q][k] = samples[q][k]
           /\ \A k \in 1 .. Len(samples'[q]) :
                 \/ k \in 1 .. Len(samples[q])
                 \/ /\ samples'[q][k] \in Nat /\ Last(samples'[q]) = samples'[q][k]
                    /\ \A i \in 1 .. Len(samples[q]) : samples[q][i] < samples'[q][k]
           /\ samples[q] # <<>> => /\ samples'[q] # <<>> /\ samples'[q][1] = samples[q][1]
                                   /\ Last(samples[q]) \in Nat /\ Last(samples'[q]) \in Nat
                                   /\ Last(samples[q]) <= Last(samples'[q])
<1>1. /\ samples[q] \in Seq(Time) /\ Len(samples[q]) \in Nat /\ DOMAIN samples[q] = 1 .. Len(samples[q])
      /\ \A k \in 1 .. Len(samples[q]) : samples[q][k] \in Nat
      /\ samples[q] # <<>> => /\ 1 \in 1 .. Len(samples[q]) /\ Last(samples[q]) \in Nat
                              /\ Len(samples[q]) \in 1 .. Len(samples[q])
                              /\ Last(samples[q]) = samples[q][Len(samples[q])]
  BY SampleOrder
<1>2. CASE samples'[q] = samples[q]
  BY <1>1, <1>2 DEF StampsOf
<1>3. ASSUME NEW t \in Time, AddSample(q, t)
      PROVE  /\ StampsOf(q) \subseteq ToSet(samples'[q])
             /\ Len(samples'[q]) \in Nat /\ Len(samples[q]) <= Len(samples'[q])
             /\ DOMAIN samples'[q] = 1 .. Len(samples'[q])
             /\ \A k \in 1 .. Len(samples[q]) : samples'[q][k] = samples[q][k]
             /\ \A k \in 1 .. Len(samples'[q]) :
                   \/ k \in 1 .. Len(samples[q])
                   \/ /\ samples'[q][k] \in Nat /\ Last(samples'[q]) = samples'[q][k]
                      /\ \A i \in 1 .. Len(samples[q]) : samples[q][i] < samples'[q][k]
             /\ samples[q] # <<>> => /\ samples'[q] # <<>> /\ samples'[q][1] = samples[q][1]
                                     /\ Last(samples[q]) \in Nat /\ Last(samples'[q]) \in Nat
                                     /\ Last(samples[q]) <= Last(samples'[q])
  <2> DEFINE n == Len(samples[q])
             P == samples'[q]
  <2>1. P = Append(samples[q], t)
    BY <1>3, AddedSample
  <2>2. /\ Len(P) = n + 1 /\ DOMAIN P = 1 .. n + 1
        /\ \A k \in 1 .. n : P[k] = samples[q][k]
        /\ P[n + 1] = t /\ ToSet(P) = ToSet(samples[q]) \cup {t}
    BY <1>1, <2>1, OneMore
  <2>3. t \in Nat /\ \A i \in 1 .. n : samples[q][i] < t
    BY <1>3, AddedSample
  <2>4. Last(P) = t
    BY <2>2 DEF Last
  <2> HIDE DEF P
  <2>5. \A k \in 1 .. n + 1 : k \in 1 .. n \/ k = n + 1
    BY <1>1
  <2>6. P # <<>>
    BY <1>1, <2>2
  <2> QED
    BY <1>1, <2>2, <2>3, <2>4, <2>5, <2>6 DEF StampsOf, P
<1>4. ASSUME NEW s \in Sub, NEW t \in Time, AddSample(s, t), s # q
      PROVE  samples'[q] = samples[q]
  BY <1>4, AddedSample
<1>5. CASE \E s \in Sub, t \in Time : AddSample(s, t)
  <2>1. PICK s \in Sub, t \in Time : AddSample(s, t)
    BY <1>5
  <2>2. CASE s = q
    BY <1>3, <2>1, <2>2
  <2>3. CASE s # q
    BY <1>2, <1>4, <2>1, <2>3
  <2> QED
    BY <2>2, <2>3
<1>6. CASE ~\E s \in Sub, t \in Time : AddSample(s, t)
  <2>1. UNCHANGED samples
    BY <1>6 DEF MasterNext, masterVars, AddChannel, AddNothing, StartRun, ReadTree, Transfer, TransferRange, Interrupt
  <2> QED
    BY <1>2, <2>1
<1> QED
  BY <1>5, <1>6

\* An index that leads to a moment still does after an update, and to those of its range.
LEMMA StillHolding ==
    ASSUME NEW idx \in Seq(Record), NEW s \in Time, NEW e \in Time, NEW b \in Nat, NEW new,
           new = UpdateLastDatablock(idx, s, e, b), NEW x \in Nat,
           \/ s <= x /\ x <= e
           \/ /\ Holding(idx, x) # {}
              /\ \A k \in 1 .. Len(idx) : Head(idx[k].blocks) \in Nat /\ idx[k].blocks = <<Head(idx[k].blocks)>>
    PROVE  Holding(new, x) # {}
<1>1. /\ new \in Seq(Record)
      /\ \A u \in Nat : s <= u /\ u <= e => LeadsTo(new, b, u)
      /\ \A c, u \in Nat : LeadsTo(idx, c, u) => LeadsTo(new, c, u)
  BY UpdateLeads
<1>2. \E c \in Nat : LeadsTo(new, c, x)
  <2>1. CASE s <= x /\ x <= e
    BY <1>1, <2>1
  <2>2. CASE /\ Holding(idx, x) # {}
             /\ \A k \in 1 .. Len(idx) : Head(idx[k].blocks) \in Nat /\ idx[k].blocks = <<Head(idx[k].blocks)>>
    <3>1. PICK k \in 1 .. Len(idx) : idx[k].s <= x /\ x <= idx[k].e
      BY <2>2 DEF Holding
    <3> DEFINE c == Head(idx[k].blocks)
    <3>2. c \in Nat /\ idx[k].blocks = <<c>>
      BY <2>2
    <3>3. c \in ToSet(<<c>>)
      BY DEF ToSet
    <3> HIDE DEF c
    <3>4. LeadsTo(idx, c, x)
      BY <3>1, <3>2, <3>3 DEF LeadsTo
    <3> QED
      BY <1>1, <3>2, <3>4
  <2> QED
    BY <2>1, <2>2
<1>3. PICK c \in Nat : LeadsTo(new, c, x)
  BY <1>2
<1>4. PICK k \in 1 .. Len(new) : new[k].s <= x /\ x <= new[k].e
  BY <1>3 DEF LeadsTo
<1>5. k \in DOMAIN new
  BY <1>1
<1> QED
  BY <1>4, <1>5 DEF Holding

\* Engines only add to the index of a sub-archive: it still leads to the first sample.
LEMMA TreesStillLead ==
    ASSUME MasterInv, TreesLead, [MasterNext]_masterVars
    PROVE  TreesLead'
<1> SUFFICES ASSUME NEW s \in Sub, samples'[s] # <<>>
             PROVE  Holding(tree'[s], samples'[s][1]) # {}
  BY DEF TreesLead, Holding
<1>1. CASE samples'[s] = samples[s] /\ tree'[s] = tree[s]
  BY <1>1 DEF TreesLead
<1>2. /\ tree \in [Sub -> Seq(Record)] /\ tree[s] \in Seq(Record) /\ blocks[s] \in Nat
      /\ StampsOf(s) \in SUBSET (Time \ {0}) /\ IndexOf(s, tree[s], StampsOf(s), blocks[s])
      /\ blocks \in [Sub -> 0 .. MaxBlocks] /\ samples \in [Sub -> Seq(Time)]
  BY SubFacts DEF MasterInv
<1>3. \A k \in 1 .. Len(tree[s]) :
         /\ Head(tree[s][k].blocks) \in Nat /\ tree[s][k].blocks = <<Head(tree[s][k].blocks)>>
         /\ tree[s][k].s \in Time /\ tree[s][k].e \in Time
         /\ tree[s][k].e \in StampsOf(s) \/ Null(tree[s][k])
  <2> DEFINE X == StampsOf(s)
             T == tree[s]
             count == blocks[s]
  <2>1. s \in Sub /\ T \in Seq(Record) /\ X \in SUBSET (Time \ {0}) /\ count \in Nat
        /\ IndexOf(s, T, X, count)
    BY <1>2
  <2> HIDE DEF X, T, count
  <2>2. \A k \in 1 .. Len(T) :
           /\ Head(T[k].blocks) \in Nat /\ T[k].blocks = <<Head(T[k].blocks)>>
           /\ T[k].s \in Time /\ T[k].e \in Time /\ (T[k].e \in X \/ Null(T[k]))
    BY <2>1, IndexFacts
  <2> QED
    BY <2>2 DEF T, X
<1>4. \A n \in Nat : BlockId(s, n) \in Nat
  BY SubNumbers
<1>5. samples[s] # <<>> => /\ samples[s][1] \in Nat /\ samples'[s][1] = samples[s][1]
                           /\ Holding(tree[s], samples[s][1]) # {}
  <2>1. samples[s] # <<>> => samples'[s][1] = samples[s][1]
    BY SamplesGrow
  <2>2. samples[s] # <<>> => samples[s][1] \in Nat
    BY SampleOrder
  <2> QED
    BY <2>1, <2>2 DEF TreesLead
<1>6. ASSUME NEW t \in Time, AddSample(s, t) PROVE Holding(tree'[s], samples'[s][1]) # {}
  <2>1. /\ samples'[s] = Append(samples[s], t) /\ t \in Nat
        /\ samples[s] = <<>> => samples'[s][1] = t
    <3>1. samples'[s] = Append(samples[s], t) /\ t \in Nat
      BY <1>6, AddedSample
    <3>2. samples[s] = <<>> => Append(samples[s], t)[1] = t
      OBVIOUS
    <3> QED
      BY <3>1, <3>2
  <2>2. \E a \in Time, b \in Nat : /\ tree'[s] = UpdateLastDatablock(tree[s], a, t, b)
                                   /\ samples[s] = <<>> => a <= t
    <3>1. CASE blocks' = [blocks EXCEPT ![s] = @ + 1]
               /\ tree' = [tree EXCEPT ![s] = UpdateLastDatablock(@, t, t, BlockId(s, blocks'[s]))]
      <4>1. tree'[s] = UpdateLastDatablock(tree[s], t, t, BlockId(s, blocks'[s]))
        BY <1>2, <3>1
      <4>2. blocks'[s] \in Nat
        BY <1>2, <3>1
      <4> QED
        BY <1>4, <2>1, <4>1, <4>2
    <3>2. CASE tree[s] # <<>> /\ tree' = [tree EXCEPT ![s] =
                 UpdateLastDatablock(@, IF Null(Last(tree[s])) THEN t ELSE Last(tree[s]).s, t,
                                     LastDatablock(tree[s]))]
      <4> DEFINE n == Len(tree[s])
                 a == IF Null(tree[s][n]) THEN t ELSE tree[s][n].s
      <4>1. tree'[s] = UpdateLastDatablock(tree[s], a, t, Head(tree[s][n].blocks))
        BY <1>2, <3>2 DEF Last, LastDatablock
      <4>2. n \in 1 .. n
        BY <1>2, <3>2, RecordTypes
      <4>3. a \in Time /\ Head(tree[s][n].blocks) \in Nat
        BY <1>3, <4>2
      <4>4. samples[s] = <<>> => a <= t
        <5>1. samples[s] = <<>> => StampsOf(s) = {}
          BY DEF StampsOf, ToSet
        <5> QED
          BY <1>3, <2>1, <4>2, <5>1
      <4> HIDE DEF a
      <4> QED
        BY <4>1, <4>3, <4>4
    <3> QED
      BY <1>6, <3>1, <3>2 DEF AddSample
  <2>3. PICK a \in Time, b \in Nat : /\ tree'[s] = UpdateLastDatablock(tree[s], a, t, b)
                                     /\ samples[s] = <<>> => a <= t
    BY <2>2
  <2>4. CASE samples[s] = <<>>
    <3>1. samples'[s][1] = t /\ a <= t /\ t <= t
      BY <2>1, <2>3, <2>4
    <3> QED
      BY <1>2, <2>1, <2>3, <3>1, StillHolding
  <2>5. CASE samples[s] # <<>>
    <3> DEFINE x == samples[s][1]
    <3>1. x \in Nat /\ samples'[s][1] = x /\ Holding(tree[s], x) # {}
      BY <1>5, <2>5
    <3> HIDE DEF x
    <3>2. Holding(tree'[s], x) # {}
      BY <1>2, <1>3, <2>3, <3>1, StillHolding
    <3> QED
      BY <3>1, <3>2
  <2> QED
    BY <2>4, <2>5
<1>7. ASSUME AddNothing(s) PROVE Holding(tree'[s], samples'[s][1]) # {}
  <2>1. samples' = samples /\ tree'[s] = UpdateLastDatablock(tree[s], 0, 0, BlockId(s, blocks'[s]))
        /\ blocks'[s] \in Nat
    BY <1>2, <1>7 DEF AddNothing
  <2> DEFINE x == samples[s][1]
             b == BlockId(s, blocks'[s])
  <2>2. x \in Nat /\ samples'[s][1] = x /\ Holding(tree[s], x) # {} /\ b \in Nat /\ 0 \in Time
    BY <1>4, <1>5, <2>1, TimeAssumption
  <2> HIDE DEF x, b
  <2>3. Holding(tree'[s], x) # {}
    <3>1. tree'[s] = UpdateLastDatablock(tree[s], 0, 0, b)
      BY <2>1 DEF b
    <3> QED
      BY <1>2, <1>3, <2>2, <3>1, StillHolding
  <2> QED
    BY <2>2, <2>3
<1>8. ASSUME NEW q \in Sub, NEW t \in Time, AddSample(q, t), q # s
      PROVE  samples'[s] = samples[s] /\ tree'[s] = tree[s]
  <2>1. EngineOf(q)
    BY <1>8, AddGrows DEF MasterInv
  <2> QED
    BY <1>8, <2>1 DEF EngineOf
<1>9. ASSUME NEW q \in Sub, AddNothing(q), q # s
      PROVE  samples'[s] = samples[s] /\ tree'[s] = tree[s]
  <2>1. EngineOf(q)
    BY <1>9, NothingAdds DEF MasterInv
  <2> QED
    BY <1>9, <2>1 DEF EngineOf
<1>10. CASE \E q \in Sub, t \in Time : AddSample(q, t)
  BY <1>1, <1>6, <1>8, <1>10
<1>11. CASE \E q \in Sub : AddNothing(q)
  BY <1>1, <1>7, <1>9, <1>11
<1>12. CASE UNCHANGED <<samples, tree>>
  BY <1>1, <1>12
<1> QED
  BY <1>10, <1>11, <1>12 DEF MasterNext, masterVars, AddChannel, StartRun, ReadTree, Transfer,
     TransferRange, Interrupt

\* The tool adds nothing to the shallow index but the ranges of sub-archives, and engines
\* leave it alone.
LEMMA ShallowKeeps ==
    ASSUME MasterInv, ShallowSound, [MasterNext]_masterVars
    PROVE  ShallowSound'
<1>1. MasterTypeOK /\ shallow' = shallow
  BY DEF MasterInv, MasterNext, masterVars, AddChannel, AddSample, AddNothing, StartRun, ReadTree, Transfer,
         TransferRange, Interrupt
<1>2. SUFFICES ASSUME shallow PROVE ShallowSound'
  BY <1>1 DEF ShallowSound
<1>3. master \in Tidy(Between) /\ (Apart => master \in Tidy(OwnOnly))
  BY <1>1, <1>2 DEF ShallowSound, Tidy, MasterTypeOK
<1>4. /\ \A x \in Between : x \in Between'
      /\ \A x \in OwnOnly : x \in OwnOnly'
  <2>1. \A q \in Sub : StampsOf(q) \subseteq StampsOf(q)'
    BY SamplesGrow DEF StampsOf
  <2>2. \A q \in Sub : samples[q] # <<>> =>
           /\ samples'[q] # <<>> /\ samples'[q][1] = samples[q][1]
           /\ Last(samples[q]) \in Nat /\ Last(samples'[q]) \in Nat
           /\ Last(samples[q]) <= Last(samples'[q])
    BY SamplesGrow
  <2>3. ASSUME NEW x \in Between PROVE x \in Between'
    <3>1. x \in Record /\ x.e \in Nat
      BY TimeAssumption DEF Between, Record
    <3>2. \A q \in ToSet(x.blocks) :
             /\ q \in Sub
             /\ x.s # 0 => /\ samples'[q] # <<>>
                           /\ samples'[q][1] <= x.s /\ x.e <= Last(samples'[q])
      <4> TAKE q \in ToSet(x.blocks)
      <4>1. q \in Sub /\ (x.s # 0 => /\ samples[q] # <<>>
                                     /\ samples[q][1] <= x.s /\ x.e <= Last(samples[q]))
        BY DEF Between
      <4> QED
        BY <2>2, <3>1, <4>1
    <3> QED
      BY <3>1, <3>2 DEF Between
  <2>4. ASSUME NEW x \in OwnOnly PROVE x \in OwnOnly'
    BY <2>1 DEF OwnOnly
  <2> QED
    BY <2>3, <2>4
<1>5. CASE master' = master
  BY <1>2, <1>3, <1>4, <1>5 DEF ShallowSound, Tidy, Apart
<1>6. CASE TransferRange
  <2> DEFINE b == tool.sub
             range == RangeOf(tool.src)
             W == {t \in Time : samples[b][1] <= t /\ t <= Last(samples[b])}
  <2>1. /\ master' = UpdateLastDatablock(master, range.s, range.e, b)
        /\ b \in Sub /\ b \in Nat /\ range.s \in Time /\ range.e \in Time
        /\ range.s \in Nat /\ range.e \in Nat /\ range.s <= range.e /\ (range.s = 0 <=> range.e = 0)
    BY <1>6, RangeIs DEF TransferRange
  <2>2. \/ range.s = 0
        \/ range.s \in StampsOf(b) /\ range.e \in StampsOf(b)
    <3>1. tool.src = <<>> => range.s = 0
      BY <1>6, RangeIs DEF TransferRange
    <3>2. tool.src # <<>> => range.s \in StampsOf(b) /\ range.e \in StampsOf(b)
      BY <1>6, RangeIs DEF TransferRange
    <3> QED
      BY <3>1, <3>2
  <2> HIDE DEF range
  <2>3. CASE range.s = 0
    <3>1. range.e = 0 /\ 0 \in {0} /\ 0 <= 0
      BY <2>1, <2>3
    <3>2. Fits(Between, {0}, b) /\ Fits(OwnOnly, {0}, b)
      BY <2>1, NullFits
    <3>3. master' = UpdateLastDatablock(master, 0, 0, b)
      BY <2>1, <2>3, <3>1
    <3>4. master' \in Tidy(Between)
      BY <1>3, <2>1, <3>1, <3>2, <3>3, UpdateFits
    <3>5. Apart => master' \in Tidy(OwnOnly)
      BY <1>3, <2>1, <3>1, <3>2, <3>3, UpdateFits
    <3> QED
      BY <1>4, <3>4, <3>5 DEF ShallowSound, Tidy, Apart
  <2>4. CASE range.s \in StampsOf(b) /\ range.e \in StampsOf(b)
    <3>1. samples[b] # <<>> /\ range.s \in W /\ range.e \in W
      <4>1. \A t \in StampsOf(b) : \E i \in 1 .. Len(samples[b]) : t = samples[b][i]
        BY <2>1, SampleOrder
      <4> QED
        BY <2>1, <2>4, <4>1, SampleOrder
    <3> HIDE DEF W
    <3>2. master' \in Tidy(Between)
      <4>1. Fits(Between, W, b)
        BY <2>1, <3>1, BetweenFits DEF W
      <4> QED
        BY <1>3, <2>1, <3>1, <4>1, UpdateFits
    <3>3. Apart => master' \in Tidy(OwnOnly)
      <4>1. Apart => Fits(OwnOnly, StampsOf(b), b)
        BY <2>1, OwnFits
      <4> QED
        BY <1>3, <2>1, <2>4, <4>1, UpdateFits
    <3> QED
      BY <1>4, <3>2, <3>3 DEF ShallowSound, Tidy, Apart
  <2> QED
    BY <2>2, <2>3, <2>4
<1>7. ~Transfer
  BY <1>2 DEF MasterInv, ToolSound, Transfer
<1> QED
  BY <1>5, <1>6, <1>7 DEF MasterNext, masterVars, AddChannel, AddSample, AddNothing, StartRun, ReadTree, Interrupt

\* The sample that find() takes in a sub-archive: all later ones are after t.
LEMMA FirstFitIs ==
    ASSUME MasterInv, NEW s \in Sub, samples[s] # <<>>, NEW t \in Nat
    PROVE  LET i == FirstFit(s, t)
           IN  /\ i \in 1 .. Len(samples[s])
               /\ i = 1 \/ samples[s][i] <= t
               /\ \A m \in 1 .. Len(samples[s]) : i < m => t < samples[s][m]
               /\ \A m \in 1 .. Len(samples[s]) : samples[s][m] <= t => samples[s][i] <= t /\ m <= i
<1> DEFINE n == Len(samples[s])
           before == {i \in 1 .. n : samples[s][i] <= t}
           i == FirstFit(s, t)
<1>1. /\ n \in Nat /\ 1 \in 1 .. n /\ DOMAIN samples[s] = 1 .. n
      /\ \A m \in 1 .. n : samples[s][m] \in Nat
  BY SampleOrder
<1>2. FirstFit(s, t) = IF before = {} THEN 1 ELSE Max(before)
  BY <1>1 DEF FirstFit, Stamp
<1>3. CASE before = {}
  <2>1. i = 1
    BY <1>2, <1>3
  <2>2. \A m \in 1 .. n : ~(samples[s][m] <= t)
    BY <1>3
  <2>3. \A m \in 1 .. n : t < samples[s][m]
    BY <1>1, <2>2
  <2> HIDE DEF i
  <2> QED
    BY <1>1, <2>1, <2>2, <2>3 DEF i
<1>4. CASE before # {}
  <2>1. before \subseteq 1 .. n /\ i = Max(before)
    BY <1>2, <1>4
  <2>2. i \in before /\ \A k \in before : k <= i
    <3> HIDE DEF before, i
    <3> QED
      BY <1>1, <1>4, <2>1, MaxIn
  <2>3. i \in 1 .. n /\ samples[s][i] <= t
    BY <2>2
  <2>4. \A m \in 1 .. n : samples[s][m] <= t => m <= i
    BY <2>2
  <2> HIDE DEF i
  <2>5. \A m \in 1 .. n : i < m => t < samples[s][m]
    BY <1>1, <2>3, <2>4
  <2> QED
    BY <2>3, <2>4, <2>5 DEF i
<1> QED
  BY <1>3, <1>4

\* What the records of the shallow index are.
LEMMA MasterRecords ==
    ASSUME MasterInv, ShallowSound, shallow
    PROVE  /\ master \in Seq(Record) /\ Len(master) \in Nat /\ DOMAIN master = 1 .. Len(master)
           /\ \A j \in 1 .. Len(master) :
                 /\ master[j].s \in Nat /\ master[j].e \in Nat /\ master[j].s <= master[j].e
                 /\ \A k \in 1 .. Len(master) : j < k => master[j].e <= master[k].s
                 /\ Head(master[j].blocks) \in ToSet(master[j].blocks)
                 /\ master[j].s = 0 => master[j].e = 0
                 /\ \A q \in ToSet(master[j].blocks) :
                       /\ q \in Sub
                       /\ master[j].s # 0 =>
                             /\ samples[q] # <<>>
                             /\ samples[q][1] <= master[j].s /\ master[j].e <= Last(samples[q])
                 /\ Apart => /\ ToSet(master[j].blocks) = {Head(master[j].blocks)}
                             /\ master[j].s # 0 =>
                                   /\ master[j].s \in StampsOf(Head(master[j].blocks))
                                   /\ master[j].e \in StampsOf(Head(master[j].blocks))
<1>1. master \in Seq(Record)
  BY DEF MasterInv, MasterTypeOK
<1>2. /\ Len(master) \in Nat /\ DOMAIN master = 1 .. Len(master)
      /\ \A j \in 1 .. Len(master) : /\ master[j].s \in Nat /\ master[j].e \in Nat
                                     /\ master[j].blocks \in Seq(Nat)
  BY <1>1, RecordTypes
<1>3. \A j \in 1 .. Len(master) : /\ master[j].s <= master[j].e
                                  /\ \A k \in 1 .. Len(master) : j < k => master[j].e <= master[k].s
  BY DEF ShallowSound, Ordered
<1>4. ASSUME NEW j \in 1 .. Len(master)
      PROVE  /\ Head(master[j].blocks) \in ToSet(master[j].blocks)
             /\ master[j].s = 0 => master[j].e = 0
             /\ \A q \in ToSet(master[j].blocks) :
                   /\ q \in Sub
                   /\ master[j].s # 0 =>
                         /\ samples[q] # <<>>
                         /\ samples[q][1] <= master[j].s /\ master[j].e <= Last(samples[q])
  <2>1. master[j] \in Between
    BY DEF ShallowSound
  <2>2. master[j].blocks # <<>> /\ master[j].blocks \in Seq(Nat)
    BY <1>2, <2>1 DEF Between
  <2>3. /\ 1 \in DOMAIN master[j].blocks /\ Head(master[j].blocks) = master[j].blocks[1]
    BY <2>2
  <2> QED
    BY <2>1, <2>3 DEF Between, ToSet
<1>5. ASSUME Apart, NEW j \in 1 .. Len(master)
      PROVE  /\ ToSet(master[j].blocks) = {Head(master[j].blocks)}
             /\ master[j].s # 0 => /\ master[j].s \in StampsOf(Head(master[j].blocks))
                                   /\ master[j].e \in StampsOf(Head(master[j].blocks))
  <2>1. PICK q \in Sub : /\ master[j].blocks = <<q>>
                         /\ master[j].s # 0 => master[j].s \in StampsOf(q) /\ master[j].e \in StampsOf(q)
    BY <1>5 DEF ShallowSound, OwnOnly
  <2>2. Head(<<q>>) = q /\ ToSet(<<q>>) = {q}
    BY DEF ToSet
  <2> QED
    BY <2>1, <2>2
<1> QED
  BY <1>1, <1>2, <1>3, <1>4, <1>5

\* The reader in a sub-archive does not throw for a start that is not before its samples.
LEMMA SubFinds ==
    ASSUME MasterInv, TreesLead, NEW s \in Sub, samples[s] # <<>>, NEW t \in Nat, samples[s][1] <= t
    PROVE  ~SubThrows(s, t)
<1> DEFINE T == tree[s]
           k == SearchRecord(T, t)
           x == samples[s][1]
<1>1. /\ T \in Seq(Record) /\ blocks[s] \in Nat /\ StampsOf(s) \in SUBSET (Time \ {0})
      /\ IndexOf(s, T, StampsOf(s), blocks[s])
  BY SubFacts DEF MasterInv
<1>2. /\ Len(T) \in Nat /\ DOMAIN T = 1 .. Len(T)
      /\ \A n \in 1 .. Len(T) :
            /\ T[n].s \in Nat /\ T[n].e \in Nat /\ T[n].s <= T[n].e
            /\ Null(T[n]) <=> T[n].e = 0
            /\ \A m \in 1 .. Len(T) : n < m => T[n].e <= T[m].s
  <2> DEFINE X == StampsOf(s)
             count == blocks[s]
  <2>1. s \in Sub /\ T \in Seq(Record) /\ X \in SUBSET (Time \ {0}) /\ count \in Nat
        /\ IndexOf(s, T, X, count)
    BY <1>1
  <2> HIDE DEF X, T, count
  <2> QED
    BY <2>1, IndexFacts
<1>3. x \in Nat /\ x # 0
  BY SampleOrder, SubNumbers
<1>4. PICK j \in 1 .. Len(T) : T[j].s <= x /\ x <= T[j].e
  <2>1. Holding(T, x) # {}
    BY DEF TreesLead
  <2> QED
    BY <1>2, <2>1 DEF Holding
<1> HIDE DEF x
<1>5. T[j].s <= t /\ T[j].e # 0 /\ x <= t
  BY <1>2, <1>3, <1>4 DEF x
<1>6. T # <<>> /\ 1 \in 1 .. Len(T) /\ T[1].s <= t
  <2>1. 1 \in 1 .. Len(T) /\ (j = 1 \/ 1 < j)
    BY <1>2
  <2>2. T[1].s <= T[j].s
    BY <1>2, <2>1
  <2>3. T # <<>>
    BY <2>1
  <2> QED
    BY <1>2, <1>5, <2>1, <2>2, <2>3
<1>7. k \in 1 .. Len(T) /\ \A m \in 1 .. Len(T) : m > k => T[m].s > t
  BY <1>1, <1>6, SearchEnds
<1>8. ~Null(T[k])
  <2> HIDE DEF k, T
  <2>1. ~(k < j)
    BY <1>2, <1>5, <1>7
  <2>2. CASE k = j
    BY <1>2, <1>5, <2>2
  <2>3. CASE j < k
    <3>1. T[j].e <= T[k].s /\ T[k].s <= T[k].e
      BY <1>2, <1>7, <2>3
    <3> QED
      BY <1>2, <1>5, <1>7, <3>1
  <2> QED
    BY <1>2, <1>7, <2>1, <2>2, <2>3
<1> QED
  BY <1>8 DEF SubThrows, NoSamples

\* What the search from the top finds: the record, if it is not null, the sub-archive and
\* its sample, unless the reader there throws.
Finds(t, rec, s, i) ==
    /\ rec \in 1 .. Len(master) /\ s = Head(master[rec].blocks) /\ s \in Sub
    /\ i \in 1 .. Len(samples[s])
    /\ FindAt(rec, t) = [r EXCEPT !.pc = IF SubThrows(s, t) THEN "failed" ELSE "sample",
                                  !.top = master, !.rec = rec, !.sub = s, !.i = i,
                                  !.last = Len(samples[s])]
    /\ samples[s][1] <= master[rec].s /\ master[rec].e <= Last(samples[s])
    /\ \A j \in 1 .. Len(master) : rec < j => samples[s][i] <= master[j].s
    /\ \A m \in 1 .. Len(samples[s]) : i < m => t < samples[s][m]
    /\ master[1].s <= t => /\ ~SubThrows(s, t)
                           /\ samples[s][i] <= t /\ master[rec].s <= t
                           /\ \A j \in 1 .. Len(master) : rec < j => t < master[j].s
    /\ rec # 1 => master[rec].s <= t
    /\ Apart /\ master[rec].s <= t => master[rec].s <= samples[s][i]

\* What find() does, step by step: the record of the top index, the sample in its sub-archive.
LEMMA FindIs ==
    ASSUME MasterInv, TreesLead, ShallowSound, shallow, master # <<>>, NEW t \in Nat,
           NEW rec, rec = IF t = 0 THEN 1 ELSE SearchRecord(master, t), master[rec].s # 0
    PROVE  \E s, i : Finds(t, rec, s, i)
<1> DEFINE s   == Head(master[rec].blocks)
           i   == FirstFit(s, t)
<1>1. /\ master \in Seq(Record) /\ Len(master) \in Nat /\ 1 \in 1 .. Len(master)
      /\ \A j \in 1 .. Len(master) :
            /\ master[j].s \in Nat /\ master[j].e \in Nat /\ master[j].s <= master[j].e
            /\ \A k \in 1 .. Len(master) : j < k => master[j].e <= master[k].s
  BY MasterRecords, RecordTypes
<1>2. /\ rec \in 1 .. Len(master)
      /\ rec = 1 \/ master[rec].s <= t
      /\ master[1].s <= t => /\ master[rec].s <= t
                             /\ \A j \in 1 .. Len(master) : rec < j => t < master[j].s
  <2> DEFINE k == SearchRecord(master, t)
  <2>1. /\ k \in 1 .. Len(master)
        /\ k = 1 \/ master[k].s <= t
        /\ master[1].s <= t => master[k].s <= t /\ \A j \in 1 .. Len(master) : j > k => master[j].s > t
    BY <1>1, SearchEnds
  <2> HIDE DEF k
  <2>2. CASE t = 0
    <3>1. rec = 1 /\ ~(master[1].s <= t)
      BY <1>1, <2>2
    <3> QED
      BY <1>1, <3>1
  <2>3. CASE t # 0
    <3>1. rec = k
      BY <2>3 DEF k
    <3> QED
      BY <1>1, <2>1, <3>1
  <2> QED
    BY <2>2, <2>3
<1>3. FindAt(rec, t) = [r EXCEPT !.pc = CASE SubThrows(s, t) -> "failed"
                                          [] ~SubThrows(s, t) /\ samples[s] = <<>> -> "end"
                                          [] ~SubThrows(s, t) /\ samples[s] # <<>> -> "sample",
                                 !.top = master, !.rec = rec, !.sub = s, !.i = i,
                                 !.last = Len(samples[s])]
  BY DEF FindAt
<1>4. /\ s \in Sub /\ samples[s] # <<>> /\ samples[s][1] <= master[rec].s
      /\ master[rec].e <= Last(samples[s])
      /\ Apart => master[rec].s \in StampsOf(s)
  BY <1>2, MasterRecords
<1> HIDE DEF s
<1>5. /\ i \in 1 .. Len(samples[s])
      /\ i = 1 \/ samples[s][i] <= t
      /\ \A m \in 1 .. Len(samples[s]) : i < m => t < samples[s][m]
      /\ \A m \in 1 .. Len(samples[s]) : samples[s][m] <= t => samples[s][i] <= t /\ m <= i
  BY <1>4, FirstFitIs
<1> HIDE DEF i
<1>6. /\ Len(samples[s]) \in Nat /\ 1 \in 1 .. Len(samples[s])
      /\ \A m \in 1 .. Len(samples[s]) : samples[s][m] \in Nat
      /\ \A m, k \in 1 .. Len(samples[s]) : samples[s][m] < samples[s][k] <=> m < k
      /\ StampsOf(s) = {samples[s][m] : m \in 1 .. Len(samples[s])}
  BY <1>4, SampleOrder
<1>7. master[1].s <= master[rec].s
  <2>1. rec = 1 \/ 1 < rec
    BY <1>1, <1>2
  <2> QED
    BY <1>1, <1>2, <2>1
<1>8. master[1].s <= t => samples[s][i] <= t
  <2>1. HAVE master[1].s <= t
  <2>2. samples[s][1] \in Nat /\ samples[s][1] <= t
    BY <1>1, <1>2, <1>4, <1>6, <2>1
  <2> QED
    BY <1>5, <1>6, <2>2
<1>9. \A j \in 1 .. Len(master) : rec < j => samples[s][i] <= master[j].s
  <2> TAKE j \in 1 .. Len(master)
  <2> HAVE rec < j
  <2>1. CASE master[1].s <= t
    <3>1. samples[s][i] <= t /\ t < master[j].s
      BY <1>2, <1>8, <2>1
    <3> QED
      BY <1>1, <1>5, <1>6, <3>1
  <2>2. CASE t < master[1].s
    <3>1. rec = 1
      BY <1>1, <1>2, <1>7, <2>2
    <3>2. master[1].s <= master[j].s
      BY <1>1, <3>1
    <3>3. samples[s][i] <= master[1].s
      BY <1>1, <1>4, <1>5, <1>6, <2>2, <3>1
    <3> QED
      BY <1>1, <1>5, <1>6, <3>2, <3>3
  <2> QED
    BY <1>1, <2>1, <2>2
<1>10. Apart /\ master[rec].s <= t => master[rec].s <= samples[s][i]
  <2>1. HAVE Apart /\ master[rec].s <= t
  <2>2. PICK m \in 1 .. Len(samples[s]) : master[rec].s = samples[s][m]
    BY <1>4, <1>6, <2>1
  <2>3. m <= i /\ i \in Nat /\ m \in Nat
    BY <1>5, <1>6, <2>1, <2>2
  <2>4. ~(samples[s][i] < samples[s][m])
    BY <1>5, <1>6, <2>3
  <2> QED
    BY <1>5, <1>6, <2>2, <2>4
<1>11. master[1].s <= t => ~SubThrows(s, t)
  <2>1. HAVE master[1].s <= t
  <2>2. samples[s][1] <= t
    BY <1>1, <1>2, <1>4, <1>6, <2>1
  <2> QED
    BY <1>4, <2>2, SubFinds
<1>12. FindAt(rec, t) = [r EXCEPT !.pc = IF SubThrows(s, t) THEN "failed" ELSE "sample",
                                  !.top = master, !.rec = rec, !.sub = s, !.i = i,
                                  !.last = Len(samples[s])]
  <2>1. CASE SubThrows(s, t)
    BY <1>3, <2>1
  <2>2. CASE ~SubThrows(s, t)
    BY <1>3, <1>4, <2>2
  <2> QED
    BY <2>1, <2>2
<1>13. Finds(t, rec, s, i)
  BY <1>2, <1>4, <1>5, <1>8, <1>9, <1>10, <1>11, <1>12 DEF Finds, s
<1> QED
  BY <1>13

\* A sample that the shallow index covers and that is not before the one found is that one,
\* or behind it.
LEMMA NotMissed ==
    ASSUME MasterInv, ShallowSound, shallow, Apart, NEW t \in Nat, NEW rec, NEW s, NEW i,
           Finds(t, rec, s, i), master[rec].s # 0, NEW k \in 1 .. Len(master), NEW q \in Sub,
           q \in ToSet(master[k].blocks), NEW m \in 1 .. Len(samples[q]),
           samples[q][m] \in master[k].s .. master[k].e, samples[s][i] <= samples[q][m]
    PROVE  /\ q = Head(master[k].blocks)
           /\ \/ q = s /\ m = i
              \/ k \in rec .. Len(master) /\ (k = rec => i < m)
<1>1. /\ Len(master) \in Nat /\ rec \in 1 .. Len(master) /\ s = Head(master[rec].blocks) /\ s \in Sub
      /\ i \in 1 .. Len(samples[s])
      /\ rec # 1 => master[rec].s <= t
      /\ master[rec].s <= t => master[rec].s <= samples[s][i]
  BY MasterRecords DEF Finds
<1>2. /\ q = Head(master[k].blocks)
      /\ \A j \in 1 .. Len(master) :
            /\ master[j].s \in Nat /\ master[j].e \in Nat /\ master[j].s <= master[j].e
            /\ \A l \in 1 .. Len(master) : j < l => master[j].e <= master[l].s
      /\ master[rec].s \in StampsOf(s)
  BY <1>1, MasterRecords
<1>3. /\ Len(samples[q]) \in Nat /\ Len(samples[s]) \in Nat
      /\ samples[q][m] \in Nat /\ samples[s][i] \in Nat
      /\ samples[q][m] \in StampsOf(q) /\ samples[s][i] \in StampsOf(s)
      /\ \A a, c \in 1 .. Len(samples[s]) : samples[s][a] < samples[s][c] <=> a < c
  BY <1>1, SampleOrder
<1>4. ASSUME q = s PROVE m = i \/ i < m
  <2>1. m \in 1 .. Len(samples[s]) /\ ~(samples[s][m] < samples[s][i])
    BY <1>3, <1>4
  <2>2. ~(m < i)
    BY <1>1, <1>3, <2>1
  <2> QED
    BY <1>1, <1>3, <2>1, <2>2
<1>5. CASE k = rec
  <2>1. q = s
    BY <1>1, <1>2, <1>5
  <2> QED
    BY <1>1, <1>2, <1>4, <1>5, <2>1
<1>6. CASE rec < k
  BY <1>1, <1>2, <1>6
<1>7. CASE k < rec
  <2>1. samples[q][m] <= master[k].e /\ master[k].e <= master[rec].s
    BY <1>1, <1>2, <1>3, <1>7
  <2>2. master[rec].s <= samples[s][i]
    BY <1>1, <1>7
  <2>3. samples[q][m] = samples[s][i]
    <3>1. master[k].e \in Nat /\ master[rec].s \in Nat
      BY <1>1, <1>2
    <3>2. samples[q][m] \in Nat /\ samples[s][i] \in Nat
      BY <1>3
    <3>3. \A a, c, d, f \in Nat : a <= c /\ c <= d /\ d <= f /\ f <= a => a = f
      OBVIOUS
    <3> QED
      BY <2>1, <2>2, <3>1, <3>2, <3>3
  <2>4. q = s
    BY <1>1, <1>3, <2>3, ApartOnce
  <2>5. ~(i < m)
    BY <1>1, <1>3, <2>3, <2>4
  <2> QED
    BY <1>2, <1>4, <2>4, <2>5
<1> QED
  BY <1>1, <1>5, <1>6, <1>7

\* An index leads to numbers, and to all of its blocks.
LEMMA LedTo ==
    ASSUME NEW idx \in Seq(Record)
    PROVE  /\ \A c, t : LeadsTo(idx, c, t) => c \in Nat
           /\ \A j \in 1 .. Len(idx) : idx[j].blocks # <<>> =>
                 \A t \in idx[j].s .. idx[j].e : LeadsTo(idx, Head(idx[j].blocks), t)
<1>1. \A j \in 1 .. Len(idx) : idx[j].s \in Nat /\ idx[j].e \in Nat /\ idx[j].blocks \in Seq(Nat)
  BY RecordTypes
<1>2. ASSUME NEW c, NEW t, LeadsTo(idx, c, t) PROVE c \in Nat
  <2>1. PICK k \in 1 .. Len(idx) : c \in ToSet(idx[k].blocks)
    BY <1>2 DEF LeadsTo
  <2> QED
    BY <1>1, <2>1 DEF ToSet
<1>3. ASSUME NEW j \in 1 .. Len(idx), idx[j].blocks # <<>>, NEW t \in idx[j].s .. idx[j].e
      PROVE  LeadsTo(idx, Head(idx[j].blocks), t)
  <2>1. idx[j].s <= t /\ t <= idx[j].e
    BY <1>1
  <2>2. 1 \in DOMAIN idx[j].blocks /\ Head(idx[j].blocks) = idx[j].blocks[1]
    BY <1>1, <1>3
  <2> QED
    BY <2>1, <2>2 DEF LeadsTo, ToSet
<1> QED
  BY <1>2, <1>3

\* The states of a reader.
ReaderType == [pc : {"none", "sample", "beyond", "end", "failed"}, sub : Nat, i : Nat, last : Nat,
               top : Seq(Record), rec : Nat, from : Nat, out : Seq(Nat \X Nat), null : BOOLEAN]

\* What the steps of the reader leave alone.
LEMMA SameMaster ==
    ASSUME ReaderInv, UNCHANGED masterVars
    PROVE  /\ TreesLead' /\ ShallowSound' /\ shallow' = shallow /\ samples' = samples
           /\ master' = master
<1>1. UNCHANGED <<samples, tree, shallow, master>> /\ TreesLead /\ ShallowSound
  BY DEF masterVars, ReaderInv
<1> QED
  BY <1>1 DEF TreesLead, Holding, ShallowSound, Between, OwnOnly, StampsOf

\* About a reader that began at a null range there is nothing to show.
LEMMA NullKeeps ==
    ASSUME MasterInv, ReaderInv, r.null, ReadNext, UNCHANGED masterVars
    PROVE  ReaderInv'
<1>1. /\ "null" \in DOMAIN r /\ "pc" \in DOMAIN r /\ r.pc # "none"
      /\ TreesLead' /\ ShallowSound'
  BY SameMaster DEF ReaderInv, NoReader
<1>2. CASE UNCHANGED <<r, known>>
  BY <1>1, <1>2 DEF ReaderInv, InOrder
<1>3. ASSUME NEW q, Returns(q), "null" \in DOMAIN q, "pc" \in DOMAIN q, q.null = r.null, q.pc # "none"
      PROVE  ReaderInv'
  <2>1. "null" \in DOMAIN r' /\ "pc" \in DOMAIN r' /\ r'.null = q.null /\ r'.pc = q.pc
    BY <1>3 DEF Returns
  <2> QED
    BY <1>1, <1>3, <2>1 DEF ReaderInv, InOrder
<1>4. CASE NextInBlock
  <2>1. Returns([r EXCEPT !.i = NextInSub])
    BY <1>4 DEF NextInBlock
  <2> QED
    BY <1>1, <1>3, <2>1
<1>5. CASE NextBeyondLast
  <2>1. \/ r' = [r EXCEPT !.pc = "end"]
        \/ \E j : Returns([r EXCEPT !.pc = "beyond", !.i = j])
    BY <1>5 DEF NextBeyondLast
  <2>2. CASE r' = [r EXCEPT !.pc = "end"]
    BY <1>1, <2>2 DEF ReaderInv, InOrder
  <2>3. CASE \E j : Returns([r EXCEPT !.pc = "beyond", !.i = j])
    BY <1>1, <1>3, <2>3
  <2> QED
    BY <2>1, <2>2, <2>3
<1>6. CASE NextOfInvalid
  <2>1. r' = [r EXCEPT !.pc = "failed"]
    BY <1>6 DEF NextOfInvalid
  <2> QED
    BY <1>1, <2>1 DEF ReaderInv, InOrder
<1>7. CASE NextBlockOfTop
  <2> DEFINE t == r.top[r.rec + 1].s
             rec == SearchRecord(master, t)
             s == Head(master[rec].blocks)
             pc == CASE SubThrows(s, t)                        -> "failed"
                     [] ~SubThrows(s, t) /\ samples[s] = <<>> -> "end"
                     [] ~SubThrows(s, t) /\ samples[s] # <<>> -> "sample"
             f == [r EXCEPT !.pc = pc, !.top = master, !.rec = rec, !.sub = s,
                            !.i = FirstFit(s, t), !.last = Len(samples[s])]
             g == [f EXCEPT !.pc = IF @ = "end" THEN "failed" ELSE @]
  <2>1. Returns([FindFrom(t) EXCEPT !.from = t]) /\ FindFrom(t) = g
    BY <1>7 DEF NextBlockOfTop, FindFrom, FindAt
  <2>2. pc \in {"failed", "end", "sample"}
    OBVIOUS
  <2> HIDE DEF t, rec, s, pc
  <2>3. "null" \in DOMAIN f /\ "pc" \in DOMAIN f /\ f.null = r.null /\ f.pc = pc
    BY <1>1
  <2> HIDE DEF f
  <2>4. "null" \in DOMAIN g /\ "pc" \in DOMAIN g /\ g.null = r.null /\ g.pc # "none"
    BY <2>2, <2>3
  <2> HIDE DEF g
  <2> DEFINE h == [g EXCEPT !.from = t]
  <2>5. "null" \in DOMAIN h /\ "pc" \in DOMAIN h /\ h.null = r.null /\ h.pc # "none"
    BY <2>4
  <2>6. Returns(h)
    BY <2>1
  <2> HIDE DEF h
  <2> QED
    BY <1>3, <2>5, <2>6
<1>8. ~\E t \in Start : Find(t)
  BY <1>1 DEF Find
<1> QED
  BY <1>2, <1>4, <1>5, <1>6, <1>7, <1>8 DEF ReadNext

\* find() establishes the invariant of the reader, unless it begins at a null range.
LEMMA FindKeeps ==
    ASSUME MasterInv, ReaderInv, Start \subseteq Nat, NEW t \in Start, Find(t)
    PROVE  ReaderInv'
<1> DEFINE rec == IF t = 0 THEN 1 ELSE SearchRecord(master, t)
           found == FindAt(rec, t)
<1>1. /\ shallow /\ master # <<>> /\ UNCHANGED masterVars /\ TreesLead /\ ShallowSound
      /\ r = NoReader /\ t \in Nat
  BY DEF Find, ReaderInv
<1>2. UNCHANGED <<samples, tree, blocks, shallow, master, tool, seen, torn>>
      /\ TreesLead' /\ ShallowSound'
  BY <1>1, SameMaster DEF masterVars
<1>3. /\ r' = [found EXCEPT !.null = Null(master[found.rec]),
                            !.out = IF found.pc = "sample" THEN << <<found.sub, found.i>> >> ELSE <<>>]
      /\ known' = {x \in UNION {{p} \X DOMAIN samples[p] : p \in Sub} :
                      /\ found.pc = "sample"
                      /\ Stamp(x[1], x[2]) >= Stamp(found.sub, found.i)
                      /\ \E j \in DOMAIN master :
                             /\ Head(master[j].blocks) = x[1]
                             /\ Stamp(x[1], x[2]) \in master[j].s .. master[j].e}
  BY DEF Find
<1>4. /\ rec \in 1 .. Len(master) /\ master \in Seq(Record) /\ Len(master) \in Nat
      /\ Null(master[rec]) <=> master[rec].s = 0
  <2>1. master \in Seq(Record) /\ Len(master) \in Nat /\ 1 \in 1 .. Len(master)
    BY <1>1, RecordTypes DEF MasterInv, MasterTypeOK
  <2>2. SearchRecord(master, t) \in 1 .. Len(master)
    BY <1>1, <2>1, SearchEnds
  <2>3. rec \in 1 .. Len(master)
    BY <2>1, <2>2
  <2> HIDE DEF rec
  <2>4. /\ master[rec].s \in Nat /\ master[rec].e \in Nat /\ master[rec].s <= master[rec].e
        /\ master[rec].s = 0 => master[rec].e = 0
    BY <1>1, <2>3, MasterRecords
  <2> QED
    BY <2>1, <2>3, <2>4 DEF Null
<1>5. CASE Null(master[rec])
  <2> DEFINE s == Head(master[rec].blocks)
             pc == CASE SubThrows(s, t)                        -> "failed"
                     [] ~SubThrows(s, t) /\ samples[s] = <<>> -> "end"
                     [] ~SubThrows(s, t) /\ samples[s] # <<>> -> "sample"
  <2>1. found = [r EXCEPT !.pc = pc, !.top = master, !.rec = rec, !.sub = s,
                          !.i = FirstFit(s, t), !.last = Len(samples[s])]
    BY DEF FindAt
  <2>2. pc # "none"
    OBVIOUS
  <2> HIDE DEF s, pc, found
  <2>3. found.rec = rec /\ found.pc = pc /\ "null" \in DOMAIN found /\ "pc" \in DOMAIN found
    BY <1>1, <2>1 DEF NoReader
  <2>4. r'.null /\ r'.pc = pc /\ "null" \in DOMAIN r' /\ "pc" \in DOMAIN r'
    BY <1>3, <1>5, <2>3
  <2> QED
    BY <1>2, <2>2, <2>4 DEF ReaderInv, InOrder
<1>6. SUFFICES ASSUME ~Null(master[rec]) PROVE ReaderInv'
  BY <1>5
<1>7. \E s, i : Finds(t, rec, s, i)
  <2> HIDE DEF rec
  <2>1. rec = IF t = 0 THEN 1 ELSE SearchRecord(master, t)
    BY DEF rec
  <2> QED
    BY <1>1, <1>4, <1>6, <2>1, FindIs
<1>8. PICK s, i : Finds(t, rec, s, i)
  BY <1>7
<1> HIDE DEF rec
<1>9. /\ rec \in Nat /\ s = Head(master[rec].blocks) /\ s \in Sub /\ s \in Nat
      /\ i \in 1 .. Len(samples[s]) /\ i \in Nat /\ DOMAIN samples[s] = 1 .. Len(samples[s])
      /\ Len(samples[s]) \in Nat /\ master[rec].s # 0
  <2>1. s = Head(master[rec].blocks) /\ s \in Sub /\ i \in 1 .. Len(samples[s])
    BY <1>8 DEF Finds
  <2>2. s \in Nat /\ Len(samples[s]) \in Nat /\ DOMAIN samples[s] = 1 .. Len(samples[s])
    BY <2>1, SampleOrder
  <2> QED
    BY <1>4, <1>6, <2>1, <2>2
<1> DEFINE out == IF SubThrows(s, t) THEN <<>> ELSE << <<s, i>> >>
<1>10. /\ found.pc = IF SubThrows(s, t) THEN "failed" ELSE "sample"
       /\ found.sub = s /\ found.i = i
       /\ r' \in ReaderType
       /\ r'.pc = found.pc /\ r'.sub = s /\ r'.i = i /\ r'.top = master /\ r'.rec = rec
       /\ r'.last = Len(samples[s]) /\ r'.from = 0 /\ r'.out = out /\ ~r'.null
  <2>1. r \in ReaderType /\ r.from = 0
    BY <1>1 DEF ReaderType, NoReader
  <2> DEFINE pc == IF SubThrows(s, t) THEN "failed" ELSE "sample"
             n == Len(samples[s])
             f == [r EXCEPT !.pc = pc, !.top = master, !.rec = rec, !.sub = s, !.i = i, !.last = n]
  <2>2. found = f /\ pc \in {"failed", "sample"}
    BY <1>8 DEF Finds
  <2>3. n \in Nat
    BY <1>9
  <2> HIDE DEF pc, n
  <2>4. /\ f \in ReaderType /\ f.pc = pc
        /\ f.sub = s /\ f.i = i /\ f.top = master /\ f.rec = rec /\ f.from = 0 /\ f.last = n
    BY <1>4, <1>9, <2>1, <2>2, <2>3 DEF ReaderType
  <2>5. out \in Seq(Nat \X Nat)
    BY <1>9
  <2>6. (IF f.pc = "sample" THEN << <<f.sub, f.i>> >> ELSE <<>>) = out
    BY <2>4 DEF pc
  <2> HIDE DEF f, found, out
  <2>7. r' = [f EXCEPT !.null = FALSE, !.out = out]
    <3>1. Null(master[rec]) = FALSE
      BY <1>6 DEF Null
    <3> QED
      BY <1>3, <2>2, <2>4, <2>6, <3>1
  <2>8. /\ r' \in ReaderType /\ r'.pc = f.pc /\ r'.out = out /\ r'.null = FALSE
        /\ r'.sub = f.sub /\ r'.i = f.i /\ r'.top = f.top /\ r'.rec = f.rec /\ r'.from = f.from
        /\ r'.last = f.last
    BY <2>4, <2>5, <2>7 DEF ReaderType
  <2> QED
    BY <2>2, <2>4, <2>8 DEF pc, n
<1> HIDE DEF found
<1>11. InOrder' /\ "null" \in DOMAIN r' /\ "pc" \in DOMAIN r' /\ r'.pc # "none"
       /\ \A k \in DOMAIN r'.out : r'.out[k][1] = s /\ r'.out[k][2] = i
  <2>1. Len(out) - 1 < 1 /\ \A k \in DOMAIN out : out[k] = <<s, i>>
    OBVIOUS
  <2> HIDE DEF out
  <2>2. \A k \in DOMAIN r'.out : r'.out[k][1] = s /\ r'.out[k][2] = i
    BY <1>10, <2>1
  <2>3. InOrder'
    BY <1>10, <2>1 DEF InOrder, ReaderType
  <2> QED
    BY <1>10, <2>2, <2>3 DEF ReaderType
<1>12. \A k \in DOMAIN r'.out : r'.out[k][1] \in Sub /\ r'.out[k][2] \in DOMAIN samples'[r'.out[k][1]]
  BY <1>2, <1>9, <1>11
<1>13. CASE SubThrows(s, t)
  <2>1. known' = {} /\ r'.pc = "failed"
    BY <1>3, <1>10, <1>13
  <2> QED
    BY <1>2, <1>10, <1>11, <1>12, <2>1 DEF ReaderInv, ReaderSound, ReaderType, Owed
<1>14. SUFFICES ASSUME ~SubThrows(s, t) PROVE ReaderInv'
  BY <1>13
<1>15. r'.pc = "sample" /\ r'.out = << <<s, i>> >>
  BY <1>10, <1>14
<1>16. /\ Len(r'.out) = 1 /\ r'.out[1] = <<s, i>> /\ DOMAIN r'.out = {1}
  BY <1>15
<1>17. known' = {x \in UNION {{p} \X DOMAIN samples[p] : p \in Sub} :
                  /\ Stamp(x[1], x[2]) >= Stamp(s, i)
                  /\ \E j \in DOMAIN master :
                         /\ Head(master[j].blocks) = x[1]
                         /\ Stamp(x[1], x[2]) \in master[j].s .. master[j].e}
  BY <1>3, <1>10, <1>14
<1>18. Holds'
  <2>1. Ordered(master)
    BY <1>1 DEF ShallowSound
  <2>2. \A j \in 1 .. Len(master) : \A u \in master[j].s .. master[j].e :
           LeadsTo(master, Head(master[j].blocks), u)
    BY <1>4, <1>9, LedTo DEF MasterInv, FullSound
  <2> QED
    BY <1>2, <1>4, <1>9, <1>10, <1>16, <2>1, <2>2 DEF Holds
<1>19. InLine'
  <2>1. /\ \A j \in 1 .. Len(master) : rec < j => samples[s][i] <= master[j].s
        /\ \A m \in 1 .. Len(samples[s]) : i < m => samples[s][i] <= samples[s][m] /\ 0 <= samples[s][m]
        /\ samples[s][i] <= Last(samples[s]) /\ 0 <= Last(samples[s])
    <3>1. \A j \in 1 .. Len(master) : rec < j => samples[s][i] <= master[j].s
      BY <1>8 DEF Finds
    <3>2. /\ \A m \in 1 .. Len(samples[s]) : samples[s][m] \in Nat
          /\ \A m, k \in 1 .. Len(samples[s]) : samples[s][m] < samples[s][k] <=> m < k
          /\ samples[s][i] <= Last(samples[s])
          /\ Len(samples[s]) \in 1 .. Len(samples[s]) /\ Last(samples[s]) = samples[s][Len(samples[s])]
      BY <1>4, <1>9, SampleOrder
    <3>3. Last(samples[s]) \in Nat /\ samples[s][i] \in Nat
      BY <1>4, <1>9, <3>2
    <3>4. \A m \in 1 .. Len(samples[s]) : i < m => samples[s][i] <= samples[s][m] /\ 0 <= samples[s][m]
      <4> TAKE m \in 1 .. Len(samples[s])
      <4> HAVE i < m
      <4>1. samples[s][i] < samples[s][m] /\ samples[s][m] \in Nat
        BY <1>4, <1>9, <3>2
      <4> QED
        BY <3>3, <4>1
    <3> QED
      BY <3>1, <3>2, <3>3, <3>4
  <2>2. r'.out # <<>> /\ r'.out[Len(r'.out)] = <<s, i>>
    BY <1>16
  <2>4. /\ r'.top = master /\ r'.rec = rec /\ r'.sub = s /\ r'.i = i /\ r'.from = 0
        /\ r'.out = r'.out /\ samples' = samples
    BY <1>2, <1>10, <1>16
  <2>5. r'.out[Len(r'.out)][1] = s /\ r'.out[Len(r'.out)][2] = i
    BY <2>2
  <2> QED
    BY <1>4, <1>9, <2>1, <2>2, <2>4, <2>5 DEF InLine, Stamp
<1>20. ASSUME NEW x \in known'
       PROVE  /\ x[1] \in Sub /\ x[2] \in 1 .. Len(samples[x[1]]) /\ x = <<x[1], x[2]>>
              /\ samples[s][i] <= samples[x[1]][x[2]]
              /\ \E j \in 1 .. Len(master) :
                    /\ Head(master[j].blocks) = x[1] /\ x[1] \in ToSet(master[j].blocks)
                    /\ samples[x[1]][x[2]] \in master[j].s .. master[j].e
  <2>1. PICK p \in Sub : x \in {p} \X DOMAIN samples[p]
    BY <1>17
  <2>2. x[1] = p /\ x[2] \in DOMAIN samples[p] /\ x = <<x[1], x[2]>>
    BY <2>1
  <2>3. DOMAIN samples[p] = 1 .. Len(samples[p])
    BY SampleOrder
  <2>4. PICK j \in DOMAIN master : /\ Head(master[j].blocks) = x[1]
                                   /\ samples[x[1]][x[2]] \in master[j].s .. master[j].e
    BY <1>17 DEF Stamp
  <2>5. j \in 1 .. Len(master) /\ Head(master[j].blocks) \in ToSet(master[j].blocks)
    BY <1>1, MasterRecords
  <2>6. samples[x[1]][x[2]] >= samples[s][i]
    BY <1>17 DEF Stamp
  <2>7. samples[x[1]][x[2]] \in Nat /\ samples[s][i] \in Nat
    BY <1>4, <1>9, <2>2, <2>3, SampleOrder
  <2> QED
    BY <2>2, <2>3, <2>4, <2>5, <2>6, <2>7
<1>21. Apart => Owed'
  <2> SUFFICES ASSUME Apart, NEW x \in known'
               PROVE  /\ x[1] \in Sub /\ x[2] \in DOMAIN samples[x[1]]
                      /\ \/ x \in ToSet(r'.out)
                         \/ \E k \in rec .. Len(master) :
                               /\ Head(master[k].blocks) = x[1]
                               /\ samples[x[1]][x[2]] \in master[k].s .. master[k].e
                               /\ k = rec => i < x[2]
    BY <1>2, <1>10, <1>16 DEF Owed, ToCome, Stamp
  <2>1. PICK j \in 1 .. Len(master) : /\ Head(master[j].blocks) = x[1] /\ x[1] \in ToSet(master[j].blocks)
                                      /\ samples[x[1]][x[2]] \in master[j].s .. master[j].e
    BY <1>20
  <2>2. /\ x[1] \in Sub /\ x[2] \in 1 .. Len(samples[x[1]]) /\ x = <<x[1], x[2]>>
        /\ samples[s][i] <= samples[x[1]][x[2]]
    BY <1>20
  <2>3. \/ x[1] = s /\ x[2] = i
        \/ j \in rec .. Len(master) /\ (j = rec => i < x[2])
    <3>1. \A q \in Sub : q \in ToSet(master[j].blocks) =>
             \A m \in 1 .. Len(samples[q]) :
                samples[q][m] \in master[j].s .. master[j].e /\ samples[s][i] <= samples[q][m] =>
                   /\ q = Head(master[j].blocks)
                   /\ \/ q = s /\ m = i
                      \/ j \in rec .. Len(master) /\ (j = rec => i < m)
      <4>1. shallow /\ ShallowSound /\ t \in Nat /\ master[rec].s # 0
        BY <1>1, <1>9
      <4>2. Finds(t, rec, s, i) /\ j \in 1 .. Len(master)
        BY <1>8
      <4> QED
        BY <4>1, <4>2, NotMissed
    <3> QED
      BY <2>1, <2>2, <3>1
  <2>4. x[2] \in DOMAIN samples[x[1]]
    BY <2>2, SampleOrder
  <2>5. <<s, i>> \in ToSet(r'.out)
    BY <1>16 DEF ToSet
  <2> QED
    BY <2>1, <2>2, <2>3, <2>4, <2>5
<1>22. known' \subseteq Nat \X Nat
  <2> SUFFICES ASSUME NEW x \in known' PROVE x \in Nat \X Nat
    OBVIOUS
  <2>1. x[1] \in Nat /\ x[2] \in Nat /\ x = <<x[1], x[2]>>
    BY <1>20, SampleOrder
  <2> QED
    BY <2>1
<1> QED
  BY <1>1, <1>2, <1>10, <1>11, <1>12, <1>14, <1>18, <1>19, <1>21, <1>22 DEF ReaderInv, ReaderSound, ReaderType

\* What the reader has, once find() gave a sample.
LEMMA ReaderHas ==
    ASSUME MasterInv, ReaderInv, ~r.null, r.pc = "sample"
    PROVE  /\ r \in ReaderType /\ shallow /\ ShallowSound
           /\ r.sub \in Sub /\ r.sub \in Nat /\ r.i \in 1 .. Len(samples[r.sub])
           /\ Len(samples[r.sub]) \in Nat
           /\ r.top \in Seq(Record) /\ Len(r.top) \in Nat /\ r.rec \in 1 .. Len(r.top)
           /\ r.sub = Head(r.top[r.rec].blocks) /\ r.top[r.rec].s # 0
           /\ r.last \in Nat /\ r.last <= Len(samples[r.sub])
           /\ \A j \in 1 .. Len(r.top) :
                 /\ r.top[j].s \in Nat /\ r.top[j].e \in Nat /\ r.top[j].s <= r.top[j].e
                 /\ \A k \in 1 .. Len(r.top) : j < k => r.top[j].e <= r.top[k].s
                 /\ \A t \in r.top[j].s .. r.top[j].e : LeadsTo(master, Head(r.top[j].blocks), t)
           /\ r.from \in Nat /\ r.out \in Seq(Nat \X Nat) /\ Len(r.out) \in Nat
           /\ r.out # <<>> /\ Len(r.out) \in 1 .. Len(r.out) /\ DOMAIN r.out = 1 .. Len(r.out)
           /\ \A k \in 1 .. Len(r.out) :
                 /\ r.out[k][1] \in Sub /\ r.out[k][2] \in 1 .. Len(samples[r.out[k][1]])
                 /\ Stamp(r.out[k][1], r.out[k][2]) \in Nat
<1>1. r \in ReaderType /\ shallow /\ ShallowSound /\ Holds /\ InLine
  BY DEF ReaderInv, ReaderSound, ReaderType
<1>2. /\ r.top \in Seq(Record) /\ r.out \in Seq(Nat \X Nat) /\ r.from \in Nat
      /\ r.sub \in Sub /\ r.out # <<>> /\ r.last \in Nat /\ r.last <= Len(samples[r.sub])
  BY <1>1 DEF ReaderType, Holds, InLine
<1>3. /\ r.sub \in Nat /\ r.i \in 1 .. Len(samples[r.sub]) /\ Len(samples[r.sub]) \in Nat
  <2>1. r.i \in DOMAIN samples[r.sub]
    BY <1>1 DEF Holds
  <2> QED
    BY <1>2, <2>1, SampleOrder
<1>4. Len(r.top) \in Nat /\ \A j \in 1 .. Len(r.top) : r.top[j].s \in Nat /\ r.top[j].e \in Nat
  BY <1>2, RecordTypes
<1>5. \A j \in 1 .. Len(r.top) : /\ r.top[j].s <= r.top[j].e
                                 /\ \A k \in 1 .. Len(r.top) : j < k => r.top[j].e <= r.top[k].s
  BY <1>1 DEF Holds, Ordered
<1>6. /\ r.rec \in 1 .. Len(r.top) /\ r.sub = Head(r.top[r.rec].blocks) /\ r.top[r.rec].s # 0
      /\ \A j \in 1 .. Len(r.top) :
            \A t \in r.top[j].s .. r.top[j].e : LeadsTo(master, Head(r.top[j].blocks), t)
  BY <1>1 DEF Holds
<1>7. Len(r.out) \in Nat /\ Len(r.out) \in 1 .. Len(r.out) /\ DOMAIN r.out = 1 .. Len(r.out)
  <2>1. Len(r.out) \in Nat /\ DOMAIN r.out = 1 .. Len(r.out) /\ Len(r.out) # 0
    BY <1>2
  <2>2. \A n \in Nat : n # 0 => n \in 1 .. n
    OBVIOUS
  <2> QED
    BY <2>1, <2>2
<1>8. ASSUME NEW k \in 1 .. Len(r.out)
      PROVE  /\ r.out[k][1] \in Sub /\ r.out[k][2] \in 1 .. Len(samples[r.out[k][1]])
             /\ Stamp(r.out[k][1], r.out[k][2]) \in Nat
  <2>1. r.out[k][1] \in Sub /\ r.out[k][2] \in DOMAIN samples[r.out[k][1]]
    BY <1>7 DEF ReaderInv, ReaderSound
  <2> QED
    BY <2>1, SampleOrder DEF Stamp
<1> QED
  BY <1>1, <1>2, <1>3, <1>4, <1>5, <1>6, <1>7, <1>8

\* What has been returned, with a sample more.
LEMMA OneMoreReturned ==
    ASSUME NEW S, NEW out \in Seq(S), out # <<>>, NEW x \in S
    PROVE  LET new == Append(out, x)
           IN  /\ new \in Seq(S) /\ new # <<>> /\ Len(out) \in Nat
               /\ Len(new) = Len(out) + 1 /\ new[Len(new)] = x
               /\ DOMAIN new = 1 .. Len(out) + 1
               /\ \A k \in 1 .. Len(out) : new[k] = out[k]
               /\ ToSet(new) = ToSet(out) \cup {x}
<1> DEFINE new == Append(out, x)
<1>1. /\ new \in Seq(S) /\ Len(new) = Len(out) + 1 /\ Len(out) \in Nat
      /\ DOMAIN new = 1 .. Len(out) + 1
      /\ \A k \in 1 .. Len(out) : new[k] = out[k]
      /\ new[Len(out) + 1] = x /\ ToSet(new) = ToSet(out) \cup {x}
  BY OneMore
<1>2. new # <<>>
  <2> HIDE DEF new
  <2>1. Len(new) # 0
    BY <1>1
  <2> QED
    BY <2>1
<1> QED
  BY <1>1, <1>2

\* The order of what is returned stays if one sample more is not before the last one.
LEMMA AppendInOrder ==
    ASSUME MasterInv, ReaderInv, ~r.null, r.pc = "sample", UNCHANGED samples,
           NEW q \in Sub, NEW m \in 1 .. Len(samples[q]), r'.out = Append(r.out, <<q, m>>),
           Stamp(r.out[Len(r.out)][1], r.out[Len(r.out)][2]) <= Stamp(q, m)
    PROVE  /\ InOrder'
           /\ \A k \in DOMAIN r'.out : r'.out[k][1] \in Sub /\ r'.out[k][2] \in DOMAIN samples[r'.out[k][1]]
           /\ r'.out \in Seq(Nat \X Nat) /\ r'.out # <<>> /\ r'.out[Len(r'.out)] = <<q, m>>
           /\ ToSet(r'.out) = ToSet(r.out) \cup {<<q, m>>}
<1> DEFINE n == Len(r.out)
<1>1. /\ r.out \in Seq(Nat \X Nat) /\ r.out # <<>> /\ n \in Nat /\ InOrder
      /\ \A k \in 1 .. n : r.out[k][1] \in Sub /\ r.out[k][2] \in 1 .. Len(samples[r.out[k][1]])
  BY ReaderHas DEF ReaderInv
<1>2. <<q, m>> \in Nat \X Nat /\ DOMAIN samples[q] = 1 .. Len(samples[q])
  <2>1. q \in Nat /\ Len(samples[q]) \in Nat /\ DOMAIN samples[q] = 1 .. Len(samples[q])
    BY SampleOrder
  <2> QED
    BY <2>1
<1>3. /\ r'.out \in Seq(Nat \X Nat) /\ r'.out # <<>> /\ Len(r'.out) = n + 1
      /\ r'.out[Len(r'.out)] = <<q, m>> /\ r'.out[n + 1] = <<q, m>>
      /\ DOMAIN r'.out = 1 .. n + 1 /\ \A k \in 1 .. n : r'.out[k] = r.out[k]
      /\ ToSet(r'.out) = ToSet(r.out) \cup {<<q, m>>}
  <2> DEFINE x == <<q, m>>
             new == Append(r.out, x)
  <2> HIDE DEF x
  <2>1. /\ new \in Seq(Nat \X Nat) /\ new # <<>> /\ Len(new) = n + 1 /\ new[Len(new)] = x
        /\ DOMAIN new = 1 .. n + 1 /\ \A k \in 1 .. n : new[k] = r.out[k]
        /\ ToSet(new) = ToSet(r.out) \cup {x}
    <3> DEFINE P == Nat \X Nat
    <3>1. x \in P
      BY <1>2 DEF x
    <3>2. r.out \in Seq(P) /\ r.out # <<>>
      BY <1>1
    <3> HIDE DEF P
    <3>3. /\ new \in Seq(P) /\ new # <<>> /\ Len(new) = n + 1 /\ new[Len(new)] = x
          /\ DOMAIN new = 1 .. n + 1 /\ \A k \in 1 .. n : new[k] = r.out[k]
          /\ ToSet(new) = ToSet(r.out) \cup {x}
      BY <3>1, <3>2, OneMoreReturned
    <3> QED
      BY <3>3 DEF P
  <2>2. r'.out = new
    BY DEF x
  <2> HIDE DEF new
  <2> QED
    BY <2>1, <2>2 DEF x
<1>4. \A k \in 1 .. n + 1 : k \in 1 .. n \/ k = n + 1
  BY <1>1
<1>5. \A k \in DOMAIN r'.out : r'.out[k][1] \in Sub /\ r'.out[k][2] \in DOMAIN samples[r'.out[k][1]]
  <2> TAKE k \in DOMAIN r'.out
  <2>1. CASE k \in 1 .. n
    <3>1. r'.out[k] = r.out[k] /\ r.out[k][1] \in Sub /\ r.out[k][2] \in 1 .. Len(samples[r.out[k][1]])
      BY <1>1, <1>3, <2>1
    <3> QED
      BY <3>1, SampleOrder
  <2>2. CASE k = n + 1
    BY <1>2, <1>3, <2>2
  <2> QED
    BY <1>3, <1>4, <2>1, <2>2
<1>6. ASSUME NEW k \in 1 .. n
      PROVE  samples[r'.out[k][1]][r'.out[k][2]] <= samples[r'.out[k + 1][1]][r'.out[k + 1][2]]
  <2>1. CASE k = n
    <3>1. r'.out[k] = r.out[n] /\ r'.out[k + 1][1] = q /\ r'.out[k + 1][2] = m
      BY <1>3, <2>1
    <3> QED
      BY <3>1 DEF Stamp
  <2>2. CASE k # n
    <3>1. k \in 1 .. n - 1 /\ k + 1 \in 1 .. n
      <4>1. n \in Nat
        BY <1>1
      <4> HIDE DEF n
      <4> QED
        BY <2>2, <4>1
    <3>2. Stamp(r.out[k][1], r.out[k][2]) <= Stamp(r.out[k + 1][1], r.out[k + 1][2])
      BY <1>1, <3>1 DEF InOrder
    <3> QED
      BY <1>3, <3>1, <3>2 DEF Stamp
  <2> QED
    BY <2>1, <2>2
<1>7. InOrder'
  <2>1. Len(r'.out) - 1 = n /\ samples' = samples
    BY <1>1, <1>3
  <2> QED
    BY <1>6, <2>1 DEF InOrder, Stamp
<1> QED
  BY <1>3, <1>5, <1>7

\* next(): the reader takes the next sample of its sub-archive, which is not behind the
\* start of a later block.
LEMMA GoesOnKeeps ==
    ASSUME MasterInv, ReaderInv, ~r.null, r.pc = "sample", NextInSub # 0,
           Returns([r EXCEPT !.i = NextInSub]), UNCHANGED <<masterVars, known>>,
           \A j \in 1 .. Len(r.top) : r.rec < j => Stamp(r.sub, NextInSub) <= r.top[j].s
    PROVE  ReaderInv'
<1> DEFINE s == r.sub
           n == NextInSub
           last == r.out[Len(r.out)]
           t == Stamp(last[1], last[2])
<1>1. /\ UNCHANGED <<samples, tree, blocks, shallow, master, tool, seen, torn>> /\ known' = known
      /\ TreesLead' /\ ShallowSound' /\ known \subseteq Nat \X Nat
  BY SameMaster DEF masterVars, ReaderInv, ReaderSound
<1>2. /\ r \in ReaderType /\ shallow /\ ShallowSound /\ s \in Sub /\ s \in Nat
      /\ r.i \in 1 .. Len(samples[s]) /\ Len(samples[s]) \in Nat
      /\ Len(r.out) \in 1 .. Len(r.out) /\ t \in Nat /\ r.from \in Nat
      /\ r.out \in Seq(Nat \X Nat) /\ Holds /\ InLine /\ (Apart => Owed)
  BY ReaderHas DEF ReaderInv, ReaderSound
<1>3. n = r.i + 1 /\ n \in 1 .. Len(samples[s]) /\ n \in Nat
  <2>1. n = r.i + 1 /\ r.i < Len(samples[s])
    BY DEF NextInSub
  <2>2. r.i \in Nat /\ Len(samples[s]) \in Nat
    BY <1>2
  <2> HIDE DEF n, s
  <2> QED
    BY <2>1, <2>2
<1>4. /\ \A m \in 1 .. Len(samples[s]) : samples[s][m] \in Nat
      /\ \A m, k \in 1 .. Len(samples[s]) : samples[s][m] < samples[s][k] <=> m < k
      /\ DOMAIN samples[s] = 1 .. Len(samples[s])
      /\ \A m \in 1 .. Len(samples[s]) : samples[s][m] <= Last(samples[s])
      /\ Last(samples[s]) \in Nat
  <2>1. /\ samples[s] # <<>> /\ Len(samples[s]) \in 1 .. Len(samples[s])
        /\ Last(samples[s]) = samples[s][Len(samples[s])]
    BY <1>2, SampleOrder
  <2> QED
    BY <1>2, <2>1, SampleOrder
<1>5. t <= samples[s][n] /\ r.from <= samples[s][n] /\ r.from <= Last(samples[s])
  <2>1. InLine
    BY <1>2
  <2>2. /\ \A m \in DOMAIN samples[s] : r.i < m => t <= samples[s][m] /\ r.from <= samples[s][m]
        /\ r.from <= Last(samples[s])
    BY <2>1 DEF InLine, Stamp
  <2>3. n \in DOMAIN samples[s] /\ r.i < n
    BY <1>2, <1>3, <1>4
  <2> HIDE DEF n, t
  <2> QED
    BY <2>2, <2>3
<1> HIDE DEF n
<1>6. /\ r' \in ReaderType /\ r'.pc = "sample" /\ r'.i = n /\ r'.out = Append(r.out, <<s, n>>)
      /\ r'.sub = r.sub /\ r'.top = r.top /\ r'.rec = r.rec /\ r'.from = r.from
      /\ r'.last = r.last
  <2> DEFINE f == [r EXCEPT !.i = n]
  <2>1. /\ f \in ReaderType /\ f.sub = s /\ f.i = n /\ f.from = r.from /\ f.out = r.out
        /\ f.top = r.top /\ f.rec = r.rec /\ f.pc = "sample" /\ f.last = r.last
    BY <1>2, <1>3 DEF ReaderType
  <2>2. r' = [f EXCEPT !.out = IF f.pc = "failed" \/ samples[s][n] < r.from THEN @
                               ELSE Append(@, <<s, n>>)]
    BY <2>1 DEF Returns, Stamp, n
  <2>3. ~(samples[s][n] < r.from)
    <3>1. samples[s][n] \in Nat /\ r.from \in Nat
      BY <1>2, <1>3, <1>4
    <3> QED
      BY <1>5, <3>1
  <2> HIDE DEF f
  <2>4. r' = [f EXCEPT !.out = Append(r.out, <<s, n>>)]
    BY <2>1, <2>2, <2>3
  <2> DEFINE out == Append(r.out, <<s, n>>)
  <2>5. out \in Seq(Nat \X Nat)
    BY <1>2, <1>3
  <2> HIDE DEF out
  <2> QED
    BY <2>1, <2>4, <2>5 DEF ReaderType, out
<1>7. /\ InOrder'
      /\ \A k \in DOMAIN r'.out : r'.out[k][1] \in Sub /\ r'.out[k][2] \in DOMAIN samples[r'.out[k][1]]
      /\ r'.out # <<>> /\ r'.out[Len(r'.out)] = <<s, n>>
      /\ ToSet(r'.out) = ToSet(r.out) \cup {<<s, n>>}
  <2>1. t <= Stamp(s, n)
    BY <1>5 DEF Stamp
  <2> QED
    BY <1>1, <1>2, <1>3, <1>6, <2>1, AppendInOrder
<1>8. Holds'
  BY <1>1, <1>2, <1>3, <1>4, <1>6 DEF Holds
<1>9. InLine'
  <2>1. \A j \in 1 .. Len(r.top) : r.rec < j => samples[s][n] <= r.top[j].s
    BY DEF Stamp, n
  <2>2. \A m \in 1 .. Len(samples[s]) : n < m => samples[s][n] <= samples[s][m] /\ r.from <= samples[s][m]
    <3> TAKE m \in 1 .. Len(samples[s])
    <3> HAVE n < m
    <3>1. samples[s][n] < samples[s][m] /\ samples[s][n] \in Nat /\ samples[s][m] \in Nat
      BY <1>3, <1>4
    <3>2. r.from \in Nat /\ r.from <= samples[s][n]
      BY <1>2, <1>5
    <3> QED
      BY <3>1, <3>2
  <2>3. samples[s][n] <= Last(samples[s])
    BY <1>3, <1>4
  <2>4. r'.out[Len(r'.out)][1] = s /\ r'.out[Len(r'.out)][2] = n
    BY <1>7
  <2> QED
    BY <1>1, <1>4, <1>5, <1>6, <1>7, <2>1, <2>2, <2>3, <2>4 DEF InLine, Stamp
<1>10. Apart => Owed'
  <2> SUFFICES ASSUME Apart, NEW x \in known
               PROVE  /\ x[1] \in Sub /\ x[2] \in DOMAIN samples[x[1]]
                      /\ \/ x \in ToSet(r'.out)
                         \/ \E k \in r.rec .. Len(r.top) :
                               /\ Head(r.top[k].blocks) = x[1]
                               /\ samples[x[1]][x[2]] \in r.top[k].s .. r.top[k].e
                               /\ k = r.rec => n < x[2]
    BY <1>1, <1>6 DEF Owed, ToCome, Stamp
  <2>1. x[1] \in Sub /\ x[2] \in DOMAIN samples[x[1]] /\ (x \in ToSet(r.out) \/ ToCome(x))
    BY <1>2 DEF Owed
  <2>2. CASE x \in ToSet(r.out)
    BY <1>7, <2>1, <2>2
  <2>3. CASE ToCome(x)
    <3>1. PICK j \in r.rec .. Len(r.top) :
             /\ Head(r.top[j].blocks) = x[1]
             /\ samples[x[1]][x[2]] \in r.top[j].s .. r.top[j].e
             /\ j = r.rec => r.i < x[2]
      BY <2>3 DEF ToCome, Stamp
    <3>2. CASE j = r.rec /\ x[2] = n
      <4>1. x[1] = s
        BY <1>2, <3>1, <3>2 DEF Holds
      <4>2. x = <<x[1], x[2]>>
        BY <1>1
      <4> QED
        BY <1>7, <2>1, <3>2, <4>1, <4>2
    <3>3. CASE ~(j = r.rec /\ x[2] = n)
      <4>1. x[2] \in Nat
        BY <2>1, SampleOrder
      <4>2. j = r.rec => n < x[2]
        BY <1>2, <1>3, <3>1, <3>3, <4>1
      <4> QED
        BY <2>1, <3>1, <4>2
    <3> QED
      BY <3>2, <3>3
  <2> QED
    BY <2>1, <2>2, <2>3
<1> QED
  BY <1>1, <1>2, <1>6, <1>7, <1>8, <1>9, <1>10 DEF ReaderInv, ReaderSound, ReaderType

\* next() within a block of the top index.
LEMMA InBlockKeeps ==
    ASSUME MasterInv, ReaderInv, ~r.null, NextInBlock
    PROVE  ReaderInv'
<1>1. /\ r.pc = "sample" /\ NextInSub # 0 /\ Stamp(r.sub, NextInSub) <= r.top[r.rec].e
      /\ Returns([r EXCEPT !.i = NextInSub]) /\ UNCHANGED <<masterVars, known>>
  BY DEF NextInBlock
<1>2. /\ r.rec \in 1 .. Len(r.top)
      /\ \A j \in 1 .. Len(r.top) : r.rec < j => r.top[r.rec].e <= r.top[j].s
      /\ \A j \in 1 .. Len(r.top) : r.top[j].s \in Nat /\ r.top[j].e \in Nat
      /\ r.sub \in Sub /\ r.i \in 1 .. Len(samples[r.sub]) /\ Len(samples[r.sub]) \in Nat
  BY <1>1, ReaderHas
<1>3. Stamp(r.sub, NextInSub) \in Nat
  <2>1. NextInSub \in 1 .. Len(samples[r.sub])
    BY <1>1, <1>2 DEF NextInSub
  <2> QED
    BY <1>2, <2>1, SampleOrder DEF Stamp
<1>4. \A j \in 1 .. Len(r.top) : r.rec < j => Stamp(r.sub, NextInSub) <= r.top[j].s
  <2> TAKE j \in 1 .. Len(r.top)
  <2> HAVE r.rec < j
  <2>1. r.top[r.rec].e <= r.top[j].s /\ r.top[r.rec].e \in Nat /\ r.top[j].s \in Nat
    BY <1>2
  <2> QED
    BY <1>1, <1>3, <2>1
<1> QED
  BY <1>1, <1>4, GoesOnKeeps

\* When the reader in a sub-archive has nothing more for the last record of the top index, all
\* that was owed has been returned.
LEMMA NothingToCome ==
    ASSUME MasterInv, ReaderInv, ~r.null, BeyondBlock, r.rec = Len(r.top), Apart, NEW x \in known
    PROVE  x[1] \in Sub /\ x[2] \in DOMAIN samples[x[1]] /\ x \in ToSet(r.out)
<1>1. /\ r.pc = "sample"
      /\ NextInSub # 0 => Stamp(r.sub, NextInSub) > r.top[r.rec].e
  BY DEF BeyondBlock
<1>2. /\ r.sub \in Sub /\ r.i \in 1 .. Len(samples[r.sub]) /\ Len(samples[r.sub]) \in Nat
      /\ r.rec \in 1 .. Len(r.top) /\ Len(r.top) \in Nat /\ r.sub = Head(r.top[r.rec].blocks)
      /\ r.top[r.rec].s \in Nat /\ r.top[r.rec].e \in Nat
  BY <1>1, ReaderHas
<1>3. x[1] \in Sub /\ x[2] \in DOMAIN samples[x[1]] /\ (x \in ToSet(r.out) \/ ToCome(x))
  BY DEF ReaderInv, ReaderSound, Owed
<1>4. SUFFICES ASSUME ToCome(x) PROVE FALSE
  BY <1>3
<1> DEFINE v == samples[r.sub][x[2]]
<1>5. x[1] = r.sub /\ r.i < x[2] /\ v \in r.top[r.rec].s .. r.top[r.rec].e
  <2>1. PICK j \in r.rec .. Len(r.top) : /\ Head(r.top[j].blocks) = x[1]
                                         /\ samples[x[1]][x[2]] \in r.top[j].s .. r.top[j].e
                                         /\ j = r.rec => r.i < x[2]
    BY <1>4 DEF ToCome, Stamp
  <2>2. j = r.rec
    BY <1>2, <2>1
  <2> QED
    BY <1>2, <2>1, <2>2
<1>6. /\ DOMAIN samples[r.sub] = 1 .. Len(samples[r.sub])
      /\ \A m \in 1 .. Len(samples[r.sub]) : samples[r.sub][m] \in Nat
      /\ \A m, n \in 1 .. Len(samples[r.sub]) : samples[r.sub][m] < samples[r.sub][n] <=> m < n
  BY <1>2, SampleOrder
<1>7. x[2] \in 1 .. Len(samples[r.sub])
  BY <1>3, <1>5, <1>6
<1>8. r.i + 1 \in 1 .. Len(samples[r.sub]) /\ NextInSub = r.i + 1 /\ NextInSub # 0
  <2>1. r.i + 1 \in 1 .. Len(samples[r.sub]) /\ r.i < Len(samples[r.sub]) /\ r.i + 1 # 0
    <3> DEFINE m == x[2]
               n == Len(samples[r.sub])
    <3>1. r.i < m /\ r.i \in 1 .. n /\ m \in 1 .. n /\ n \in Nat
      BY <1>2, <1>5, <1>7
    <3> HIDE DEF m, n
    <3>2. r.i + 1 \in 1 .. n /\ r.i < n /\ r.i + 1 # 0
      BY <3>1
    <3> QED
      BY <3>2 DEF n
  <2> QED
    BY <2>1 DEF NextInSub
<1>9. samples[r.sub][r.i + 1] > r.top[r.rec].e
  BY <1>1, <1>8 DEF Stamp
<1>10. ~(v < samples[r.sub][r.i + 1])
  <2>1. ~(x[2] < r.i + 1)
    <3>1. r.i < x[2]
      BY <1>5
    <3>2. r.i \in Nat /\ x[2] \in Nat
      BY <1>2, <1>7
    <3> QED
      BY <3>1, <3>2
  <2> QED
    BY <1>6, <1>7, <1>8, <2>1
<1>11. v \in Nat /\ samples[r.sub][r.i + 1] \in Nat /\ v <= r.top[r.rec].e
  <2>1. v \in Nat
    BY <1>6, <1>7
  <2>2. samples[r.sub][r.i + 1] \in Nat
    BY <1>6, <1>8
  <2>3. v \in r.top[r.rec].s .. r.top[r.rec].e
    BY <1>5
  <2> HIDE DEF v
  <2>4. v <= r.top[r.rec].e
    BY <1>2, <2>3
  <2> QED
    BY <2>1, <2>2, <2>4
<1> HIDE DEF v
<1> QED
  BY <1>2, <1>9, <1>10, <1>11

\* next() beyond the last record of the top index.
LEMMA BeyondLastKeeps ==
    ASSUME MasterInv, ReaderInv, ~r.null, NextBeyondLast
    PROVE  ReaderInv'
<1> DEFINE s == r.sub
           t == Stamp(r.out[Len(r.out)][1], r.out[Len(r.out)][2])
<1>1. /\ r.pc = "sample" /\ BeyondBlock /\ r.rec = Len(r.top) /\ UNCHANGED <<masterVars, known>>
      /\ \E j \in MayComeInSub : IF j = 0 THEN r' = [r EXCEPT !.pc = "end"]
                                 ELSE Returns([r EXCEPT !.pc = "beyond", !.i = j])
  BY DEF NextBeyondLast, BeyondBlock
<1>2. /\ TreesLead' /\ ShallowSound' /\ samples' = samples /\ known' = known
      /\ known \subseteq Nat \X Nat /\ InOrder
      /\ \A k \in DOMAIN r.out : r.out[k][1] \in Sub /\ r.out[k][2] \in DOMAIN samples[r.out[k][1]]
  BY <1>1, SameMaster DEF ReaderInv, ReaderSound
<1>3. /\ r \in ReaderType /\ s \in Sub /\ s \in Nat /\ r.i \in 1 .. Len(samples[s])
      /\ Len(samples[s]) \in Nat /\ r.last \in Nat /\ r.last <= Len(samples[s])
      /\ r.from \in Nat /\ r.out \in Seq(Nat \X Nat) /\ t \in Nat /\ InLine
      /\ Len(r.out) \in 1 .. Len(r.out)
  BY <1>1, ReaderHas DEF ReaderInv, ReaderSound
<1>4. Apart => \A x \in known : x[1] \in Sub /\ x[2] \in DOMAIN samples[x[1]] /\ x \in ToSet(r.out)
  BY <1>1, NothingToCome
<1>5. CASE r' = [r EXCEPT !.pc = "end"]
  <2>1. r' \in ReaderType /\ r'.pc = "end" /\ r'.out = r.out
    BY <1>3, <1>5 DEF ReaderType
  <2>2. InOrder'
    BY <1>2, <1>5, <2>1 DEF InOrder, Stamp, ReaderType
  <2>3. Apart => Owed'
    BY <1>2, <1>4, <2>1 DEF Owed
  <2> QED
    BY <1>2, <2>1, <2>2, <2>3 DEF ReaderInv, ReaderSound, ReaderType
<1>6. ASSUME NEW j \in MayComeInSub, j # 0, Returns([r EXCEPT !.pc = "beyond", !.i = j])
      PROVE  ReaderInv'
  <2>1. j \in 1 .. Len(samples[s]) /\ r.i < j
    <3>1. DOMAIN samples[s] = 1 .. Len(samples[s])
      BY <1>3, SampleOrder
    <3>2. CASE r.i < r.last
      <4>1. j = r.i + 1
        BY <1>6, <3>2 DEF MayComeInSub
      <4> QED
        <5>1. r.i \in Nat /\ Len(samples[s]) \in Nat /\ r.last \in Nat /\ r.last <= Len(samples[s])
              /\ 1 <= r.i
          BY <1>3
        <5> HIDE DEF s
        <5> QED
          BY <3>2, <4>1, <5>1
    <3>3. CASE ~(r.i < r.last)
      BY <1>6, <3>1, <3>3 DEF MayComeInSub
    <3> QED
      BY <3>2, <3>3
  <2>2. j \in DOMAIN samples[s] /\ samples[s][j] \in Nat /\ j \in Nat
    BY <1>3, <2>1, SampleOrder
  <2>3. t <= samples[s][j] /\ r.from <= samples[s][j]
    BY <1>3, <2>1, <2>2 DEF InLine, Stamp
  <2>4. /\ r' \in ReaderType /\ r'.pc = "beyond" /\ r'.out = Append(r.out, <<s, j>>)
    <3> DEFINE f == [r EXCEPT !.pc = "beyond", !.i = j]
               out == Append(r.out, <<s, j>>)
    <3>1. f \in ReaderType /\ f.sub = s /\ f.i = j /\ f.from = r.from /\ f.out = r.out /\ f.pc = "beyond"
      BY <1>3, <2>2 DEF ReaderType
    <3>2. r' = [f EXCEPT !.out = IF f.pc = "failed" \/ samples[s][j] < r.from THEN @ ELSE Append(@, <<s, j>>)]
      BY <1>6, <3>1 DEF Returns, Stamp
    <3>3. ~(samples[s][j] < r.from)
      BY <1>3, <2>2, <2>3
    <3>4. out \in Seq(Nat \X Nat)
      BY <1>3, <2>2
    <3> HIDE DEF f, out
    <3>5. r' = [f EXCEPT !.out = out]
      BY <3>1, <3>2, <3>3 DEF out
    <3>6. r' \in ReaderType /\ r'.pc = "beyond" /\ r'.out = out
      BY <3>1, <3>4, <3>5 DEF ReaderType
    <3> QED
      BY <3>6 DEF out
  <2>5. /\ InOrder'
        /\ \A k \in DOMAIN r'.out : r'.out[k][1] \in Sub /\ r'.out[k][2] \in DOMAIN samples[r'.out[k][1]]
        /\ ToSet(r'.out) = ToSet(r.out) \cup {<<s, j>>}
    <3>1. t <= Stamp(s, j)
      BY <2>3 DEF Stamp
    <3> QED
      BY <1>1, <1>2, <1>3, <2>1, <2>4, <3>1, AppendInOrder
  <2>6. Apart => Owed'
    BY <1>2, <1>4, <2>4, <2>5 DEF Owed
  <2> QED
    BY <1>2, <2>4, <2>5, <2>6 DEF ReaderInv, ReaderSound, ReaderType
<1> QED
  BY <1>1, <1>5, <1>6

\* next() with an invalid block.
LEMMA InvalidKeeps ==
    ASSUME MasterInv, ReaderInv, ~r.null, NextOfInvalid
    PROVE  ReaderInv'
<1>1. /\ r.pc \in {"beyond", "end"} /\ r' = [r EXCEPT !.pc = "failed"] /\ UNCHANGED <<masterVars, known>>
  BY DEF NextOfInvalid
<1>2. /\ TreesLead' /\ ShallowSound' /\ samples' = samples /\ known' = known
      /\ InOrder /\ r \in ReaderType /\ known \subseteq Nat \X Nat /\ (Apart => Owed)
      /\ \A k \in DOMAIN r.out : r.out[k][1] \in Sub /\ r.out[k][2] \in DOMAIN samples[r.out[k][1]]
  BY <1>1, SameMaster DEF ReaderInv, ReaderSound, ReaderType
<1>3. r' \in ReaderType /\ r'.pc = "failed" /\ r'.out = r.out /\ r'.null = r.null
  BY <1>1, <1>2 DEF ReaderType
<1>4. InOrder'
  BY <1>2, <1>3 DEF InOrder, Stamp
<1>5. Apart => Owed'
  BY <1>1, <1>2, <1>3 DEF Owed
<1> QED
  BY <1>2, <1>3, <1>4, <1>5 DEF ReaderInv, ReaderSound, ReaderType

\* next(): the search from the top for the start of the next block finds a sample that
\* is not before the last one returned, and passes over none that is to come.
LEMMA TopKeeps ==
    ASSUME MasterInv, ReaderInv, ~r.null, NextBlockOfTop
    PROVE  ReaderInv'
<1> DEFINE last == r.out[Len(r.out)]
           t == Stamp(last[1], last[2])
           start == r.top[r.rec + 1].s
           next == Head(r.top[r.rec + 1].blocks)
<1>1. /\ r.pc = "sample" /\ r.rec < Len(r.top) /\ UNCHANGED <<masterVars, known>>
      /\ NextInSub # 0 => Stamp(r.sub, NextInSub) > r.top[r.rec].e
      /\ Returns([FindFrom(start) EXCEPT !.from = start])
  BY DEF NextBlockOfTop, BeyondBlock
<1>2. /\ UNCHANGED <<samples, tree, blocks, shallow, master, tool, seen, torn>> /\ known' = known
      /\ TreesLead' /\ ShallowSound' /\ known \subseteq Nat \X Nat /\ TreesLead
  BY <1>1, SameMaster DEF masterVars, ReaderInv, ReaderSound
<1>3. /\ r \in ReaderType /\ shallow /\ ShallowSound /\ r.top[r.rec].s # 0
      /\ r.sub \in Sub /\ r.i \in 1 .. Len(samples[r.sub]) /\ Len(samples[r.sub]) \in Nat
      /\ r.rec \in 1 .. Len(r.top) /\ Len(r.top) \in Nat /\ r.sub = Head(r.top[r.rec].blocks)
      /\ \A j \in 1 .. Len(r.top) :
            /\ r.top[j].s \in Nat /\ r.top[j].e \in Nat /\ r.top[j].s <= r.top[j].e
            /\ \A k \in 1 .. Len(r.top) : j < k => r.top[j].e <= r.top[k].s
            /\ \A u \in r.top[j].s .. r.top[j].e : LeadsTo(master, Head(r.top[j].blocks), u)
  BY <1>1, ReaderHas
<1>4. /\ r.out \in Seq(Nat \X Nat) /\ r.out # <<>> /\ Len(r.out) \in 1 .. Len(r.out)
      /\ DOMAIN r.out = 1 .. Len(r.out) /\ t \in Nat
      /\ \A k \in 1 .. Len(r.out) :
            /\ r.out[k][1] \in Sub /\ r.out[k][2] \in 1 .. Len(samples[r.out[k][1]])
      /\ InLine /\ (Apart => Owed) /\ InOrder
      /\ \A k \in DOMAIN r.out : r.out[k][1] \in Sub /\ r.out[k][2] \in DOMAIN samples[r.out[k][1]]
  BY <1>1, ReaderHas DEF ReaderInv, ReaderSound
<1>5. /\ r.rec + 1 \in 1 .. Len(r.top) /\ start \in Nat /\ start # 0
      /\ start \in start .. r.top[r.rec + 1].e
  <2>1. r.rec + 1 \in 1 .. Len(r.top) /\ r.rec < r.rec + 1
    BY <1>1, <1>3
  <2>2. r.top[r.rec].s <= r.top[r.rec].e /\ r.top[r.rec].e <= start /\ start \in Nat
    BY <1>3, <2>1
  <2>3. r.top[r.rec].s \in Nat /\ r.top[r.rec].s # 0 /\ r.top[r.rec].e \in Nat
    BY <1>3
  <2> HIDE DEF start
  <2>4. start # 0
    BY <2>2, <2>3
  <2> QED
    BY <1>3, <2>1, <2>2, <2>4 DEF start
<1>6. t <= start
  <2>1. \A j \in 1 .. Len(r.top) : r.rec < j => t <= r.top[j].s
    BY <1>4 DEF InLine
  <2> HIDE DEF t
  <2> QED
    BY <1>3, <1>5, <2>1
<1>7. LeadsTo(master, next, start)
  BY <1>3, <1>5
<1> HIDE DEF start, t, next
<1>8. /\ master \in Seq(Record) /\ Len(master) \in Nat /\ DOMAIN master = 1 .. Len(master)
      /\ \A j \in 1 .. Len(master) :
            /\ master[j].s \in Nat /\ master[j].e \in Nat /\ master[j].s <= master[j].e
            /\ master[j].s = 0 => master[j].e = 0
            /\ \A k \in 1 .. Len(master) : j < k => master[j].e <= master[k].s
  BY <1>3, MasterRecords
<1>9. PICK k \in 1 .. Len(master) : master[k].s <= start /\ start <= master[k].e
  BY <1>7 DEF LeadsTo
<1>10. master # <<>> /\ 1 \in 1 .. Len(master) /\ master[1].s <= start
  <2>1. 1 \in 1 .. Len(master) /\ (k = 1 \/ 1 < k)
    BY <1>8, <1>9
  <2>2. master[1].s <= master[k].s
    BY <1>8, <1>9, <2>1
  <2>3. master[1].s \in Nat /\ master[k].s \in Nat
    BY <1>8, <1>9, <2>1
  <2> QED
    BY <1>5, <1>8, <1>9, <2>1, <2>2, <2>3
<1> DEFINE rec == SearchRecord(master, start)
<1>11. rec \in 1 .. Len(master) /\ master[rec].s # 0
  <2>1. /\ rec \in 1 .. Len(master)
        /\ \A j \in 1 .. Len(master) : j > rec => master[j].s > start
    BY <1>5, <1>8, <1>10, SearchEnds
  <2> HIDE DEF rec
  <2>2. ~(rec < k)
    <3>1. master[k].s \in Nat
      BY <1>8, <1>9
    <3> QED
      BY <1>5, <1>9, <2>1, <3>1
  <2>3. master[k].e # 0 /\ master[k].s # 0
    <3>1. master[k].e \in Nat
      BY <1>8, <1>9
    <3>2. master[k].e # 0
      BY <1>5, <1>9, <3>1
    <3> QED
      BY <1>8, <1>9, <3>2
  <2>4. CASE k = rec
    BY <2>1, <2>3, <2>4
  <2>5. CASE k < rec
    <3>1. master[k].e <= master[rec].s /\ master[k].e \in Nat /\ master[rec].s \in Nat
      BY <1>8, <1>9, <2>1, <2>5
    <3> QED
      BY <2>1, <2>3, <3>1
  <2> QED
    BY <1>8, <1>9, <2>1, <2>2, <2>4, <2>5
<1>12. \E s, i : Finds(start, rec, s, i)
  <2> HIDE DEF rec
  <2>1. rec = IF start = 0 THEN 1 ELSE SearchRecord(master, start)
    BY <1>5 DEF rec
  <2> QED
    BY <1>2, <1>3, <1>5, <1>10, <1>11, <2>1, FindIs
<1>13. PICK s, i : Finds(start, rec, s, i)
  BY <1>12
<1>14. FindFrom(start) = [FindAt(rec, start) EXCEPT !.pc = IF @ = "end" THEN "failed" ELSE @]
  BY DEF FindFrom
<1> HIDE DEF rec
<1>15. /\ rec \in 1 .. Len(master) /\ rec \in Nat /\ s = Head(master[rec].blocks)
       /\ s \in Sub /\ s \in Nat
       /\ i \in 1 .. Len(samples[s]) /\ i \in Nat /\ DOMAIN samples[s] = 1 .. Len(samples[s])
       /\ \A m \in 1 .. Len(samples[s]) : samples[s][m] \in Nat
       /\ master[rec].e <= Last(samples[s]) /\ Last(samples[s]) \in Nat
  <2>1. /\ rec \in 1 .. Len(master) /\ s = Head(master[rec].blocks) /\ s \in Sub
        /\ i \in 1 .. Len(samples[s]) /\ master[rec].e <= Last(samples[s])
    BY <1>13 DEF Finds
  <2>2. /\ s \in Nat /\ Len(samples[s]) \in Nat /\ DOMAIN samples[s] = 1 .. Len(samples[s])
        /\ \A m \in 1 .. Len(samples[s]) : samples[s][m] \in Nat
        /\ samples[s] # <<>> => /\ Len(samples[s]) \in 1 .. Len(samples[s])
                                /\ Last(samples[s]) = samples[s][Len(samples[s])]
    BY <2>1, SampleOrder
  <2>3. samples[s] # <<>>
    BY <2>1, <2>2
  <2>4. rec \in Nat /\ i \in Nat
    BY <1>8, <2>1, <2>2
  <2>5. Last(samples[s]) \in Nat
    BY <2>2, <2>3
  <2> QED
    BY <2>1, <2>2, <2>4, <2>5
<1>16. /\ FindAt(rec, start) = [r EXCEPT !.pc = "sample", !.top = master, !.rec = rec,
                                         !.sub = s, !.i = i, !.last = Len(samples[s])]
       /\ samples[s][i] <= start /\ master[rec].s <= start
       /\ \A j \in 1 .. Len(master) : rec < j => start < master[j].s
       /\ \A m \in 1 .. Len(samples[s]) : i < m => start < samples[s][m]
  BY <1>10, <1>13 DEF Finds
<1>17. start <= Last(samples[s])
  <2>1. ~(rec < k)
    <3>1. master[k].s \in Nat
      BY <1>8, <1>9
    <3> QED
      BY <1>5, <1>9, <1>16, <3>1
  <2>2. start <= master[rec].e
    <3>1. CASE k = rec
      BY <1>9, <3>1
    <3>2. CASE k < rec
      <4>1. master[k].e <= master[rec].s /\ master[rec].s <= master[rec].e
        BY <1>8, <1>9, <1>15, <3>2
      <4>2. master[k].e \in Nat /\ master[rec].s \in Nat /\ master[rec].e \in Nat
        BY <1>8, <1>9, <1>15
      <4> QED
        BY <1>5, <1>9, <4>1, <4>2
    <3> QED
      BY <1>8, <1>9, <1>15, <2>1, <3>1, <3>2
  <2>3. master[rec].e \in Nat
    BY <1>8, <1>15
  <2> QED
    BY <1>5, <1>15, <2>2, <2>3
<1>18. /\ r' \in ReaderType /\ r'.pc = "sample" /\ r'.sub = s /\ r'.i = i /\ r'.top = master
       /\ r'.rec = rec /\ r'.from = start /\ r'.last = Len(samples[s])
       /\ r'.out = IF samples[s][i] < start THEN r.out ELSE Append(r.out, <<s, i>>)
  <2> DEFINE n == Len(samples[s])
             f == [r EXCEPT !.pc = "sample", !.top = master, !.rec = rec, !.sub = s, !.i = i, !.last = n]
             g == [f EXCEPT !.from = start]
             out == IF samples[s][i] < start THEN r.out ELSE Append(r.out, <<s, i>>)
  <2>1. out \in Seq(Nat \X Nat)
    BY <1>4, <1>15
  <2>2. n \in Nat
    BY <1>15, SampleOrder
  <2> HIDE DEF n
  <2>3. /\ f \in ReaderType /\ f.sub = s /\ f.i = i /\ f.top = master /\ f.rec = rec
        /\ f.out = r.out /\ f.last = n /\ f.pc = "sample"
    BY <1>3, <1>8, <1>15, <2>2 DEF ReaderType
  <2>4. FindAt(rec, start) = f
    BY <1>16 DEF n
  <2> HIDE DEF f, out
  <2>5. FindFrom(start) = f
    <3>1. [f EXCEPT !.pc = "sample"] = f
      BY <2>3 DEF ReaderType
    <3> QED
      BY <1>14, <2>3, <2>4, <3>1
  <2>6. Returns(g)
    BY <1>1, <2>5 DEF start
  <2>7. /\ g \in ReaderType /\ g.sub = s /\ g.i = i /\ g.top = master /\ g.rec = rec
        /\ g.out = r.out /\ g.from = start /\ g.last = n /\ g.pc = "sample"
    BY <1>5, <2>3 DEF ReaderType
  <2> HIDE DEF g
  <2>8. r' = [g EXCEPT !.out = out]
    BY <2>6, <2>7 DEF Returns, Stamp, out
  <2>9. /\ r' \in ReaderType /\ r'.pc = g.pc /\ r'.out = out /\ r'.last = g.last
        /\ r'.sub = g.sub /\ r'.i = g.i /\ r'.top = g.top /\ r'.rec = g.rec /\ r'.from = g.from
    BY <2>1, <2>7, <2>8 DEF ReaderType
  <2> QED
    BY <2>7, <2>9 DEF out, n
<1> DEFINE l == r'.out[Len(r'.out)]
           u == samples[l[1]][l[2]]
<1>19. /\ InOrder' /\ r'.out # <<>> /\ r'.out \in Seq(Nat \X Nat)
       /\ \A n \in DOMAIN r'.out : r'.out[n][1] \in Sub /\ r'.out[n][2] \in DOMAIN samples[r'.out[n][1]]
       /\ u \in Nat /\ u <= start
       /\ ToSet(r.out) \subseteq ToSet(r'.out)
       /\ samples[s][i] = start => <<s, i>> \in ToSet(r'.out)
  <2>1. CASE samples[s][i] < start
    <3>1. r'.out = r.out /\ samples[s][i] # start
      BY <1>5, <1>15, <1>18, <2>1
    <3>2. u = t
      BY <3>1 DEF t, Stamp
    <3>3. InOrder'
      BY <1>2, <1>4, <3>1 DEF InOrder, Stamp
    <3>4. \A n \in DOMAIN r.out : r.out[n][1] \in Sub /\ r.out[n][2] \in DOMAIN samples[r.out[n][1]]
      BY <1>4
    <3> HIDE DEF u
    <3> QED
      BY <1>4, <1>6, <3>1, <3>2, <3>3, <3>4
  <2>2. CASE ~(samples[s][i] < start)
    <3>1. r'.out = Append(r.out, <<s, i>>)
      BY <1>18, <2>2
    <3>2. samples[s][i] = start
      <4>1. samples[s][i] \in Nat /\ samples[s][i] <= start
        BY <1>15, <1>16
      <4> QED
        BY <1>5, <2>2, <4>1
    <3>3. Stamp(r.out[Len(r.out)][1], r.out[Len(r.out)][2]) <= Stamp(s, i)
      BY <1>6, <3>2 DEF t, Stamp
    <3>4. /\ InOrder'
          /\ \A n \in DOMAIN r'.out : r'.out[n][1] \in Sub /\ r'.out[n][2] \in DOMAIN samples[r'.out[n][1]]
          /\ r'.out \in Seq(Nat \X Nat) /\ r'.out # <<>> /\ l = <<s, i>>
          /\ ToSet(r'.out) = ToSet(r.out) \cup {<<s, i>>}
      <4>1. r.pc = "sample" /\ samples' = samples
        BY <1>1, <1>2
      <4> QED
        BY <1>15, <3>1, <3>3, <4>1, AppendInOrder
    <3>5. u = start
      BY <3>2, <3>4
    <3> HIDE DEF u, l
    <3> QED
      BY <1>5, <3>4, <3>5
  <2> QED
    BY <2>1, <2>2
<1>20. Holds'
  <2>1. Ordered(master)
    BY <1>3 DEF ShallowSound
  <2>2. \A j \in 1 .. Len(master) : \A v \in master[j].s .. master[j].e :
           LeadsTo(master, Head(master[j].blocks), v)
    BY <1>8, LedTo DEF MasterInv, FullSound
  <2>3. Len(samples[s]) <= Len(samples[s])
    BY <1>15, SampleOrder
  <2> QED
    BY <1>2, <1>15, <1>18, <1>11, <2>1, <2>2, <2>3 DEF Holds
<1>21. InLine'
  <2>1. \A j \in 1 .. Len(master) : rec < j => u <= master[j].s
    <3> TAKE j \in 1 .. Len(master)
    <3> HAVE rec < j
    <3>1. start < master[j].s /\ master[j].s \in Nat
      BY <1>8, <1>16
    <3> HIDE DEF u
    <3> QED
      BY <1>5, <1>19, <3>1
  <2>2. \A m \in 1 .. Len(samples[s]) : i < m => u <= samples[s][m] /\ start <= samples[s][m]
    <3> TAKE m \in 1 .. Len(samples[s])
    <3> HAVE i < m
    <3>1. start < samples[s][m] /\ samples[s][m] \in Nat
      BY <1>15, <1>16
    <3>2. start \in Nat /\ u \in Nat /\ u <= start
      BY <1>5, <1>19
    <3> HIDE DEF u
    <3> QED
      BY <3>1, <3>2
  <2>3. u <= Last(samples[s])
    <3> HIDE DEF u
    <3> QED
      BY <1>5, <1>15, <1>17, <1>19
  <2>4. u = samples'[r'.out[Len(r'.out)][1]][r'.out[Len(r'.out)][2]]
    BY <1>2
  <2> HIDE DEF u
  <2> QED
    BY <1>2, <1>15, <1>17, <1>18, <1>19, <2>1, <2>2, <2>3, <2>4 DEF InLine, Stamp
<1>22. Apart => Owed'
  <2> SUFFICES ASSUME Apart, NEW x \in known
               PROVE  /\ x[1] \in Sub /\ x[2] \in DOMAIN samples[x[1]]
                      /\ \/ x \in ToSet(r'.out)
                         \/ \E p \in rec .. Len(master) :
                               /\ Head(master[p].blocks) = x[1]
                               /\ samples[x[1]][x[2]] \in master[p].s .. master[p].e
                               /\ p = rec => i < x[2]
    BY <1>2, <1>18 DEF Owed, ToCome, Stamp
  <2>1. x[1] \in Sub /\ x[2] \in DOMAIN samples[x[1]] /\ (x \in ToSet(r.out) \/ ToCome(x))
    BY <1>4 DEF Owed
  <2>2. CASE x \in ToSet(r.out)
    BY <1>19, <2>1, <2>2
  <2>3. CASE ToCome(x)
    <3> DEFINE v == samples[x[1]][x[2]]
    <3>1. PICK j \in r.rec .. Len(r.top) : /\ Head(r.top[j].blocks) = x[1]
                                           /\ v \in r.top[j].s .. r.top[j].e
                                           /\ j = r.rec => r.i < x[2]
      BY <2>3 DEF ToCome, Stamp
    <3>2. /\ x[2] \in 1 .. Len(samples[x[1]]) /\ x[2] \in Nat /\ v \in Nat
          /\ \A m \in 1 .. Len(samples[x[1]]) : samples[x[1]][m] \in Nat
          /\ \A m, n \in 1 .. Len(samples[x[1]]) : samples[x[1]][m] < samples[x[1]][n] <=> m < n
      <4>1. /\ Len(samples[x[1]]) \in Nat /\ DOMAIN samples[x[1]] = 1 .. Len(samples[x[1]])
            /\ \A m \in 1 .. Len(samples[x[1]]) : samples[x[1]][m] \in Nat
            /\ \A m, n \in 1 .. Len(samples[x[1]]) : samples[x[1]][m] < samples[x[1]][n] <=> m < n
        BY <2>1, SampleOrder
      <4>2. x[2] \in 1 .. Len(samples[x[1]]) /\ x[2] \in Nat
        BY <2>1, <4>1
      <4>3. v \in Nat
        BY <4>1, <4>2
      <4> QED
        BY <4>1, <4>2, <4>3
    <3>3. j # r.rec
      <4> SUFFICES ASSUME j = r.rec PROVE FALSE
        OBVIOUS
      <4>1. x[1] = r.sub /\ r.i < x[2] /\ r.i \in Nat /\ v <= r.top[r.rec].e
        BY <1>3, <3>1, <3>2
      <4>2. r.i + 1 \in 1 .. Len(samples[r.sub]) /\ NextInSub = r.i + 1 /\ NextInSub # 0
        <5>1. x[2] \in 1 .. Len(samples[r.sub]) /\ Len(samples[r.sub]) \in Nat
          BY <1>3, <3>2, <4>1
        <5>2. r.i + 1 \in 1 .. Len(samples[r.sub]) /\ r.i < Len(samples[r.sub]) /\ r.i + 1 # 0
          BY <4>1, <5>1
        <5> QED
          BY <5>2 DEF NextInSub
      <4>3. samples[r.sub][r.i + 1] > r.top[r.rec].e
        BY <1>1, <4>2 DEF Stamp
      <4>4. ~(samples[r.sub][x[2]] < samples[r.sub][r.i + 1])
        BY <3>2, <4>1, <4>2
      <4>5. samples[r.sub][r.i + 1] \in Nat /\ r.top[r.rec].e \in Nat
        BY <1>3, <3>2, <4>1, <4>2
      <4>6. v = samples[r.sub][x[2]]
        BY <4>1
      <4>7. v \in Nat /\ v <= r.top[r.rec].e
        BY <3>2, <4>1
      <4> HIDE DEF v
      <4> QED
        BY <4>3, <4>4, <4>5, <4>6, <4>7
    <3>4. j \in 1 .. Len(r.top) /\ (j = r.rec + 1 \/ r.rec + 1 < j)
      <4>1. j \in r.rec .. Len(r.top) /\ r.rec \in 1 .. Len(r.top) /\ Len(r.top) \in Nat
        BY <1>3, <3>1
      <4> QED
        BY <3>3, <4>1
    <3>5. start <= v /\ LeadsTo(master, x[1], v)
      <4>1. LeadsTo(master, x[1], v)
        BY <1>3, <3>1, <3>4
      <4>2. r.top[j].s <= v /\ r.top[j].s \in Nat
        BY <1>3, <3>1, <3>4
      <4>3. start <= r.top[j].s
        <5>1. CASE j = r.rec + 1
          BY <1>5, <5>1 DEF start
        <5>2. CASE r.rec + 1 < j
          <6>1. start <= r.top[r.rec + 1].e /\ r.top[r.rec + 1].e <= r.top[j].s
            <7>1. start <= r.top[r.rec + 1].e
              BY <1>5
            <7>2. r.top[r.rec + 1].e <= r.top[j].s
              BY <1>3, <1>5, <3>4, <5>2
            <7> QED
              BY <7>1, <7>2
          <6>2. r.top[r.rec + 1].e \in Nat
            BY <1>3, <1>5
          <6> QED
            BY <1>5, <4>2, <6>1, <6>2
        <5> QED
          BY <3>4, <5>1, <5>2
      <4>4. start \in Nat /\ v \in Nat
        BY <1>5, <3>2
      <4>5. start <= v
        <5> HIDE DEF v
        <5> QED
          BY <4>2, <4>3, <4>4
      <4> QED
        BY <4>1, <4>5
    <3>6. PICK p \in 1 .. Len(master) : /\ master[p].s <= v /\ v <= master[p].e
                                        /\ x[1] \in ToSet(master[p].blocks)
      BY <3>5 DEF LeadsTo
    <3>7. v \in master[p].s .. master[p].e
      BY <1>8, <3>2, <3>6
    <3>8. samples[s][i] <= v
      <4>1. samples[s][i] \in Nat /\ samples[s][i] <= start /\ start <= v /\ v \in Nat
        BY <1>15, <1>16, <3>2, <3>5
      <4> HIDE DEF v
      <4> QED
        BY <1>5, <4>1
    <3>9. /\ x[1] = Head(master[p].blocks)
          /\ \/ x[1] = s /\ x[2] = i
             \/ p \in rec .. Len(master) /\ (p = rec => i < x[2])
      <4>1. \A q \in Sub : q \in ToSet(master[p].blocks) =>
               \A m \in 1 .. Len(samples[q]) :
                  samples[q][m] \in master[p].s .. master[p].e /\ samples[s][i] <= samples[q][m] =>
                     /\ q = Head(master[p].blocks)
                     /\ \/ q = s /\ m = i
                        \/ p \in rec .. Len(master) /\ (p = rec => i < m)
        BY <1>3, <1>5, <1>13, <1>11, <3>6, NotMissed
      <4> QED
        BY <2>1, <3>2, <3>6, <3>7, <3>8, <4>1
    <3>10. CASE x[1] = s /\ x[2] = i
      <4>1. x = <<s, i>>
        <5>1. x \in Nat \X Nat
          BY <1>2
        <5>2. x = <<x[1], x[2]>>
          BY <5>1
        <5> QED
          BY <3>10, <5>2
      <4>2. v = samples[s][i]
        BY <3>10
      <4>3. samples[s][i] = start
        <5>1. /\ samples[s][i] \in Nat /\ samples[s][i] <= start /\ start \in Nat
              /\ start <= v
          BY <1>5, <1>15, <1>16, <3>5
        <5> HIDE DEF v
        <5> QED
          BY <4>2, <5>1
      <4> QED
        BY <1>19, <2>1, <4>1, <4>3
    <3>11. CASE p \in rec .. Len(master) /\ (p = rec => i < x[2])
      BY <2>1, <3>7, <3>9, <3>11
    <3> QED
      BY <3>9, <3>10, <3>11
  <2> QED
    BY <2>1, <2>2, <2>3
<1> QED
  BY <1>2, <1>3, <1>18, <1>19, <1>20, <1>21, <1>22 DEF ReaderInv, ReaderSound, ReaderType

\* What the reader returned, and has to return, is not touched by engines and tool: samples
\* that come meanwhile are behind those that are there.
LEMMA OthersKeepReader ==
    ASSUME MasterInv, ReaderInv, [MasterNext]_masterVars, UNCHANGED <<r, known>>
    PROVE  ReaderInv'
<1>1. MasterTypeOK /\ shallow' = shallow /\ r' = r /\ known' = known
  BY DEF MasterInv, MasterNext, masterVars, AddChannel, AddSample, AddNothing, StartRun, ReadTree,
         Transfer, TransferRange, Interrupt
<1>2. /\ TreesLead' /\ ShallowSound' /\ "null" \in DOMAIN r /\ "pc" \in DOMAIN r /\ InOrder
      /\ r.pc = "none" => r = NoReader /\ known = {}
      /\ ~r.null => ReaderSound
  BY ShallowKeeps, TreesStillLead DEF ReaderInv
<1>3. CASE r.null
  BY <1>1, <1>2, <1>3 DEF ReaderInv, InOrder
<1>4. SUFFICES ASSUME ~r.null PROVE InOrder' /\ ReaderSound'
  BY <1>1, <1>2, <1>3 DEF ReaderInv
<1>5. /\ r \in ReaderType /\ known \subseteq Nat \X Nat
      /\ \A k \in DOMAIN r.out : r.out[k][1] \in Sub /\ r.out[k][2] \in DOMAIN samples[r.out[k][1]]
      /\ r.pc = "sample" => shallow /\ Holds /\ InLine
      /\ (Apart => Owed) /\ InOrder
  BY <1>2, <1>4 DEF ReaderSound, ReaderType
<1>6. \A q \in Sub : /\ DOMAIN samples[q] = 1 .. Len(samples[q])
                     /\ DOMAIN samples'[q] = 1 .. Len(samples'[q])
                     /\ Len(samples[q]) \in Nat /\ Len(samples'[q]) \in Nat
                     /\ Len(samples[q]) <= Len(samples'[q])
                     /\ \A m \in 1 .. Len(samples[q]) : /\ m \in 1 .. Len(samples'[q])
                                                        /\ samples'[q][m] = samples[q][m]
  <2> TAKE q \in Sub
  <2>1. /\ DOMAIN samples[q] = 1 .. Len(samples[q]) /\ Len(samples[q]) \in Nat
        /\ Len(samples'[q]) \in Nat /\ Len(samples[q]) <= Len(samples'[q])
        /\ DOMAIN samples'[q] = 1 .. Len(samples'[q])
        /\ \A m \in 1 .. Len(samples[q]) : samples'[q][m] = samples[q][m]
    BY SampleOrder, SamplesGrow
  <2> QED
    BY <2>1
<1>7. \A k \in DOMAIN r.out :
         /\ r.out[k][1] \in Sub /\ r.out[k][2] \in DOMAIN samples'[r.out[k][1]]
         /\ samples'[r.out[k][1]][r.out[k][2]] = samples[r.out[k][1]][r.out[k][2]]
  BY <1>5, <1>6
<1>8. InOrder'
  <2> SUFFICES ASSUME NEW k \in 1 .. Len(r.out) - 1
               PROVE  samples'[r.out[k][1]][r.out[k][2]] <= samples'[r.out[k + 1][1]][r.out[k + 1][2]]
    BY <1>1 DEF InOrder, Stamp
  <2>1. k \in DOMAIN r.out /\ k + 1 \in DOMAIN r.out
    <3>1. r.out \in Seq(Nat \X Nat)
      BY <1>5 DEF ReaderType
    <3>2. Len(r.out) \in Nat /\ DOMAIN r.out = 1 .. Len(r.out)
      BY <3>1
    <3> QED
      BY <3>2
  <2>2. samples[r.out[k][1]][r.out[k][2]] <= samples[r.out[k + 1][1]][r.out[k + 1][2]]
    BY <1>4, <1>5 DEF InOrder, Stamp
  <2> QED
    BY <1>7, <2>1, <2>2
<1>9. Apart => Owed'
  <2> SUFFICES ASSUME Apart, NEW x \in known
               PROVE  /\ x[1] \in Sub /\ x[2] \in DOMAIN samples'[x[1]]
                      /\ \/ x \in ToSet(r.out)
                         \/ /\ r.pc = "sample"
                            /\ \E j \in r.rec .. Len(r.top) :
                                  /\ Head(r.top[j].blocks) = x[1]
                                  /\ samples'[x[1]][x[2]] \in r.top[j].s .. r.top[j].e
                                  /\ j = r.rec => r.i < x[2]
    BY <1>1 DEF Owed, ToCome, Stamp
  <2>1. /\ x[1] \in Sub /\ x[2] \in DOMAIN samples[x[1]]
        /\ \/ x \in ToSet(r.out)
           \/ /\ r.pc = "sample"
              /\ \E j \in r.rec .. Len(r.top) :
                    /\ Head(r.top[j].blocks) = x[1]
                    /\ samples[x[1]][x[2]] \in r.top[j].s .. r.top[j].e
                    /\ j = r.rec => r.i < x[2]
    BY <1>5 DEF Owed, ToCome, Stamp
  <2>2. x[2] \in DOMAIN samples'[x[1]] /\ samples'[x[1]][x[2]] = samples[x[1]][x[2]]
    BY <1>6, <2>1
  <2> QED
    BY <2>1, <2>2
<1>10. CASE r.pc # "sample"
  BY <1>1, <1>5, <1>7, <1>8, <1>9, <1>10 DEF ReaderSound, ReaderType
<1>11. SUFFICES ASSUME r.pc = "sample" PROVE Holds' /\ InLine'
  BY <1>1, <1>5, <1>7, <1>8, <1>9, <1>10 DEF ReaderSound, ReaderType
<1> DEFINE s == r.sub
           last == r.out[Len(r.out)]
           t == samples[last[1]][last[2]]
<1>12. /\ shallow /\ s \in Sub /\ r.i \in 1 .. Len(samples[s]) /\ Len(samples[s]) \in Nat
       /\ \A j \in 1 .. Len(r.top) :
             \A x \in r.top[j].s .. r.top[j].e : LeadsTo(master, Head(r.top[j].blocks), x)
       /\ \A j \in 1 .. Len(r.top) : r.top[j].s \in Nat /\ r.top[j].e \in Nat
       /\ r.from \in Nat /\ Len(r.out) \in Nat /\ r.out # <<>>
       /\ Len(r.out) \in 1 .. Len(r.out) /\ DOMAIN r.out = 1 .. Len(r.out)
       /\ \A k \in 1 .. Len(r.out) :
             /\ r.out[k][1] \in Sub /\ r.out[k][2] \in 1 .. Len(samples[r.out[k][1]])
       /\ r.last \in Nat /\ r.last <= Len(samples[s])
  BY <1>4, <1>11, ReaderHas
<1>13. Holds /\ InLine
  BY <1>5, <1>11
<1>14. \A c, x \in Nat : LeadsTo(master, c, x) => LeadsTo(master', c, x)
  <2>1. CASE TransferRange
    BY <2>1, RangeKeepsMaster
  <2>2. CASE ~TransferRange
    <3>1. ~Transfer
      BY <1>12 DEF MasterInv, ToolSound, Transfer
    <3>2. master' = master
      BY <2>2, <3>1 DEF MasterNext, masterVars, AddChannel, AddSample, AddNothing, StartRun,
                        ReadTree, Interrupt
    <3> QED
      BY <3>2
  <2> QED
    BY <2>1, <2>2
<1>15. Holds'
  <2>1. \A j \in 1 .. Len(r.top) : \A x \in r.top[j].s .. r.top[j].e :
           LeadsTo(master', Head(r.top[j].blocks), x)
    <3> TAKE j \in 1 .. Len(r.top)
    <3> TAKE x \in r.top[j].s .. r.top[j].e
    <3>1. LeadsTo(master, Head(r.top[j].blocks), x) /\ x \in Nat
      BY <1>12
    <3>2. Head(r.top[j].blocks) \in Nat
      BY <1>1, <3>1, LedTo DEF MasterTypeOK
    <3> QED
      BY <1>14, <3>1, <3>2
  <2>2. /\ r.rec \in 1 .. Len(r.top) /\ Ordered(r.top) /\ r.top[r.rec].s # 0
        /\ r.sub = Head(r.top[r.rec].blocks) /\ r.sub \in Sub
    BY <1>13 DEF Holds
  <2>3. r.i \in DOMAIN samples'[r.sub] /\ r.last <= Len(samples'[r.sub])
    <3>1. Len(samples[s]) <= Len(samples'[s]) /\ Len(samples'[s]) \in Nat
      BY <1>6, <1>12
    <3>2. r.last <= Len(samples'[s])
      BY <1>12, <3>1
    <3> QED
      BY <1>6, <1>12, <3>2
  <2> QED
    BY <1>1, <2>1, <2>2, <2>3 DEF Holds
<1>16. t = samples'[last[1]][last[2]]
  BY <1>7, <1>12
<1>17. InLine'
  <2>1. /\ \A j \in 1 .. Len(r.top) : r.rec < j => t <= r.top[j].s
        /\ \A m \in 1 .. Len(samples[s]) : r.i < m => t <= samples[s][m] /\ r.from <= samples[s][m]
        /\ t <= Last(samples[s]) /\ r.from <= Last(samples[s])
    BY <1>6, <1>12, <1>13 DEF InLine, Stamp
  <2>2. t \in Nat
    BY <1>12, SampleOrder
  <2> HIDE DEF t
  <2>3. /\ samples[s] # <<>> /\ Last(samples[s]) \in Nat
        /\ Len(samples[s]) \in 1 .. Len(samples[s]) /\ Last(samples[s]) = samples[s][Len(samples[s])]
    BY <1>12, SampleOrder
  <2>4. /\ Last(samples'[s]) \in Nat /\ Last(samples[s]) <= Last(samples'[s])
        /\ \A m \in 1 .. Len(samples'[s]) :
              \/ m \in 1 .. Len(samples[s])
              \/ /\ samples'[s][m] \in Nat
                 /\ \A i \in 1 .. Len(samples[s]) : samples[s][i] < samples'[s][m]
    BY <1>12, <2>3, SamplesGrow
  <2>5. \A m \in 1 .. Len(samples'[s]) : r.i < m => t <= samples'[s][m] /\ r.from <= samples'[s][m]
    <3> TAKE m \in 1 .. Len(samples'[s])
    <3> HAVE r.i < m
    <3>1. CASE m \in 1 .. Len(samples[s])
      BY <1>6, <1>12, <2>1, <3>1
    <3>2. CASE m \notin 1 .. Len(samples[s])
      <4>1. samples'[s][m] \in Nat /\ Last(samples[s]) < samples'[s][m]
        BY <2>3, <2>4, <3>2
      <4>2. t <= Last(samples[s]) /\ r.from <= Last(samples[s])
        BY <2>1
      <4>3. t \in Nat /\ r.from \in Nat /\ Last(samples[s]) \in Nat
        BY <1>12, <2>2, <2>3
      <4> QED
        BY <4>1, <4>2, <4>3
    <3> QED
      BY <3>1, <3>2
  <2>6. t <= Last(samples'[s]) /\ r.from <= Last(samples'[s])
    BY <1>12, <2>1, <2>2, <2>3, <2>4
  <2>7. t = samples'[r.out[Len(r.out)][1]][r.out[Len(r.out)][2]]
    BY <1>16 DEF t
  <2> QED
    BY <1>1, <1>6, <1>12, <2>1, <2>5, <2>6, <2>7 DEF InLine, Stamp
<1> QED
  BY <1>15, <1>17

\* Without a reader there is nothing to be returned.
LEMMA ReaderInitHolds ==
    ASSUME Init
    PROVE  ReaderInv
<1>1. /\ r = NoReader /\ known = {} /\ master = <<>>
      /\ samples = [s \in Sub |-> <<>>]
  BY DEF Init, MasterInit
<1>2. NoReader \in ReaderType /\ NoReader.out = <<>> /\ NoReader.pc = "none"
      /\ "null" \in DOMAIN NoReader /\ "pc" \in DOMAIN NoReader
  BY DEF NoReader, ReaderType
<1>3. ShallowSound /\ TreesLead
  BY <1>1 DEF ShallowSound, Ordered, TreesLead
<1>4. InOrder
  BY <1>1, <1>2 DEF InOrder
<1>5. ReaderSound
  BY <1>1, <1>2 DEF ReaderSound, ReaderType, Owed
<1> QED
  BY <1>1, <1>2, <1>3, <1>4, <1>5 DEF ReaderInv

\* The inductive invariant of the reader beside tool and engines.
THEOREM ReaderSoundly == Spec => []ReaderInv
<1>1. Init => ReaderInv
  BY ReaderInitHolds
<1>2. MasterInv /\ ReaderInv /\ [ReadNext]_vars => ReaderInv'
  <2> SUFFICES ASSUME MasterInv, ReaderInv, [ReadNext]_vars PROVE ReaderInv'
    OBVIOUS
  <2>1. [MasterNext]_masterVars
    BY ReadNextOfMaster
  <2>2. CASE UNCHANGED <<r, known>>
    BY <2>1, <2>2, OthersKeepReader
  <2>3. CASE ReadNext /\ UNCHANGED masterVars /\ r.null
    BY <2>3, NullKeeps
  <2>4. CASE ~r.null /\ \E t \in Start : Find(t)
    BY <2>4, FindKeeps, StartAssumption
  <2>5. CASE ~r.null /\ NextInBlock
    BY <2>5, InBlockKeeps
  <2>6. CASE ~r.null /\ NextBeyondLast
    BY <2>6, BeyondLastKeeps
  <2>7. CASE ~r.null /\ NextOfInvalid
    BY <2>7, InvalidKeeps
  <2>8. CASE ~r.null /\ NextBlockOfTop
    BY <2>8, TopKeeps
  <2>9. CASE UNCHANGED vars
    BY <2>2, <2>9 DEF vars
  <2>10. CASE ReadNext
    <3>1. MasterNext /\ UNCHANGED <<r, known>> => UNCHANGED <<r, known>>
      OBVIOUS
    <3>2. (\E t \in Start : Find(t)) \/ NextInBlock \/ NextBeyondLast \/ NextOfInvalid \/ NextBlockOfTop
          => UNCHANGED masterVars
      BY DEF Find, NextInBlock, NextBeyondLast, NextOfInvalid, NextBlockOfTop
    <3> QED
      BY <2>2, <2>3, <2>4, <2>5, <2>6, <2>7, <2>8, <2>10, <3>1, <3>2 DEF ReadNext
  <2> QED
    BY <2>9, <2>10
<1>3. Spec => []MasterInv
  BY MasterSoundly
<1> QED
  BY <1>1, <1>2, <1>3, PTL DEF Spec

\* ShallowIndexRawDataReaderEA3::next: the reader returns the samples of all sub-archives in
\* the order of their stamps, also if these overlap and the tool changes the index between
\* its calls, unless it began at a null range.
THEOREM ReadsInOrder == Spec => []InOrder
<1>1. ReaderInv => InOrder
  BY DEF ReaderInv
<1> QED
  BY <1>1, ReaderSoundly, PTL

\* If no sub-archive overlaps with another, a reader that went beyond the top index, came to
\* the end or failed has returned all samples that the index covered when it was started,
\* from the first one returned on, unless it began at a null range.
THEOREM ReadsAll == Apart => (Spec => []AllReturned)
<1>1. ASSUME Apart, ReaderInv PROVE AllReturned
  BY <1>1 DEF ReaderInv, ReaderSound, AllReturned, Owed, NoReader
<1> SUFFICES ASSUME Apart PROVE Spec => []AllReturned
  OBVIOUS
<1>2. ReaderInv => AllReturned
  BY <1>1
<1> QED
  BY <1>2, ReaderSoundly, PTL
=============================================================================
