----------------------------- MODULE TimeIndex -----------------------------
(***************************************************************************)
(* The time index of one channel: what src/src/common/storage/RTree.cpp    *)
(* keeps in the records of a leaf.  A record is a time interval s..e with  *)
(* the chain of data blocks that hold samples of that interval, the first  *)
(* block of a chain being the one that is used for retrieval.              *)
(*                                                                         *)
(* An index is the sequence of those records from left to right, that is   *)
(* an RTree of one leaf: with the default of 50 records per node it is the *)
(* whole tree of most channels.  The operators only compute with indices;  *)
(* DataWriter and RawDataReader keep them in their state.                  *)
(***************************************************************************)
EXTENDS Naturals, Sequences, SequencesExt

CONSTANT Time    \* the time stamps, natural numbers; 0 is the null time

ASSUME TimeAssumption == Time \subseteq Nat /\ 0 \in Time

\* A block is identified by its data file and its offset in there: one number.
Record == [s : Time, e : Time, blocks : Seq(Nat)]

\* Node::addToRecord: a block that is already in the chain is not added again,
\* another one goes to the end of the chain.
AddToRecord(idx, i, b) ==
    IF Contains(idx[i].blocks, b)
    THEN idx
    ELSE [idx EXCEPT ![i].blocks = Append(@, b)]

\* RTree::split_record: record i ends at the cut, and a new record from the
\* cut to the old end gets the same blocks in the same order.
SplitRecord(idx, i, cut) ==
    InsertAt([idx EXCEPT ![i].e = cut], i + 1, [idx[i] EXCEPT !.s = cut])

\* The loop head of RTree::insertDatablock: the records that end at or before
\* the new range are skipped.  Touching is not overlapping.
InsertionPoint(idx, n0) ==
    LET beyond == {i \in 1..Len(idx) : idx[i].e > n0}
    IN  IF beyond = {} THEN Len(idx) + 1 ELSE Min(beyond)

(***************************************************************************)
(* One call of RTree::insertDatablock, which calls itself as Insert.  The  *)
(* range is cut at the ends of the records it overlaps: the pieces that    *)
(* match a record add the block to the record, the others become records   *)
(* of their own.                                                           *)
(***************************************************************************)
Insertion(Insert, idx, n0, n1, b) ==
    LET i      == InsertionPoint(idx, n0)
        o0     == idx[i].s
        o1     == idx[i].e
        Added  == AddToRecord(idx, i, b)
        Cut(t) == SplitRecord(idx, i, t)
    IN  IF i > Len(idx) \/ n1 <= o0
        THEN InsertAt(idx, i, [s |-> n0, e |-> n1, blocks |-> <<b>>])
        ELSE CASE o0 = n0 /\ o1 = n1 -> Added
               [] o0 = n0 /\ o1 < n1 -> Insert[<<Added, o1, n1>>]
               [] o0 < n0 /\ o1 < n1 ->
                    Insert[<<Insert[<<Cut(n0), n0, o1>>], o1, n1>>]
               [] n0 < o0 /\ o0 < n1 /\ n1 = o1 -> Insert[<<Added, n0, o0>>]
               [] n0 < o0 /\ o0 < n1 /\ n1 < o1 ->
                    Insert[<<Insert[<<Cut(n1), n0, o0>>], o0, n1>>]
               [] n0 < o0 /\ o1 < n1 ->
                    Insert[<<Insert[<<Added, n0, o0>>], o1, n1>>]
               [] o0 = n0 /\ n0 < n1 /\ n1 < o1 -> Insert[<<Cut(n1), n0, n1>>]
               [] o0 < n0 /\ n1 <= o1 -> Insert[<<Cut(n0), n0, n1>>]

\* The index, and the range that is left of the one that is inserted.
Calls == Seq(Record) \X Time \X Time

InsertDatablock(index0, start, end, b) ==
    LET Insert[call \in Calls] == Insertion(Insert, call[1], call[2], call[3], b)
    IN  Insert[<<index0, start, end>>]

\* A mutant of UpdateLastDatablock: any block stretches the last record.
StretchAny(idx, s, e, b) ==
    LET n == Len(idx)
    IN  IF n > 0 /\ idx[n].s = s /\ idx[n].e <= e
        THEN [idx EXCEPT ![n].e = e]
        ELSE InsertDatablock(idx, s, e, b)

\* RTree::updateLastDatablock: when the block is the only one of the last
\* record and only its end time moved on, the record is stretched; otherwise
\* the range is inserted, and no earlier entry of the block is removed.
UpdateLastDatablock(idx, s, e, b) ==
    LET n == Len(idx)
    IN  IF n > 0 /\ idx[n].s = s /\ idx[n].e <= e /\ idx[n].blocks = <<b>>
        THEN [idx EXCEPT ![n].e = e]
        ELSE InsertDatablock(idx, s, e, b)

\* Interval::overlaps: touching is not overlapping.
Overlap(x, y) == ~(x.e <= y.s \/ y.e <= x.s)

\* The elements of a sequence at the places of keep, in their order.
Picked(s, keep) ==
    LET Upto[k \in 0 .. Len(s)] ==
            IF k = 0 THEN <<>>
            ELSE IF k \in keep THEN Append(Upto[k - 1], s[k])
            ELSE Upto[k - 1]
    IN  Upto[Len(s)]

\* RTree::removeDatablock: the block leaves every record that overlaps the
\* range, and a record whose chain is empty then goes away.
Without(x, s, e, b) ==
    IF Overlap([s |-> s, e |-> e], x)
    THEN [x EXCEPT !.blocks = Picked(@, {k \in DOMAIN @ : @[k] # b})]
    ELSE x

RemoveDatablock(idx, s, e, b) ==
    Picked([i \in DOMAIN idx |-> Without(idx[i], s, e, b)],
           {i \in DOMAIN idx : Without(idx[i], s, e, b).blocks # <<>>})

\* RTree::search: the rightmost record that starts at or before t, the first
\* one when t is before all of them; 0 when there is none.
SearchRecord(idx, t) ==
    LET before == {i \in 1..Len(idx) : idx[i].s <= t}
    IN  CASE idx = <<>>                 -> 0
          [] idx # <<>> /\ t < idx[1].s -> 1
          [] OTHER                      -> Max(before)

\* RTree::getLastDatablock: the block that retrieval uses for the last record.
LastDatablock(idx) == Head(idx[Len(idx)].blocks)

\* The records follow each other in time; they may touch.
Ordered(idx) ==
    \A k \in 1..Len(idx) :
        /\ idx[k].s <= idx[k].e
        /\ \A j \in 1..Len(idx) : k < j => idx[k].e <= idx[j].s

\* At time t the index leads to block b.
LeadsTo(idx, b, t) ==
    \E k \in 1..Len(idx) : idx[k].s <= t /\ t <= idx[k].e /\ b \in ToSet(idx[k].blocks)

=============================================================================
