-------------------------------- MODULE RTree --------------------------------
(***************************************************************************)
(* The tree that an index file keeps for a channel: RTree.cpp with its     *)
(* nodes, their intervals, and the links between parents and children.     *)
(* All that a caller sees of it is a sequence of records in time order,    *)
(* the index of module ChannelIndex, which this module implements.         *)
(*                                                                         *)
(* A node is kept without its unused records, which are always behind the  *)
(* used ones; the chain of data blocks under a record is the sequence of   *)
(* the blocks.  The operators compute the tree as it is after an operation *)
(* of RTree, with all the nodes that it writes.                            *)
(***************************************************************************)
EXTENDS Naturals, Sequences, SequencesExt, FiniteSets

CONSTANTS
    Time,         \* the time stamps, natural numbers; 0 is the null time
    Block,        \* the data blocks
    Spans,        \* Spans[b]: the time ranges that block b may be given
    M,            \* records in a node
    MaxRecords    \* bound: records in the leaves before an operation

ASSUME MAssumption == M \in Nat /\ M > 2

VARIABLES
    tree,         \* the root, and the nodes by their offset in the file
    given         \* history: the time range of each block in the tree

vars == <<tree, given>>

None == 0         \* no node

Empty == [leaf |-> TRUE, parent |-> None, recs |-> <<>>]

Leaf(x, chain) == [s |-> x.s, e |-> x.e, blocks |-> chain, child |-> None]
Inner(x, id) == [s |-> x.s, e |-> x.e, blocks |-> <<>>, child |-> id]
SpanOf(r) == [s |-> r.s, e |-> r.e]

Overlap(x, y) == ~(x.e <= y.s \/ y.e <= x.s)

\* Node::getInterval: the union of the records; not valid for an empty node.
Interval(n) ==
    IF n.recs = <<>>
    THEN [s |-> 0, e |-> 0]
    ELSE [s |-> Min({n.recs[i].s : i \in DOMAIN n.recs}),
          e |-> Max({n.recs[i].e : i \in DOMAIN n.recs})]

Put(t, id, n) ==
    [t EXCEPT !.nodes = [k \in DOMAIN t.nodes \cup {id} |->
                            IF k = id THEN n ELSE t.nodes[k]]]
Free(t, id) ==
    [t EXCEPT !.nodes = [k \in DOMAIN t.nodes \ {id} |-> t.nodes[k]]]
SetParent(t, id, p) == [t EXCEPT !.nodes[id].parent = p]
SetRange(t, id, i, x) ==
    [t EXCEPT !.nodes[id].recs[i] = [@ EXCEPT !.s = x.s, !.e = x.e]]
NewId(t) == Min((1 .. Cardinality(DOMAIN t.nodes) + 1) \ DOMAIN t.nodes)
FindRecordByID(n, id) == CHOOSE i \in DOMAIN n.recs : n.recs[i].child = id

-----------------------------------------------------------------------------
(* Going down.                                                             *)

Enlargement(r, x) ==
    (Max({r.e, x.e}) - Min({r.s, x.s})) - (r.e - r.s)

\* Node::chooseLeaf: the first child that overlaps, else the rightmost of
\* those that have to be enlarged least.
RECURSIVE ChooseLeaf(_, _, _)
ChooseLeaf(t, id, x) ==
    LET recs  == t.nodes[id].recs
        over  == {i \in DOMAIN recs : Overlap(recs[i], x)}
        least == {i \in DOMAIN recs : \A j \in DOMAIN recs :
                     Enlargement(recs[i], x) <= Enlargement(recs[j], x)}
        child == recs[IF over # {} THEN Min(over) ELSE Max(least)].child
    IN  IF t.nodes[id].leaf THEN id ELSE ChooseLeaf(t, child, x)

\* RTree::getFirstRecord and getLastRecord, as <<node, record>>; <<>> when
\* there is none.
RECURSIVE LowestUnder(_, _), HighestUnder(_, _)
LowestUnder(t, id) ==
    LET n == t.nodes[id]
    IN  IF n.recs = <<>> THEN <<>>
        ELSE IF n.leaf THEN <<id, 1>>
        ELSE LowestUnder(t, n.recs[1].child)
HighestUnder(t, id) ==
    LET n == t.nodes[id]
    IN  IF n.recs = <<>> THEN <<>>
        ELSE IF n.leaf THEN <<id, Len(n.recs)>>
        ELSE HighestUnder(t, Last(n.recs).child)

\* A mutant of SearchUnder: the record that starts at the time is skipped.
RECURSIVE SearchUnder(_, _, _)
SearchBefore(t, id, time) ==
    LET n      == t.nodes[id]
        before == {i \in DOMAIN n.recs : n.recs[i].s < time}
    IN  IF before = {} THEN <<>>
        ELSE IF n.leaf THEN <<id, Max(before)>>
        ELSE SearchUnder(t, n.recs[Max(before)].child, time)

\* RTree::search: at each level the rightmost record that starts at or before
\* the time; the first record of all when the time is before the root.
SearchUnder(t, id, time) ==
    LET n      == t.nodes[id]
        before == {i \in DOMAIN n.recs : n.recs[i].s <= time}
    IN  IF before = {} THEN <<>>
        ELSE IF n.leaf THEN <<id, Max(before)>>
        ELSE SearchUnder(t, n.recs[Max(before)].child, time)
Search(t, time) ==
    LET recs == t.nodes[t.root].recs
    IN  IF recs # <<>> /\ time < recs[1].s
        THEN LowestUnder(t, t.root)
        ELSE SearchUnder(t, t.root, time)

\* PrivateDatablock::prev_next: the neighbour in the node, or else up over the
\* parents to the first that has a neighbour, and down again on its near side.
RECURSIVE NextAbove(_, _), PrevAbove(_, _)
NextAbove(t, id) ==
    LET p == t.nodes[id].parent
        i == FindRecordByID(t.nodes[p], id) + 1
    IN  IF p = None THEN <<>>
        ELSE IF i \in DOMAIN t.nodes[p].recs
             THEN LowestUnder(t, t.nodes[p].recs[i].child)
        ELSE NextAbove(t, p)
PrevAbove(t, id) ==
    LET p == t.nodes[id].parent
        i == FindRecordByID(t.nodes[p], id) - 1
    IN  IF p = None THEN <<>>
        ELSE IF i \in DOMAIN t.nodes[p].recs
             THEN HighestUnder(t, t.nodes[p].recs[i].child)
        ELSE PrevAbove(t, p)
NextRecord(t, at) ==
    IF at[2] + 1 \in DOMAIN t.nodes[at[1]].recs
    THEN <<at[1], at[2] + 1>>
    ELSE NextAbove(t, at[1])
PrevRecord(t, at) ==
    IF at[2] - 1 \in DOMAIN t.nodes[at[1]].recs
    THEN <<at[1], at[2] - 1>>
    ELSE PrevAbove(t, at[1])

-----------------------------------------------------------------------------
(* Changing a node, and what follows from it up to the root.               *)

\* A mutant of MoveChildren: the children do not learn of their new parent.
LeaveChildren(t, id) == t

\* RTree::adjust_tree: the children that moved to an overflow node.
MoveChildren(t, id) ==
    LET moved == {t.nodes[id].recs[i].child : i \in DOMAIN t.nodes[id].recs}
    IN  [t EXCEPT !.nodes = [k \in DOMAIN @ |->
            IF k \in moved THEN [@[k] EXCEPT !.parent = id] ELSE @[k]]]

\* Node::insertRecord, as [tree, over]: over is the node that the records from
\* the cut on went to, None when they all fit.
InsertRecord(t, id, i, r) ==
    LET n    == t.nodes[id]
        all  == InsertAt(n.recs, i, r)
        cut  == M \div 2 + 1
        over == NewId(t)
    IN  IF Len(all) <= M
        THEN [tree |-> Put(t, id, [n EXCEPT !.recs = all]), over |-> None]
        ELSE [tree |-> Put(Put(t, id, [n EXCEPT !.recs = SubSeq(all, 1, cut)]),
                           over, [leaf   |-> n.leaf,
                                  parent |-> None,
                                  recs   |-> SubSeq(all, cut + 1, M + 1)]),
              over |-> over]

\* RTree::adjust_tree at the root: the tree grows taller.
NewRoot(t, id, new) ==
    LET top == NewId(t)
        n   == [leaf |-> FALSE, parent |-> None,
                recs |-> <<Inner(Interval(t.nodes[id]), id),
                           Inner(Interval(t.nodes[new]), new)>>]
    IN  [SetParent(SetParent(Put(t, top, n), id, top), new, top)
            EXCEPT !.root = top]

ParentRange(t, p, id) ==
    SetRange(t, p, FindRecordByID(t.nodes[p], id), Interval(t.nodes[id]))

\* RTree::adjust_tree: the parent gets the interval of the node and, when there
\* is a new node, a record for it, which may overflow in turn.
RECURSIVE AdjustTree(_, _, _)
AdjustTree(t, id, new) ==
    LET p      == t.nodes[id].parent
        t1     == ParentRange(t, p, id)
        recs   == t1.nodes[p].recs
        x      == Interval(t.nodes[new])
        behind == {i \in DOMAIN recs : x.e <= recs[i].s}
        i      == IF behind = {} THEN Len(recs) + 1 ELSE Min(behind)
        ins    == InsertRecord(t1, p, i, Inner(x, new))
        t2     == SetParent(ins.tree, new, p)
    IN  CASE p = None /\ new = None -> t
          [] p = None /\ new # None -> NewRoot(t, id, new)
          [] p # None /\ new = None -> AdjustTree(t1, p, None)
          [] OTHER ->
               IF ins.over = None
               THEN AdjustTree(t2, p, None)
               ELSE AdjustTree(MoveChildren(t2, ins.over), p, ins.over)

\* A mutant of CondenseTree: any node with one child gives way to it.
RECURSIVE CondenseTree(_, _)
CondenseAny(t, id) ==
    LET n    == t.nodes[id]
        p    == n.parent
        i    == FindRecordByID(t.nodes[p], id)
        only == n.recs[1].child
    IN  IF p = None
        THEN IF ~n.leaf /\ Len(n.recs) = 1
             THEN Free([SetParent(t, only, None) EXCEPT !.root = only], id)
             ELSE t
        ELSE IF n.recs = <<>>
        THEN CondenseTree([Free(t, id) EXCEPT
                              !.nodes[p].recs = RemoveAt(@, i)], p)
        ELSE IF ~n.leaf /\ Len(n.recs) = 1
        THEN CondenseTree(Free([SetParent(t, only, p) EXCEPT
                              !.nodes[p].recs[i] = n.recs[1]], id), p)
        ELSE CondenseTree(ParentRange(t, p, id), p)

\* RTree::condense_tree: an empty node leaves its parent, and a root with one
\* child gives way to it.
CondenseTree(t, id) ==
    LET n == t.nodes[id]
        p == n.parent
        i == FindRecordByID(t.nodes[p], id)
    IN  IF p = None
        THEN IF ~n.leaf /\ Len(n.recs) = 1
             THEN Free([SetParent(t, n.recs[1].child, None)
                           EXCEPT !.root = n.recs[1].child], id)
             ELSE t
        ELSE IF n.recs = <<>>
        THEN CondenseTree([Free(t, id) EXCEPT
                              !.nodes[p].recs = RemoveAt(@, i)], p)
        ELSE CondenseTree(ParentRange(t, p, id), p)

-----------------------------------------------------------------------------
(* The operations on data blocks, as [tree, new] with what they return.    *)

\* Mutants of AddToRecord: without the test for a block that is there, and with
\* the block at the head of the chain.
AddAgain(t, id, i, b) ==
    [tree |-> [t EXCEPT !.nodes[id].recs[i].blocks = Append(@, b)], new |-> TRUE]
AddInFront(t, id, i, b) ==
    IF Contains(t.nodes[id].recs[i].blocks, b)
    THEN [tree |-> t, new |-> FALSE]
    ELSE [tree |-> [t EXCEPT !.nodes[id].recs[i].blocks = <<b>> \o @],
          new  |-> TRUE]

\* Node::addToRecord: at the end of the chain, unless the block is in it.
AddToRecord(t, id, i, b) ==
    IF Contains(t.nodes[id].recs[i].blocks, b)
    THEN [tree |-> t, new |-> FALSE]
    ELSE [tree |-> [t EXCEPT !.nodes[id].recs[i].blocks = Append(@, b)],
          new  |-> TRUE]

RECURSIVE InsertDatablock(_, _, _)

Then(op, x, b) ==
    LET next == InsertDatablock(op.tree, x, b)
    IN  [tree |-> next.tree, new |-> op.new \/ next.new]

\* A mutant of SplitRecord: only the first block of the chain is copied.
SplitFirst(t, id, i, cut) ==
    LET r     == t.nodes[id].recs[i]
        short == AdjustTree(SetRange(t, id, i, [s |-> r.s, e |-> cut]), id, None)
    IN  InsertDatablock(short, [s |-> cut, e |-> r.e], Head(r.blocks)).tree

\* RTree::split_record: the record ends at the cut, and its blocks are inserted
\* again from the cut to the old end.
SplitRecord(t, id, i, cut) ==
    LET r     == t.nodes[id].recs[i]
        short == AdjustTree(SetRange(t, id, i, [s |-> r.s, e |-> cut]), id, None)
        Again(op, b) == InsertDatablock(op.tree, [s |-> cut, e |-> r.e], b)
    IN  FoldLeft(Again, [tree |-> short, new |-> FALSE], r.blocks).tree

NewRecord(t, id, i, x, b) ==
    LET ins == InsertRecord(t, id, i, Leaf(x, <<b>>))
    IN  [tree |-> AdjustTree(ins.tree, id, ins.over), new |-> TRUE]

\* RTree::insertDatablock: one leaf is chosen; the range is cut at the ends of
\* the record it overlaps there, and the pieces start again from the root.
InsertDatablock(t, x, b) ==
    LET id     == ChooseLeaf(t, t.root, x)
        recs   == t.nodes[id].recs
        beyond == {k \in DOMAIN recs : recs[k].e > x.s}
        i      == IF beyond = {} THEN Len(recs) + 1 ELSE Min(beyond)
        r      == recs[i]
        Add    == AddToRecord(t, id, i, b)
        Cut(c) == [tree |-> SplitRecord(t, id, i, c), new |-> FALSE]
        Until(c) == [s |-> x.s, e |-> c]
        From(c)  == [s |-> c, e |-> x.e]
        Both(c)  == [s |-> r.s, e |-> c]
    IN  CASE i > Len(recs) \/ x.e <= r.s -> NewRecord(t, id, i, x, b)
          [] SpanOf(r) = x                -> Add
          [] r.s = x.s /\ r.e < x.e      -> Then(Add, From(r.e), b)
          [] r.s < x.s /\ r.e < x.e      ->
               Then(Then(Cut(x.s), Until(r.e), b), From(r.e), b)
          [] x.s < r.s /\ x.e = r.e      -> Then(Add, Until(r.s), b)
          [] x.s < r.s /\ x.e < r.e      ->
               Then(Then(Cut(x.e), Until(r.s), b), From(r.s), b)
          [] x.s < r.s /\ r.e < x.e      ->
               Then(Then(Add, Until(r.s), b), From(r.e), b)
          [] r.s = x.s /\ x.e < r.e      -> Then(Cut(x.e), x, b)
          [] r.s < x.s /\ x.e <= r.e     -> Then(Cut(x.s), x, b)

\* A mutant of UpdateLastDatablock: the last record may have other blocks too.
StretchShared(t, x, b) ==
    LET at == HighestUnder(t, t.root)
        r  == t.nodes[at[1]].recs[at[2]]
    IN  IF at # <<>> /\ r.s = x.s /\ r.e <= x.e /\ Head(r.blocks) = b
        THEN [tree |-> AdjustTree(SetRange(t, at[1], at[2], x), at[1], None),
              new  |-> FALSE]
        ELSE InsertDatablock(t, x, b)

\* RTree::updateLastDatablock: when the block is the only one of the last record
\* and only its end moved on, the record is stretched; otherwise the range is
\* inserted, and no earlier entry of the block is removed.
UpdateLastDatablock(t, x, b) ==
    LET at == HighestUnder(t, t.root)
        r  == t.nodes[at[1]].recs[at[2]]
    IN  IF at # <<>> /\ r.s = x.s /\ r.e <= x.e /\ r.blocks = <<b>>
        THEN [tree |-> AdjustTree(SetRange(t, at[1], at[2], x), at[1], None),
              new  |-> FALSE]
        ELSE InsertDatablock(t, x, b)

\* RTree::removeDatablock for a node: the first record with the block among
\* those that overlap the range, as <<node, record>>; <<>> when there is none.
RECURSIVE ReferenceUnder(_, _, _, _)
ReferenceUnder(t, id, x, b) ==
    LET n     == t.nodes[id]
        At(i) == IF ~n.leaf THEN ReferenceUnder(t, n.recs[i].child, x, b)
                 ELSE IF Contains(n.recs[i].blocks, b) THEN <<id, i>>
                 ELSE <<>>
        hits  == {i \in DOMAIN n.recs : Overlap(x, n.recs[i]) /\ At(i) # <<>>}
    IN  IF hits = {} THEN <<>> ELSE At(Min(hits))

\* Node::removeFromRecord and RTree::remove_record.
RemoveFromRecord(t, at, b) ==
    LET id   == at[1]
        rest == SelectSeq(t.nodes[id].recs[at[2]].blocks, LAMBDA c : c # b)
    IN  IF rest # <<>>
        THEN [t EXCEPT !.nodes[id].recs[at[2]].blocks = rest]
        ELSE CondenseTree([t EXCEPT !.nodes[id].recs = RemoveAt(@, at[2])], id)

\* RTree::removeDatablock: one reference after the other, each time from the
\* root, since removing one may change the nodes.
RECURSIVE RemoveDatablock(_, _, _)
RemoveDatablock(t, x, b) ==
    LET at == ReferenceUnder(t, t.root, x, b)
    IN  IF at = <<>> THEN t ELSE RemoveDatablock(RemoveFromRecord(t, at, b), x, b)

-----------------------------------------------------------------------------
\* The records of the leaves from left to right.
RECURSIVE RecordsUnder(_, _)
RecordsUnder(t, id) ==
    LET n == t.nodes[id]
        OfLeaf(i)  == <<[s |-> n.recs[i].s, e |-> n.recs[i].e,
                         blocks |-> n.recs[i].blocks]>>
        OfChild(i) == RecordsUnder(t, n.recs[i].child)
    IN  FlattenSeq([i \in DOMAIN n.recs |->
                       IF n.leaf THEN OfLeaf(i) ELSE OfChild(i)])
Records == RecordsUnder(tree, tree.root)

CI == INSTANCE ChannelIndex WITH index <- Records
Flat(idx) == INSTANCE ChannelIndex WITH index <- idx

\* RTree::init: an empty leaf.
Init ==
    /\ tree = [root |-> 1, nodes |-> [k \in {1} |-> Empty]]
    /\ given = <<>>

\* After removals the root may be a node without children.  There chooseLeaf
\* uses record[-1], and what an insertion does then is left open.
HasLeaf == tree.nodes[tree.root].leaf \/ tree.nodes[tree.root].recs # <<>>

InsertBlock(b, x) ==
    /\ HasLeaf
    /\ b \notin DOMAIN given
    /\ Len(Records) < MaxRecords
    /\ tree' = InsertDatablock(tree, x, b).tree
    /\ given' = [c \in DOMAIN given \cup {b} |-> IF c = b THEN x ELSE given[c]]

UpdateBlock(b, x) ==
    /\ b \in DOMAIN given
    /\ given[b].s = x.s /\ given[b].e <= x.e
    /\ Len(Records) < MaxRecords
    /\ tree' = UpdateLastDatablock(tree, x, b).tree
    /\ given' = [given EXCEPT ![b] = x]

RemoveBlock(b) ==
    /\ b \in DOMAIN given
    /\ tree' = RemoveDatablock(tree, given[b], b)
    /\ given' = [c \in DOMAIN given \ {b} |-> given[c]]

Next ==
    \E b \in Block :
        \/ \E x \in Spans[b] : InsertBlock(b, x)
        \/ \E x \in Spans[b] : UpdateBlock(b, x)
        \/ RemoveBlock(b)

Spec == Init /\ [][Next]_vars

-----------------------------------------------------------------------------
(* Properties.                                                             *)

RECURSIVE NodesUnder(_, _)
NodesUnder(t, id) ==
    {id} \cup UNION {NodesUnder(t, t.nodes[id].recs[i].child) :
                        i \in {j \in DOMAIN t.nodes[id].recs : ~t.nodes[id].leaf}}

\* What Node::selfTest asserts: children know their parents, a parent has the
\* interval of each child, records are in order and do not overlap.  Beyond it,
\* every node in the file is in the tree: none is lost, none used after free.
TreeSound ==
    /\ DOMAIN tree.nodes = NodesUnder(tree, tree.root)
    /\ tree.nodes[tree.root].parent = None
    /\ \A id \in DOMAIN tree.nodes :
          LET n == tree.nodes[id]
          IN  /\ Len(n.recs) <= M
              /\ id # tree.root => n.recs # <<>>
              /\ \A i \in DOMAIN n.recs :
                    /\ n.recs[i].s # 0 /\ n.recs[i].s <= n.recs[i].e
                    /\ i > 1 => n.recs[i - 1].e <= n.recs[i].s
                    /\ ~n.leaf => /\ tree.nodes[n.recs[i].child].parent = id
                                  /\ Interval(tree.nodes[n.recs[i].child])
                                         = SpanOf(n.recs[i])

\* All leaves are at the same depth, however the tree grew and shrank.
RECURSIVE Depth(_, _)
Depth(t, id) ==
    IF t.nodes[id].parent = None THEN 0 ELSE 1 + Depth(t, t.nodes[id].parent)
Balanced ==
    \A a, b \in {id \in DOMAIN tree.nodes : tree.nodes[id].leaf} :
        Depth(tree, a) = Depth(tree, b)

\* Walking forward from the first record, or back from the last, visits each
\* record once and in order, and search finds what a search of the flat index
\* finds: the links between the nodes do not show.
RECURSIVE WalkOn(_, _), WalkBack(_, _)
WalkOn(t, at) == IF at = <<>> THEN <<>> ELSE <<at>> \o WalkOn(t, NextRecord(t, at))
WalkBack(t, at) == IF at = <<>> THEN <<>> ELSE WalkBack(t, PrevRecord(t, at)) \o <<at>>
WalksAgree ==
    LET walk == WalkOn(tree, LowestUnder(tree, tree.root))
        flat == Records
    IN  /\ WalkBack(tree, HighestUnder(tree, tree.root)) = walk
        /\ Len(walk) = Len(flat)
        /\ \A k \in DOMAIN walk :
              LET r == tree.nodes[walk[k][1]].recs[walk[k][2]]
              IN  SpanOf(r) = SpanOf(flat[k]) /\ r.blocks = flat[k].blocks
        /\ \A time \in Time \ {0} :
              LET k == CI!SearchRecord(flat, time)
              IN  Search(tree, time) = IF k = 0 THEN <<>> ELSE walk[k]

\* The tree behaves as the flat index: every operation changes the records as
\* the operation of ChannelIndex does.
ImplementsChannelIndex == CI!IndexSpec

\* No piece of a range is lost or invented on the way through the nodes: at each
\* moment the records name exactly the blocks whose ranges contain it.
CoversExactly == LET idx == Records IN Flat(idx)!CoversExactly

\* A range that is inserted again changes nothing, so that an index that is
\* updated over and over does not grow: what RTree.h says of insertDatablock.
AgainIsNop ==
    \A b \in DOMAIN given :
        InsertDatablock(tree, given[b], b) = [tree |-> tree, new |-> FALSE]

\* On the way through the nodes too, the block that is used for a moment stays
\* the same until it is removed: what ChannelIndex states.
FirstStays ==
    [][\A old \in {Records}, new \in {Records'} : CI!SameFirst(old, new)]_vars

=============================================================================
