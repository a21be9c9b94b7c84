---------------------------- MODULE ChannelIndex ----------------------------
(***************************************************************************)
(* What the time index of a channel promises its callers, as a sequence of *)
(* records: the operations of RTree on the data blocks of one channel,     *)
(* called in any order that the comments in RTree.h allow.  A block is     *)
(* inserted once, with its time range; the end of that range may move on   *)
(* later; the same range may be inserted again, which master indices do    *)
(* for all blocks at each update.                                          *)
(***************************************************************************)
EXTENDS TimeIndex

CONSTANTS
    Block,        \* the data blocks
    Spans         \* Spans[b]: the time ranges that block b may be given

VARIABLES
    index,     \* the records of the tree
    given      \* history: the time range of each block in the index

indexVars == <<index, given>>

IndexInit == index = <<>> /\ given = <<>>

\* A block that is not in the index.
InsertBlock(b, x) ==
    /\ b \notin DOMAIN given
    /\ given' = [c \in DOMAIN given \cup {b} |-> IF c = b THEN x ELSE given[c]]
    /\ index' = InsertDatablock(index, x.s, x.e, b)

\* A block again, with the same start and with the same or a later end.
UpdateBlock(b, x) ==
    /\ b \in DOMAIN given
    /\ given[b].s = x.s /\ given[b].e <= x.e
    /\ given' = [given EXCEPT ![b] = x]
    /\ index' = UpdateLastDatablock(index, x.s, x.e, b)

RemoveBlock(b) ==
    /\ b \in DOMAIN given
    /\ given' = [c \in DOMAIN given \ {b} |-> given[c]]
    /\ index' = RemoveDatablock(index, given[b].s, given[b].e, b)

IndexNext ==
    \E b \in Block :
        \/ \E x \in Spans[b] : InsertBlock(b, x)
        \/ \E x \in Spans[b] : UpdateBlock(b, x)
        \/ RemoveBlock(b)

IndexSpec == IndexInit /\ [][IndexNext]_indexVars

-----------------------------------------------------------------------------
\* The records that hold the time from t to t + 1.
At(idx, t) == {i \in DOMAIN idx : idx[i].s <= t /\ t + 1 <= idx[i].e}

\* No piece of a range is lost or invented: at each moment the records name
\* exactly the blocks whose ranges contain it.
CoversExactly ==
    \A t \in Time : \A b \in Block :
        (\E i \in At(index, t) : b \in ToSet(index[i].blocks))
            <=> b \in DOMAIN given /\ given[b].s <= t /\ t + 1 <= given[b].e

\* Node::addToRecord: "Adding to the end of the chain means: We will still see
\* the 'off' event upon retrieval!"  The block that is used for a moment stays
\* the same until it is removed, however later blocks overlap it.
SameFirst(old, new) ==
    \A t \in Time : \A i \in At(old, t), j \in At(new, t) :
        Head(old[i].blocks) \in DOMAIN given'
            => Head(new[j].blocks) = Head(old[i].blocks)
FirstStays == [][SameFirst(index, index')]_indexVars

=============================================================================
