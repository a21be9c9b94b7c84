---------------------------- MODULE MasterIndex -----------------------------
(***************************************************************************)
(* The index tool, which updates a master index from the indices of the    *)
(* sub-archives of one channel while engines go on adding to those.  A     *)
(* full index gets every data block; a shallow one gets for each           *)
(* sub-archive the range of its tree, with the sub-archive as the block.   *)
(* A channel is added to the index of a sub-archive before it has a        *)
(* record, and a block without samples has the null range: there are empty *)
(* trees, and trees with records that start and end at time 0.             *)
(*                                                                         *)
(* The name table and the files of the indices are those of IndexFile;     *)
(* channels do not touch each other's trees.                               *)
(***************************************************************************)
EXTENDS TimeIndex, FiniteSets

CONSTANTS
    Subs,          \* the number of sub-archives, in the order of the list file
    Stamps,        \* Stamps[s]: the times that sub-archive s may get samples for
    MaxBlocks,     \* bound: data blocks of a sub-archive
    MaxRuns        \* bound: runs of the tool

ASSUME SubsAssumption ==
    /\ Subs \in Nat \ {0}
    /\ \A s \in 1 .. Subs : Stamps[s] \subseteq Time \ {0}
    /\ MaxBlocks \in Nat

VARIABLES
    samples,       \* the stamps of the samples in each sub-archive
    added,         \* the sub-archives that have the channel in their index
    tree,          \* the index of each sub-archive
    blocks,        \* the number of its data blocks
    shallow,       \* which kind of index the tool makes
    master,        \* the tree in the master index
    tool,          \* where the tool is
    seen,          \* history: the index of each sub-archive that went into master
    torn           \* history: the sub-archives in whose blocks a run was stopped

masterVars == <<samples, added, tree, blocks, shallow, master, tool, seen, torn>>

Sub == 1 .. Subs
BlockId(s, n) == Subs * n + s

\* Interval::isValid fails.
Null(x) == x.s = 0 \/ x.e = 0

\* No sub-archive is being added.
Idle == [pc |-> "idle", sub |-> 0, src |-> <<>>, k |-> 0, runs |-> 0]

MasterInit ==
    /\ samples = [s \in Sub |-> <<>>]
    /\ added = {}
    /\ tree = [s \in Sub |-> <<>>]
    /\ blocks = [s \in Sub |-> 0]
    /\ shallow \in BOOLEAN
    /\ master = <<>>
    /\ tool = Idle
    /\ seen = [s \in Sub |-> <<>>]
    /\ torn = {}

\* The engine of a sub-archive has its channel added to the index.
AddChannel(s) ==
    /\ s \notin added
    /\ added' = added \cup {s}
    /\ UNCHANGED <<samples, tree, blocks, shallow, master, tool, seen, torn>>

\* It adds a sample, to a new data block or to that of the last record, and tells
\* its index.
AddSample(s, t) ==
    /\ s \in added /\ t \in Stamps[s]
    /\ \A i \in DOMAIN samples[s] : samples[s][i] < t
    /\ samples' = [samples EXCEPT ![s] = Append(@, t)]
    /\ \/ /\ blocks[s] < MaxBlocks
          /\ blocks' = [blocks EXCEPT ![s] = @ + 1]
          /\ tree' = [tree EXCEPT ![s] = UpdateLastDatablock(@, t, t, BlockId(s, blocks'[s]))]
       \/ /\ tree[s] # <<>>
          /\ LET last == Last(tree[s])
             IN  tree' = [tree EXCEPT ![s] =
                            UpdateLastDatablock(@, IF Null(last) THEN t ELSE last.s, t,
                                                LastDatablock(tree[s]))]
          /\ UNCHANGED blocks
    /\ UNCHANGED <<added, shallow, master, tool, seen, torn>>

\* It makes a new data block, and stops before there is a sample for it.
AddNothing(s) ==
    /\ s \in added /\ blocks[s] < MaxBlocks
    /\ blocks' = [blocks EXCEPT ![s] = @ + 1]
    /\ tree' = [tree EXCEPT ![s] = UpdateLastDatablock(@, 0, 0, BlockId(s, blocks'[s]))]
    /\ UNCHANGED <<samples, added, shallow, master, tool, seen, torn>>

\* MasterIndex::create: from one sub-index to the next.
StartRun ==
    /\ tool.pc = "idle" /\ tool.runs < MaxRuns
    /\ tool' = [tool EXCEPT !.pc = "sub", !.sub = 1, !.runs = @ + 1]
    /\ UNCHANGED <<samples, added, tree, blocks, shallow, master, seen, torn>>
NextSub(s) == [tool EXCEPT !.pc = IF s = Subs THEN "idle" ELSE "sub", !.sub = s + 1]

\* MasterIndex::addSubindex: a sub-index without the channel is passed over.  A full
\* index is filled from the last record of the tree as it is now, if there is one;
\* a shallow one gets the range of the tree.  RTree::getInterval throws when a
\* record of that has no valid range, and then the channel is passed over.
ReadTree ==
    /\ tool.pc = "sub"
    /\ LET src == tree[tool.sub]
       IN  tool' = IF \/ tool.sub \notin added
                      \/ ~shallow /\ src = <<>>
                      \/ shallow /\ \E i \in DOMAIN src : Null(src[i])
                   THEN NextSub(tool.sub)
                   ELSE [tool EXCEPT !.pc = IF shallow THEN "range" ELSE "block",
                                     !.src = src, !.k = Len(src)]
    /\ UNCHANGED <<samples, added, tree, blocks, shallow, master, seen, torn>>

\* RTree::updateLastDatablock returns true for a new entry only.
Stretches(idx, s, e, b) ==
    idx # <<>> /\ idx[Len(idx)].s = s /\ idx[Len(idx)].e <= e
               /\ idx[Len(idx)].blocks = <<b>>
IsNew(idx, s, e, b) ==
    ~Stretches(idx, s, e, b) /\ UpdateLastDatablock(idx, s, e, b) # idx

\* A mutant of NextBlock: from the start to the end.
NextFromStart(k) == Len(tool.src) - k + 1

\* The records are taken from the end to the start.
NextBlock(k) == k

\* MasterIndex::addChannelInfo: "Stop when finding a block that was already in
\* the target index."
Transfer ==
    /\ tool.pc = "block"
    /\ LET x == tool.src[NextBlock(tool.k)]
           more == IsNew(master, x.s, x.e, Head(x.blocks)) /\ tool.k > 1
       IN  /\ master' = UpdateLastDatablock(master, x.s, x.e, Head(x.blocks))
           /\ tool' = IF more THEN [tool EXCEPT !.k = @ - 1] ELSE NextSub(tool.sub)
           /\ seen' = IF more THEN seen ELSE [seen EXCEPT ![tool.sub] = tool.src]
    /\ UNCHANGED <<samples, added, tree, blocks, shallow, torn>>

\* RTree::getInterval: that of an empty tree is the null range.
RangeOf(idx) == IF idx = <<>> THEN [s |-> 0, e |-> 0] ELSE [s |-> idx[1].s, e |-> Last(idx).e]

\* ShallowIndex::addChannelInfo.
TransferRange ==
    /\ tool.pc = "range"
    /\ LET range == RangeOf(tool.src)
       IN  master' = UpdateLastDatablock(master, range.s, range.e, tool.sub)
    /\ tool' = NextSub(tool.sub)
    /\ seen' = [seen EXCEPT ![tool.sub] = tool.src]
    /\ UNCHANGED <<samples, added, tree, blocks, shallow, torn>>

\* A signal clears run, which every loop looks at.
Interrupt ==
    /\ tool.pc # "idle"
    /\ tool' = [tool EXCEPT !.pc = "idle"]
    /\ torn' = IF tool.pc = "block" THEN torn \cup {tool.sub} ELSE torn
    /\ UNCHANGED <<samples, added, tree, blocks, shallow, master, seen>>

MasterNext ==
    \/ \E s \in Sub : AddChannel(s)
    \/ \E s \in Sub, t \in Time : AddSample(s, t)
    \/ \E s \in Sub : AddNothing(s)
    \/ StartRun
    \/ ReadTree
    \/ Transfer
    \/ TransferRange
    \/ Interrupt

-----------------------------------------------------------------------------
\* The records of an index that t lies in.
Holding(idx, t) == {i \in DOMAIN idx : idx[i].s <= t /\ t <= idx[i].e}

Covered(s) ==
    \A i \in DOMAIN seen[s] : \A t \in (seen[s][i].s .. seen[s][i].e) \ {0} :
        \E j \in Holding(master, t) :
            (IF shallow THEN s ELSE Head(seen[s][i].blocks)) \in ToSet(master[j].blocks)

\* After the tool has taken over the index of a sub-archive, the master index leads
\* to its blocks, or to the sub-archive, at each moment that the index did when it
\* was read, although earlier blocks are not looked at again once a known one is
\* met, and blocks have grown since the last run.
MasterCovers == \A s \in Sub \ torn : Covered(s)

\* "References every data block in all sub archives", also when an earlier run was
\* stopped in the middle of a sub-archive.
MasterComplete == \A s \in Sub : Covered(s)

\* "References each channel and its time range in all sub-archives": a sub-archive
\* with samples is not passed over.
EachRange ==
    [][ReadTree /\ shallow /\ samples[tool.sub] # <<>> => tool'.pc = "range"]_masterVars

-----------------------------------------------------------------------------
(***************************************************************************)
(* Why MasterCovers holds: blocks grow at their end only, so a block that  *)
(* is not the last one of its tree does not change any more; and a block   *)
(* that is in the master with a sample came there after all later ones, in *)
(* a run that went on to the first or to one that an earlier run had       *)
(* entered.                                                                *)
(***************************************************************************)
\* The type invariant.
MasterTypeOK ==
    /\ samples \in [Sub -> Seq(Time)] /\ added \subseteq Sub
    /\ tree \in [Sub -> Seq(Record)] /\ blocks \in [Sub -> 0 .. MaxBlocks]
    /\ shallow \in BOOLEAN /\ master \in Seq(Record)
    /\ tool \in [pc : {"idle", "sub", "block", "range"}, sub : Nat,
                 src : Seq(Record), k : Nat, runs : Nat]
    /\ seen \in [Sub -> Seq(Record)] /\ torn \subseteq Sub

StampsOf(s) == ToSet(samples[s])

\* An index of sub-archive s with so many blocks: null records first, then one record
\* for each block with samples, in the order of blocks and of time.
IndexOf(s, idx, stamps, count) ==
    /\ Ordered(idx)
    /\ \A n \in 1 .. Len(idx) :
          /\ \E b \in 1 .. count : idx[n].blocks = <<BlockId(s, b)>>
          /\ \/ idx[n].s = 0 /\ idx[n].e = 0
             \/ idx[n].s \in stamps /\ idx[n].e \in stamps
          /\ \A m \in 1 .. Len(idx) :
                n < m /\ ~Null(idx[n]) => Head(idx[n].blocks) < Head(idx[m].blocks)

SubSound(s) ==
    /\ IndexOf(s, tree[s], StampsOf(s), blocks[s])
    /\ \A i \in DOMAIN samples[s] :
          /\ samples[s][i] \in Stamps[s]
          /\ \A j \in DOMAIN samples[s] : i < j => samples[s][i] < samples[s][j]

\* The records of an index that have samples.
Filled(idx) == {idx[n] : n \in {m \in 1 .. Len(idx) : ~Null(idx[m])}}

\* An index and a later state of it: no block is lost, and those before a known block
\* were there, and are as they were.
Earlier(old, new) ==
    \A x \in Filled(old) :
        /\ \E y \in Filled(new) : y.blocks = x.blocks
        /\ \A y \in Filled(new) : Head(y.blocks) < Head(x.blocks) => y \in Filled(old)

ToolSound ==
    /\ \A s \in Sub : /\ IndexOf(s, seen[s], StampsOf(s), blocks[s])
                      /\ Earlier(seen[s], tree[s])
    /\ tool.pc # "idle" => tool.sub \in Sub
    /\ tool.pc \in {"block", "range"} =>
          /\ IndexOf(tool.sub, tool.src, StampsOf(tool.sub), blocks[tool.sub])
          /\ Earlier(tool.src, tree[tool.sub]) /\ Earlier(seen[tool.sub], tool.src)
    /\ tool.pc = "block" => ~shallow /\ tool.k \in 1 .. Len(tool.src)
    /\ tool.pc = "range" => shallow /\ \A i \in 1 .. Len(tool.src) : ~Null(tool.src[i])

\* The master index leads to the block at the time of a sample.
Known(b) == \E t \in Time \ {0} : LeadsTo(master, b, t)

\* The records of the master.  In a full index, a block that is in it with a sample
\* was entered in a complete update, or in the one that goes on; that one has entered
\* all from k on.
FullSound ==
    /\ Ordered(master)
    /\ \A j \in 1 .. Len(master) : /\ master[j].blocks # <<>>
                                   /\ master[j].s = 0 => master[j].e = 0
    /\ ~shallow =>
          /\ \A s \in Sub \ torn : \A n \in 1 .. MaxBlocks :
                Known(BlockId(s, n)) =>
                   \/ \E x \in Filled(seen[s]) : x.blocks = <<BlockId(s, n)>>
                   \/ /\ tool.pc = "block" /\ tool.sub = s
                      /\ \E m \in 1 .. Len(tool.src) :
                            /\ tool.k < m /\ ~Null(tool.src[m])
                            /\ tool.src[m].blocks = <<BlockId(s, n)>>
          /\ tool.pc = "block" =>
                \A n \in 1 .. Len(tool.src) : tool.k < n =>
                   \A t \in tool.src[n].s .. tool.src[n].e :
                      LeadsTo(master, Head(tool.src[n].blocks), t)

\* The inductive invariant of the tool beside the engines.
MasterInv ==
    MasterTypeOK /\ (\A s \in Sub : SubSound(s)) /\ ToolSound /\ FullSound /\ MasterCovers

=============================================================================
