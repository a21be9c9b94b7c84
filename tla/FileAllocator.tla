--------------------------- MODULE FileAllocator ---------------------------
(***************************************************************************)
(* FileAllocator: the space of an index file, as blocks that are allocated *)
(* or free.  A node in front of each block links it into one of two lists, *)
(* sorted by offset, whose heads are nodes at the beginning of the file.   *)
(*                                                                         *)
(* An operation is a sequence of single node writes, computed here on a    *)
(* record that remembers every state of the file on the way: the program   *)
(* may die with any of them on the disk.                                   *)
(***************************************************************************)
EXTENDS Naturals, FiniteSets, FiniteSetsExt

CONSTANTS Request,          \* numbers of bytes that are asked for
          NodeSize,         \* bytes of a node
          Reserved,         \* bytes before the heads of the lists
          MinimumSize,      \* minimum_size
          MaxFileSize,      \* a file may not grow to this size
          MaxAfter          \* bound: operations that follow a crash

ASSUME SizeAssumption ==
    /\ NodeSize \in Nat \ {0} /\ Reserved \in Nat \ {0}
    /\ MinimumSize \in Nat /\ MaxFileSize \in Nat /\ MaxAfter \in Nat
    /\ Request \subseteq Nat \ {0}

VARIABLES disk,             \* the nodes in the file, by offset
          size,             \* file_size, which is where the file ends
          held,             \* the blocks that callers have and use
          crashed,          \* whether the program has died once
          after             \* how many operations there were since

vars == <<disk, size, held, crashed, after>>

None == 0                   \* no node
Used == Reserved            \* allocated_head
Avail == Reserved + NodeSize    \* free_head
First == Reserved + 2 * NodeSize    \* where the first node may be

(* A node.  In a head, bytes is a sum, prev the last and next the first of *)
(* the nodes in the list.                                                  *)
Node == [bytes : Nat, prev : Nat, next : Nat]

Empty == [bytes |-> 0, prev |-> None, next |-> None]

-----------------------------------------------------------------------------
(* Steps of an operation.  op.disk and op.size are the file as it is now,  *)
(* op.past the ways it has been since the operation began, and op.ok turns *)
(* false when an exception ends it.                                        *)

Begin == [disk |-> disk, size |-> size, ok |-> TRUE,
          past |-> {[disk |-> disk, size |-> size]}]

Write(op, o, n) ==
    IF ~op.ok THEN op
    ELSE LET d == [x \in DOMAIN op.disk \cup {o} |-> IF x = o THEN n ELSE op.disk[x]]
         IN [op EXCEPT !.disk = d,
                       !.past = @ \cup {[disk |-> d, size |-> op.size]}]

(* mutant: the link back is forgotten *)
KeepPrev(op, o, p) == op

SetPrev(op, o, p) ==
    IF o = None THEN op ELSE Write(op, o, [op.disk[o] EXCEPT !.prev = p])

SetNext(op, o, n) == Write(op, o, [op.disk[o] EXCEPT !.next = n])

(* addBytes asserts that there are as many bytes as it takes away. *)
Assert(op, cond) == [op EXCEPT !.ok = @ /\ cond]

(* The node that the walk of remove_node finds in front of o; None when it *)
(* comes to the end of the list, or the list is empty, where the code goes *)
(* on at offset 0 and finds no node either.                                *)
Before(d, h, o) ==
    LET walk[p \in DOMAIN d \cup {None}] ==
            IF p = None \/ d[p].next = o THEN p ELSE walk[d[p].next]
    IN walk[d[h].next]

RemoveNode(op, h, o) ==
    LET head == op.disk[h]
        n == op.disk[o]
        p == Before(op.disk, h, o)
        unlinked == SetPrev(SetNext(op, p, n.next), n.next, p)
    IN CASE head.next = o ->
              LET a == Assert(op, head.bytes >= n.bytes)
              IN Write(SetPrev(a, n.next, None), h,
                       [bytes |-> head.bytes - n.bytes, next |-> n.next,
                        prev |-> IF n.next = None THEN None ELSE head.prev])
         [] head.next # o /\ p = None -> Assert(op, FALSE)
         [] head.next # o /\ p # None ->
              Write(Assert(unlinked, head.bytes >= n.bytes), h,
                    [head EXCEPT !.bytes = @ - n.bytes,
                                 !.prev = IF @ = o THEN n.prev ELSE @])

(* The node after which o belongs in a list that begins before o. *)
Place(d, h, o) ==
    LET walk[p \in DOMAIN d] ==
            IF d[p].next # None /\ d[p].next < o THEN walk[d[p].next] ELSE p
    IN walk[d[h].next]

InsertNode(op, h, o, bytes) ==
    LET head == op.disk[h]
        first == head.next
        p == Place(op.disk, h, o)
        succ == op.disk[p].next
        New(prev, next) ==
            Write(op, o, [bytes |-> bytes, prev |-> prev, next |-> next])
    IN CASE first = None ->
              Write(New(None, None), h,
                    [bytes |-> head.bytes + bytes, prev |-> o, next |-> o])
         [] first # None /\ o < first ->
              Write(SetPrev(New(None, first), first, o), h,
                    [head EXCEPT !.bytes = @ + bytes, !.next = o])
         [] first # None /\ o >= first ->
              Write(SetNext(SetPrev(New(p, succ), succ, o), p, o), h,
                    [head EXCEPT !.bytes = @ + bytes,
                                 !.prev = IF @ = p THEN o ELSE @])

-----------------------------------------------------------------------------
(* allocate: the three ways to find a block of n bytes *)

Enough(n) == Max({n, MinimumSize})

(* mutant: the node in front is counted as room *)
FirstFitWithNode(n) ==
    LET walk[o \in DOMAIN disk \cup {None}] ==
            IF o = None \/ disk[o].bytes + NodeSize >= n THEN o ELSE walk[disk[o].next]
    IN walk[disk[Avail].next]

(* The first node in the free list with enough bytes, or None. *)
FirstFit(n) ==
    LET walk[o \in DOMAIN disk \cup {None}] ==
            IF o = None \/ disk[o].bytes >= n THEN o ELSE walk[disk[o].next]
    IN walk[disk[Avail].next]

(* mutant: no room is left for the second node *)
Smaller(o, n) == disk[o].bytes < n + MinimumSize

TooSmallToSplit(o, n) == disk[o].bytes < n + NodeSize + MinimumSize

(* mutant: entered into the second list before it leaves the first *)
TakeTwice(op, o) ==
    RemoveNode(InsertNode(op, Used, o, op.disk[o].bytes), Avail, o)

TakeWhole(op, o) ==
    InsertNode(RemoveNode(op, Avail, o), Used, o, op.disk[o].bytes)

SplitOff(op, o, n) ==
    LET left == op.disk[o].bytes - NodeSize - n
        enough == Assert(op, op.disk[Avail].bytes >= NodeSize + n)
        shrunk == Write(enough, o, [op.disk[o] EXCEPT !.bytes = left])
        counted == Write(shrunk, Avail, [op.disk[Avail] EXCEPT !.bytes = @ - NodeSize - n])
    IN InsertNode(counted, Used, o + NodeSize + left, n)

(* The file grows first; an existing last node is linked to the new one. *)
AppendNode(op, n) ==
    LET o == op.size
        tail == op.disk[Used].prev
        longer == [op EXCEPT !.size = @ + NodeSize + n,
                             !.past = @ \cup {[disk |-> op.disk, size |-> o + NodeSize + n]}]
        new == Write(longer, o, [bytes |-> n, prev |-> tail, next |-> None])
        linked == IF tail = None THEN new ELSE SetNext(new, tail, o)
    IN Write(linked, Used, [bytes |-> op.disk[Used].bytes + n, prev |-> o,
                            next |-> IF op.disk[Used].next = None THEN o ELSE op.disk[Used].next])

(* free: the node moves from one list to the other, then it is merged with *)
(* a free neighbour on either side.  A merged node is forgotten: its bytes *)
(* are inside the other's block now, and nobody may read them as a node.   *)

End(d, o) == o + NodeSize + d[o].bytes

Forget(op, o) == [op EXCEPT !.disk = [x \in DOMAIN @ \ {o} |-> @[x]]]

(* Node b follows a in the list and in the file; a takes it in. *)
Merge(op, a, b) ==
    LET d == op.disk
        next == d[b].next
        larger == Write(op, a, [d[a] EXCEPT !.bytes = @ + NodeSize + d[b].bytes,
                                            !.next = next])
        passed == SetPrev(larger, next, a)
        head == [d[Avail] EXCEPT !.bytes = @ + NodeSize,
                                 !.prev = IF next = None THEN a ELSE @]
    IN Forget(Write(passed, Avail, head), b)

(* mutant: merged with what comes next in the list, wherever that is *)
MergeWithNext(op, a, b) == IF op.ok /\ a # None /\ b # None THEN Merge(op, a, b) ELSE op

MergeIfAdjacent(op, a, b) ==
    IF op.ok /\ a # None /\ b # None /\ End(op.disk, a) = b THEN Merge(op, a, b) ELSE op

(* mutant: stays in the list of allocated blocks *)
FreeOnly(op, o) == InsertNode(op, Avail, o, op.disk[o].bytes)

(* mutant: not merged with the block behind *)
FreeAndMergeLeft(op, o) ==
    LET moved == InsertNode(RemoveNode(op, Used, o), Avail, o, op.disk[o].bytes)
    IN MergeIfAdjacent(moved, moved.disk[o].prev, o)

FreeNode(op, o) ==
    LET moved == InsertNode(RemoveNode(op, Used, o), Avail, o, op.disk[o].bytes)
        prev == moved.disk[o].prev
        left == MergeIfAdjacent(moved, prev, o)
        current == IF o \in DOMAIN left.disk THEN o ELSE prev
    IN MergeIfAdjacent(left, current, left.disk[current].next)

-----------------------------------------------------------------------------
(* A block is named by the offset of its node. *)

Init ==
    /\ disk = [o \in {Used, Avail} |-> Empty]
    /\ size = First
    /\ held = {}
    /\ crashed = FALSE
    /\ after = 0

(* The operation returns, or leaves with an exception what it has written. *)
Complete(op, owned) ==
    /\ disk' = op.disk
    /\ size' = op.size
    /\ held' = owned
    /\ crashed => after < MaxAfter
    /\ after' = IF crashed THEN after + 1 ELSE 0
    /\ UNCHANGED crashed

(* Which of the three ways allocate goes, and which block it returns. *)
Allocation(n) == LET o == FirstFit(Enough(n)) IN
    CASE o = None -> AppendNode(Begin, Enough(n))
      [] o # None /\ TooSmallToSplit(o, Enough(n)) -> TakeWhole(Begin, o)
      [] o # None /\ ~TooSmallToSplit(o, Enough(n)) -> SplitOff(Begin, o, Enough(n))

AllocatedAt(n) == LET o == FirstFit(Enough(n)) IN
    CASE o = None -> size
      [] o # None /\ TooSmallToSplit(o, Enough(n)) -> o
      [] o # None /\ ~TooSmallToSplit(o, Enough(n)) -> End(disk, o) - Enough(n) - NodeSize

(* It is refused, without any change, when the file would become too large. *)
CanAllocate(n) ==
    \/ FirstFit(Enough(n)) # None
    \/ size + NodeSize + Enough(n) < MaxFileSize

Allocate(n) == LET op == Allocation(n) IN
    /\ CanAllocate(n)
    /\ Complete(op, IF op.ok THEN held \cup {AllocatedAt(n)} ELSE held)

(* Callers free only what they hold, and have stopped using it then. *)
Release(o) ==
    /\ o \in held
    /\ Complete(FreeNode(Begin, o), held \ {o})

(* The program dies while it allocates or frees, and the file is attached  *)
(* again as it was after one of the writes.                                *)
DieIn(op, owned) ==
    /\ ~crashed
    /\ crashed' = TRUE
    /\ \E file \in op.past : disk' = file.disk /\ size' = file.size
    /\ held' = owned
    /\ UNCHANGED after

DieAllocating(n) == CanAllocate(n) /\ DieIn(Allocation(n), held)

DieFreeing(o) == o \in held /\ DieIn(FreeNode(Begin, o), held \ {o})

Next ==
    \/ \E n \in Request : Allocate(n) \/ DieAllocating(n)
    \/ \E o \in held : Release(o) \/ DieFreeing(o)

Spec == Init /\ [][Next]_vars

-----------------------------------------------------------------------------
(* The nodes that a list leads to. *)
Listed(h) ==
    LET walk[o \in DOMAIN disk \cup {None}] ==
            IF o = None THEN {} ELSE {o} \cup walk[disk[o].next]
    IN walk[disk[h].next]

Nodes == Listed(Used) \cup Listed(Avail)

Apart(a, b) == End(disk, a) <= b \/ End(disk, b) <= a

LastOf(S) == IF S = {} THEN None ELSE Max(S)
FirstOf(S) == IF S = {} THEN None ELSE Min(S)

(* The nodes in the file are nodes, and lie in the file after the heads. *)
TypeOK ==
    /\ {Used, Avail} \cup held \subseteq DOMAIN disk
    /\ \A o \in DOMAIN disk : disk[o] \in Node
    /\ \A o \in DOMAIN disk \ {Used, Avail} : o >= First /\ End(disk, o) <= size
    /\ size \in First .. MaxFileSize
    /\ crashed \in BOOLEAN
    /\ after \in 0 .. MaxAfter

(* Both lists are sorted, lead forward and back to the same nodes, and     *)
(* their heads know the last node and the sum of the bytes: what dump()    *)
(* tests of prev pointers and byte counts, and the tail, which it does not *)
(* look at but the next allocation relies on.                              *)
ListsSound == ~crashed =>
    \A h \in {Used, Avail} :
        /\ disk[h].prev = LastOf(Listed(h))
        /\ disk[h].bytes = MapThenSumSet(LAMBDA o : disk[o].bytes, Listed(h))
        /\ \A o \in Listed(h) :
               /\ disk[o].prev = LastOf({p \in Listed(h) : p < o})
               /\ disk[o].next = FirstOf({p \in Listed(h) : p > o})

(* Without a crash every byte after the heads belongs to exactly one block *)
(* of one list: dump() finds no gap and the file size computes.            *)
NoGaps == ~crashed =>
    /\ Listed(Used) \cap Listed(Avail) = {}
    /\ \A a, b \in Nodes : a # b => Apart(a, b)
    /\ Nodes \cup {size} = {First} \cup {End(disk, o) : o \in Nodes}

(* No two blocks that are held, allocated or free share a byte, so that    *)
(* what is allocated next damages nobody: the allocator keeps track of     *)
(* allocated blocks.                                                       *)
HeldApart ==
    /\ \A a, b \in held \cup Nodes : a # b => Apart(a, b)
    /\ held \cap Listed(Avail) = {}
    /\ Listed(Used) \cap Listed(Avail) = {}

(* When the program dies between two writes, the file it leaves has lost   *)
(* bytes at worst: no two blocks share any.  This rests on the order of    *)
(* the writes in allocate and free.                                        *)
CrashOnlyLoses == [][~crashed /\ crashed' => HeldApart']_vars

(* Without a crash, the list of allocated blocks is what callers hold: no  *)
(* space is lost, and each block can be found when it is freed.            *)
HeldListed == ~crashed => Listed(Used) = held

(* Freed neighbours are merged at once, so that free space is one block    *)
(* when no block in use lies in it.                                        *)
Merged == ~crashed =>
    \A a, b \in Listed(Avail) : End(disk, a) # b

(* What callers see is FileSpace, as long as the program does not die. *)
Blocks == {[at |-> o + NodeSize, bytes |-> disk[o].bytes] : o \in held}

Space == INSTANCE FileSpace WITH Start <- First, blocks <- Blocks

ImplementsFileSpace ==
    Space!Init /\ [][~crashed' => Space!Next \/ UNCHANGED Blocks]_vars
=============================================================================
