----------------------------- MODULE FileSpace -----------------------------
(***************************************************************************)
(* What FileAllocator.h promises to those who call it: a block belongs to  *)
(* its owner, whole and unmoved, until the owner frees it.  How the space  *)
(* between the blocks is managed is not their concern.                     *)
(***************************************************************************)
EXTENDS Naturals

CONSTANTS Request,          \* numbers of bytes that are asked for
          Start             \* the first offset that a block may have

VARIABLE blocks             \* what callers own: offset and number of bytes

Block == [at : Nat, bytes : Nat]

Apart(b, c) == b.at + b.bytes <= c.at \/ c.at + c.bytes <= b.at

-----------------------------------------------------------------------------
Init == blocks = {}

(* Any place will do that overlaps no block, with room for the request. *)
Allocate(n) == \E b \in blocks' \ blocks :
    /\ b \in Block
    /\ b.at >= Start
    /\ b.bytes >= n
    /\ \A c \in blocks : Apart(b, c)
    /\ blocks' = blocks \cup {b}

Release(b) == blocks' = blocks \ {b}

Next == (\E n \in Request : Allocate(n)) \/ (\E b \in blocks : Release(b))

Spec == Init /\ [][Next]_blocks
=============================================================================
