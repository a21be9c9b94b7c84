------------------------------- MODULE MCRTree -------------------------------
EXTENDS RTree

\* Bounds.  Blocks 1 .. Loaded cover one moment each and come in order of time,
\* as when an index is built, which gives nodes on three levels.  Block
\* Loaded + 1 has the range Wide and may join them.  These come and go
\* once, with at most one moment missing between others.  Without them, the
\* other blocks come and go with any ranges of at least MinLength that end by
\* Short.
CONSTANTS Loaded, Short, MinLength

VARIABLE gone    \* the blocks up to Loaded + 1 that were removed

Ranges == {x \in [s : Time, e : Time] : x.s # 0 /\ x.s + MinLength <= x.e}
Wide == {[s |-> 2, e |-> 6]}
MCSpans == [b \in Block |->
               IF b <= Loaded THEN {[s |-> b, e |-> b + 1]}
               ELSE IF b = Loaded + 1 THEN Wide
               ELSE {x \in Ranges : x.e <= Short}]

Small(S) == \A b \in S : b > Loaded + 1
Large(S) ==
    LET moments == S \cap (1 .. Loaded)
    IN  /\ \A b \in S : b <= Loaded + 1
        /\ moments = {} \/ Cardinality((Min(moments) .. Max(moments)) \ moments) <= 1

MCInit == Init /\ gone = {}
MCNext ==
    /\ Next
    /\ gone' = gone \cup {b \in DOMAIN given \ DOMAIN given' : b <= Loaded + 1}
    /\ \/ Small(DOMAIN given') /\ gone' = {}
       \/ /\ Large(DOMAIN given')
          /\ \A b \in DOMAIN given' \ DOMAIN given :
                /\ b \notin gone
                /\ b <= Loaded => 1 .. b - 1 \subseteq DOMAIN given \cup gone
MCSpec == MCInit /\ [][MCNext]_<<vars, gone>>

=============================================================================
