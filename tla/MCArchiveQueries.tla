-------------------------- MODULE MCArchiveQueries --------------------------
(***************************************************************************)
(* ArchiveQueries for model checking: the requests are all those with at   *)
(* most three queries, with and without a start and an end.                *)
(***************************************************************************)
EXTENDS ArchiveQueries

FilterRead == <<"filter", "read">>

MCRequests ==
    {[coll |-> "archive", queries |-> FilterRead, start |-> 0, end |-> e, limit |-> l] :
        e \in {0, 3}, l \in {1, 2}}
    \cup
    {[coll |-> c, queries |-> s, start |-> 0, end |-> 0, limit |-> 0] :
        c \in {"archive", "unknown", "info", "archives"},
        s \in {<<>>, <<"filter">>, <<"other">>, <<"filter", "other">>,
               <<"filter", "read", "other">>}}

\* For two threads.
MCFewRequests ==
    {[coll |-> "archive", queries |-> FilterRead, start |-> 0, end |-> 0, limit |-> 2]}

\* The data files do not differ.
FileSymmetry == Permutations(File)
=============================================================================
