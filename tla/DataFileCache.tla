--------------------------- MODULE DataFileCache ---------------------------
(***************************************************************************)
(* The data files that a process has open: the list open_data_files of     *)
(* DataFile.cpp.  Files are opened once, shared, counted, and stay open    *)
(* when they are released, until clear_cache() finds them without users.   *)
(*                                                                         *)
(* The list is a function from the files in it to their ref_count.  A file *)
(* is opened for reading here; files that are open for writing are other   *)
(* entries of the list, in another process.                                *)
(***************************************************************************)
EXTENDS Naturals, Functions

CONSTANT File

NothingOpen == <<>>

IsOpen(cache, f) == f \in DOMAIN cache

\* reference(dirname, basename) of a file that is not open: it is opened, and
\* put into the list with the one reference of the caller.
Opened(cache, f) == [g \in DOMAIN cache \cup {f} |-> IF g = f THEN 1 ELSE cache[g]]

\* reference(): one more user.
Referenced(cache, f) == [cache EXCEPT ![f] = @ + 1]

\* release(): one user less; the file stays open.
Released(cache, f) == [cache EXCEPT ![f] = @ - 1]

\* clear_cache(): the files without users are closed.
Cleared(cache) == Restrict(cache, {f \in DOMAIN cache : cache[f] > 0})
=============================================================================
