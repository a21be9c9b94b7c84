--------------------------- MODULE MCMasterIndex ---------------------------
(***************************************************************************)
(* Two sub-archives, the second after the first, and a reader of the       *)
(* shallow index.                                                          *)
(***************************************************************************)
EXTENDS ShallowIndexRawDataReader

MCStamps == <<{1, 2, 3}, {5}>>
=============================================================================
