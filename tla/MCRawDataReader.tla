-------------------------- MODULE MCRawDataReader --------------------------
(***************************************************************************)
(* RawDataReader for model checking: its constants are given in the .cfg,  *)
(* control infos and value types are symmetric.                            *)
(***************************************************************************)
EXTENDS RawDataReader

Symmetry == Permutations(Info) \cup Permutations(DbrType)
=============================================================================
