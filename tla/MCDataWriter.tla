---------------------------- MODULE MCDataWriter ----------------------------
(***************************************************************************)
(* DataWriter for model checking: its constants are given in the .cfg, and *)
(* control infos and value types, which the writer only compares, are      *)
(* symmetric.                                                              *)
(***************************************************************************)
EXTENDS DataWriter

Symmetry == Permutations(Info) \cup Permutations(DbrType)
=============================================================================
