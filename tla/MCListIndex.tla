---------------------------- MODULE MCListIndex ----------------------------
(***************************************************************************)
(* ListIndex with an archive that is there, one that is gone, an empty one *)
(* and the live one; two of three names share a slot.                      *)
(***************************************************************************)
EXTENDS ListIndex

MCName == {"a", "b", "x"}
MCHash == [n \in MCName |-> IF n = "x" THEN 0 ELSE 1]
MCConfig == <<"gone", "old", "live">>
MCContents == [s \in {"old"} |-> {"x"}]
=============================================================================
