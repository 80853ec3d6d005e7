---------------------------- MODULE MCCopiedCSVs ----------------------------
(***************************************************************************)
(* The group selects one other namespace, its own alone, or all of them.   *)
(***************************************************************************)
EXTENDS CopiedCSVs

CONSTANTS n1, n2

MCSelections == {{n1}, {Own}, {All}}
=============================================================================
