-------------------------- MODULE MCCatalogOperator --------------------------
(***************************************************************************)
(* Instances of CatalogOperator for TLC; the constants are in the configs. *)
(***************************************************************************)
EXTENDS CatalogOperator
=============================================================================
