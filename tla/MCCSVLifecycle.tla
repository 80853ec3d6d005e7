--------------------------- MODULE MCCSVLifecycle ---------------------------
(***************************************************************************)
(* Instances of CSVLifecycle for TLC: one chain of upgrades.               *)
(***************************************************************************)
EXTENDS CSVLifecycle

\* v1 <- v2 and v1 <- v2 <- v3.
Replaces2 == [c \in {"v1", "v2"} |-> IF c = "v1" THEN NoCSV ELSE "v1"]

Replaces3 ==
  [c \in {"v1", "v2", "v3"} |->
     CASE c = "v1" -> NoCSV [] c = "v2" -> "v1" [] c = "v3" -> "v2"]

=============================================================================
