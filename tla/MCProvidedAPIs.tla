--------------------------- MODULE MCProvidedAPIs ---------------------------
(***************************************************************************)
(* Two groups with one CSV each; both CSVs provide the one API.            *)
(***************************************************************************)
EXTENDS ProvidedAPIs

CONSTANTS g1, g2, c1, c2, a

MCGroupOf == [c \in CSVs |-> IF c = c1 THEN g1 ELSE g2]
MCProvides == [c \in CSVs |-> {a}]
MCSelections == [g \in Groups |-> IF g = g1 THEN {{g1}, {All}} ELSE {{g2}}]
=============================================================================
