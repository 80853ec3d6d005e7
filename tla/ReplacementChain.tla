-------------------------- MODULE ReplacementChain --------------------------
(***************************************************************************)
(* What the operator promises about a chain of CSVs, each replacing the    *)
(* one before: versions are released newest last, and collected oldest     *)
(* first, and none is collected before a later version has proven itself.  *)
(* CSVLifecycle implements this specification.                             *)
(***************************************************************************)
EXTENDS FiniteSets

CONSTANTS
  CSVs,      \* the names of the CSVs
  NoCSV,     \* the predecessor of a first version
  Replaces   \* the CSV each one replaces

VARIABLES
  stage,     \* "unborn", "live" or "gone"
  proven     \* versions that have run

chainVars == <<stage, proven>>

Init ==
  /\ stage = [c \in CSVs |-> "unborn"]
  /\ proven = {}

\* All versions after c.
Successors(c) ==
  {d \in CSVs : \A X \in SUBSET CSVs :
     (\A e \in CSVs : Replaces[e] \in X \cup {c} => e \in X) => d \in X}

Release(c) ==
  /\ stage[c] = "unborn"
  /\ \A d \in CSVs : Replaces[d] = c => stage[d] = "unborn"
  /\ stage' = [stage EXCEPT ![c] = "live"]
  /\ UNCHANGED proven

Run(c) ==
  /\ stage[c] = "live"
  /\ proven' = proven \cup {c}
  /\ UNCHANGED stage

Collect(c) ==
  /\ stage[c] = "live"
  /\ Replaces[c] # NoCSV => stage[Replaces[c]] # "live"
  /\ Successors(c) \cap proven # {}
  /\ stage' = [stage EXCEPT ![c] = "gone"]
  /\ UNCHANGED proven

Next == \E c \in CSVs : Release(c) \/ Run(c) \/ Collect(c)

Spec == Init /\ [][Next]_chainVars

=============================================================================
