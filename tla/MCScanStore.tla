----------------------------- MODULE MCScanStore -----------------------------
(***************************************************************************)
(* Instances of ScanStore for TLC.                                         *)
(***************************************************************************)
EXTENDS ScanStore, TLC

CONSTANTS a, b, desktop, tui, proj

OneProject == [p \in Path |-> proj]

\* The processes run the same code.
ProcessSymmetry == Permutations(Process)
=============================================================================
