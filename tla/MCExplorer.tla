------------------------------ MODULE MCExplorer ------------------------------
(***************************************************************************)
(* One division under the root of the tree, and another that may be        *)
(* created under it; two positions.                                        *)
(***************************************************************************)
EXTENDS Explorer, TLC

CONSTANTS d1, d2, p1, p2

MCDivision == {d1, d2}
MCInitial == {d1}
MCPosition == {p1, p2}
MCParent == [d \in Division |-> IF d = d1 THEN Root ELSE d1]

Symmetry == Permutations(MCPosition)

=============================================================================
