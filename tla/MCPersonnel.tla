----------------------------- MODULE MCPersonnel -----------------------------
(***************************************************************************)
(* A small organisation for TLC: a root division and one child, a position *)
(* of one seat in the child, an unlimited one in the root with all users   *)
(* in it, one position that is not created yet.                            *)
(***************************************************************************)
EXTENDS Personnel, TLC

CONSTANTS root, child, lead, helper, fresh, u1, u2

MCUser == {u1, u2}
MCDivision == {root, child}
MCParent == root :> None @@ child :> root

MCPosition == {lead, helper, fresh}
MCLimit == lead :> 1 @@ helper :> 0 @@ fresh :> 1
MCInitialHome == lead :> child @@ helper :> root @@ fresh :> None
NoMembers == {}
MCMembers == MCUser \X {helper}

Symmetry == Permutations(MCUser) \cup Permutations(Request)

=============================================================================
