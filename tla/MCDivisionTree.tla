---------------------------- MODULE MCDivisionTree ----------------------------
(***************************************************************************)
(* Small trees for TLC: an empty table, a root with two children, and a    *)
(* branch of three with a fourth division yet to be created.               *)
(***************************************************************************)
EXTENDS DivisionTree, TLC

CONSTANTS div_a, div_b, div_c, div_d

ThreeDivisions == {div_a, div_b, div_c}
FourDivisions  == {div_a, div_b, div_c, div_d}

NoDivisions == div_a :> Absent @@ div_b :> Absent @@ div_c :> Absent
Siblings    == div_a :> Top @@ div_b :> div_a @@ div_c :> div_a
Branch      == div_a :> Top @@ div_b :> div_a @@ div_c :> div_b @@ div_d :> Absent

AllOperations == {"create", "patch", "archive"}
PatchOnly     == {"patch"}
PatchArchive  == {"patch", "archive"}

Symmetry == Permutations(Request)

=============================================================================
