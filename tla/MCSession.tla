------------------------------- MODULE MCSession -------------------------------
(***************************************************************************)
(* Sessions that may idle for two units and live for three.               *)
(***************************************************************************)
EXTENDS Session, TLC

Symmetry == Permutations(Request) \cup Permutations(User) \cup Permutations(Sid)

=============================================================================
