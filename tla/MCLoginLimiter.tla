---------------------------- MODULE MCLoginLimiter ----------------------------
(***************************************************************************)
(* Three attempts at once on two keys; two failures block for two units.   *)
(***************************************************************************)
EXTENDS LoginLimiter, TLC

Symmetry == Permutations(Attempt) \cup Permutations(Key)

=============================================================================
