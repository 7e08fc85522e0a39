--------------------------- MODULE MCExecutables ---------------------------
(* Instances of ExecutableMap for TLC. *)
EXTENDS ExecutableProperties, TLC

Places == Permutations(Objects)
=============================================================================
