----------------------------- MODULE MCPlumber -----------------------------
(* Instances of Plumber for TLC. *)
EXTENDS PlumberProperties
=============================================================================
