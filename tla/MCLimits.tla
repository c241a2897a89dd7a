------------------------------ MODULE MCLimits ------------------------------
(* Instances of Limits for TLC. *)
EXTENDS Limits, TLC

ClientSymmetry == Permutations(Client)
=============================================================================
