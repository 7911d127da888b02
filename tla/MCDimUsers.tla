---------------------------- MODULE MCDimUsers ----------------------------
(* Instances of DimUsers for TLC. *)
EXTENDS DimUsers, TLC

CONSTANTS u1, u2, x, y

MCSymmetry == Permutations(Users)
=============================================================================
