--------------------------- MODULE MCDeadGiveaway ---------------------------
(* Instances of DeadGiveaway for TLC. *)
EXTENDS DeadGiveaway, TLC

CONSTANTS p1, p2, p3, p4

PlayerSymmetry == Permutations(Players)
=============================================================================
