------------------------------ MODULE MCLandedCost ------------------------------
(* Instances of LandedCost for TLC. *)
EXTENDS LandedCostProperties

CONSTANTS w1, w2

Symmetry == Permutations(Warehouse)
=============================================================================
