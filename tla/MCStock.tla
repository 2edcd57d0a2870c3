-------------------------------- MODULE MCStock --------------------------------
(* Instances of Stock for TLC. *)
EXTENDS StockProperties

CONSTANTS w1, w2

Symmetry == Permutations(Warehouse)
=============================================================================
