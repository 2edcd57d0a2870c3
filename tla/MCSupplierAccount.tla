--------------------------- MODULE MCSupplierAccount ---------------------------
(* Instances of SupplierAccount for TLC. *)
EXTENDS SupplierAccountProperties, TLC

CONSTANTS s1, s2, p1, p2, a1, a2, x1, x2, r1, r2, f1, f2

Line(quantity, gross, weight) == [quantity |-> quantity, gross |-> gross, weight |-> weight]

\* A free line with two that share the discount; a line of four units whose
\* cost does not divide by two; two lines and a free last one, which cannot
\* take the rest of the discount.
MCLines ==
  {<<Line(1, 0, 1), Line(2, 5, 1), Line(2, 4, 2)>>,
   <<Line(4, 5, 1)>>,
   <<Line(2, 3, 1), Line(2, 3, 2), Line(1, 0, 1)>>}

MCOneLine == {<<Line(1, 4, 1)>>}

\* One unit of the base currency for three of the other.
MCRate == {<<1, 3>>}

Symmetry ==
  Permutations(Supplier) \cup Permutations(Allocation) \cup Permutations(Claim)
    \cup Permutations(Refund) \cup Permutations(Advance) \cup Permutations(Purchase)
=============================================================================
