----------------------------- MODULE MCTransitLot -----------------------------
(* Instances of TransitLot and of the WarehouseCustody it extends for TLC. *)
EXTENDS TransitLotProperties, WarehouseCustodyProperties, TLC

CONSTANTS l0, l1, l2, w1, w2, c1, c2, c3, r1, r2, p1, p2

\* Three units bought: one customer orders one of them, another two.  l0 is an
\* ordinary line of three, two of them issued from w1 and one from w2.
MCSold == (l1 :> 1) @@ (l2 :> 2)
MCOrders == (l0 :> 3) @@ MCSold
MCNothingIssued == [l \in {l1, l2} |-> [w \in Warehouse |-> 0]]
MCIssued == (l0 :> ((w1 :> 2) @@ (w2 :> 1))) @@ MCNothingIssued

\* The two share no line: a behaviour sells from the lot, with one check and one
\* return, or from the warehouses, with all of them.
LotStep ==
  /\ l0 \notin entitled
  /\ Next
  /\ Cardinality({c \in Check : checks'[c] # Absent}) <= 1
  /\ Cardinality({r \in Return : returns'[r] # Absent}) <= 1

OrdinaryStep ==
  /\ lotVars = <<[remaining |-> Original, status |-> "OPEN", destination |-> Destination],
                 <<>>, <<>>, [p \in SupplierReturn |-> Absent], FALSE, NoLoss, FALSE>>
  /\ CustodyNext
  /\ UNCHANGED lotVars

MCSpec == Init /\ [][LotStep \/ OrdinaryStep]_vars

Symmetry == Permutations(Check) \cup Permutations(Return) \cup Permutations(SupplierReturn)
=============================================================================
