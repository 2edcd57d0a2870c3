------------------------- MODULE TransitLotProperties -------------------------
(* What the lot guarantees. *)
EXTENDS TransitLot

\* Every unit bought is in one place: still in transit, received by the
\* company, sold to a customer, returned to the supplier, or lost.
UnitsAreConserved ==
  lot.remaining + ReceivedByCompany + Sum(DOMAIN sold, LAMBDA i : Quantity[sold[i]])
    + ReturnedToSupplier + loss.quantity = Original

\* Of each sold line no more arrives than was sold, all that the receipts took
\* for customers is in some line's custody, and goods in custody or delivered
\* have arrived.
CustomersReceiveWhatArrived ==
  /\ Sum(DOMAIN sold, LAMBDA i : Arrived(sold[i])) = ReceivedByCustomers
  /\ \A l \in TransitLine :
       /\ Arrived(l) <= Quantity[l]
       /\ TotalBalance(l) + Released(l) <= Arrived(l)
       /\ \A w \in Warehouse : Balance(l, w) >= 0

\* Customers are served in the order of their sales, whatever the receipts: a
\* later line gets nothing while an earlier one waits.
ServedInOrder ==
  \A i, j \in DOMAIN sold : i < j /\ Arrived(sold[j]) > 0 => InTransit(sold[i]) = 0

\* Through losses and returns and the reversal of each, an open lot has
\* something to receive, so that it can close.  A closed one holds nothing of
\* the company's, and sold goods are still on the way to it only while a
\* supplier return or a loss stands: no receipt closes a lot over them
\* (_receive_transit_core), and undoing what closed it opens it again.
LotStatusIsHonest ==
  IF lot.status = "OPEN"
  THEN lot.remaining + SoldInTransit > 0
  ELSE /\ lot.remaining = 0
       /\ SoldInTransit > 0 => ReturnedToSupplier > 0 \/ loss.status = "POSTED"

\* A lot stays open until receipts account for both the remaining goods of the
\* company and sold goods still in transit (finalize_sale): a closed lot
\* accepts no receipt, so what is on the way then never reaches its customer.
ClosedLotIsAccountedFor ==
  lot.status = "CLOSED" => lot.remaining = 0 /\ SoldInTransit = 0
=============================================================================
