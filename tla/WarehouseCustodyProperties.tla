---------------------- MODULE WarehouseCustodyProperties ----------------------
(* What the custody of sold goods guarantees. *)
EXTENDS WarehouseCustody

OrdinaryLine == Line \ TransitLine

\* The custody ledger stays within what the customer bought: no balance is
\* negative, goods in custody and goods delivered together are at most the line,
\* and at each warehouse at most what an ordinary line was issued there.
CustodyWithinOwnership ==
  \A l \in entitled :
    /\ TotalBalance(l) + Released(l) <= Quantity[l]
    /\ \A w \in Warehouse :
         /\ Balance(l, w) >= 0
         /\ l \in OrdinaryLine => Balance(l, w) + ReleasedFrom(l, {w}) <= Allocated[l][w]

\* The two records of a delivery agree: a finalized check has one release in
\* force, of its quantity, and a draft or a cancelled one has none.
\* sales/services.py:422 "A Warehouse Check releases customer-owned goods from
\* custody".  It holds while the checks name their events themselves (CallerKey =
\* {}); with a key of the caller on both events, sales/services.py:507, it fails.
ReleasesMatchChecks ==
  \A c \in Check :
    LET inForce == {e \in events : e.type = "RELEASED" /\ e.reference = c /\ ~e.reversed}
    IN IF checks[c].status = "FINALIZED"
       THEN \E e \in inForce : inForce = {e} /\ e.quantity = checks[c].quantity
       ELSE inForce = {}

\* Goods of an ordinary line that came back had gone out: checks cancelled after
\* a return never leave more returned than delivered.
\* sales/services.py:627 "This issue has Sales Return history; use the Sales
\* Return workflow, not pre-delivery cancellation".
ReturnedWasDelivered == \A l \in OrdinaryLine : Returned(l) <= Released(l)
=============================================================================
