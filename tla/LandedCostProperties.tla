-------------------------- MODULE LandedCostProperties --------------------------
(* What landed costs must leave true of the stock and its accounts. *)
EXTENDS LandedCost, StockProperties

\* Goods that came back at the recorded cost of a sale after a document had
\* changed what the sale had taken out.
ReturnedAtOldCost(i) ==
  Is(i, "SALES_RETURN") /\ \E d \in Active : costs[d].at \in moves[i].src .. (i - 1)

\* Two receipts of the document filled one obligation: their shares carry one
\* reference, and the second is taken for a retry of the first.
SharesObligation(d) == Shared(d) # Posted(d)

RegularCosts ==
  /\ overtaken = {}
  /\ Regular
  /\ \A i \in DOMAIN moves : ~ReturnedAtOldCost(i)
  /\ \A d \in Active : ~SharesObligation(d)

\* Half a step per unit for each replay, half a cent per adjustment and for the
\* value of each warehouse's stock, twice.
CostDust ==
  2 * SumOf(DOMAIN moves, Units) + Cent * (Len(moves) + Cardinality(links) + Cardinality(Warehouse))

\* With posted landed costs too, each inventory account is the valuation of the
\* stock in its warehouse: what a late cost adds to goods already sold, moved
\* to another warehouse or owed below zero stock leaves the account with them,
\* and a reversal takes back what its posting did and nothing later
\* (purchases/landed_cost_posting.py:post_landed_cost and
\* landed_cost_reversal.py against effective_avco_for_product_warehouse).
LayeredInventoryTies ==
  RegularCosts =>
    LET basis == Valuation.basis
        owed(w) == SumOf(Obligations(w), LAMBDA i : Open(i) * moves[i].cost)
    IN \A w \in Warehouse :
         2 * Absolute(Cent * inventory[w] - (basis[w] - owed(w))) <= Dust + CostDust * Cardinality(Active)

\* What a document leaves undistributed is rounding, never goods it lost track
\* of (the ROUNDING_RESIDUAL of post_landed_cost).
ResidualIsRounding ==
  RegularCosts => \A d \in Active : 2 * Cent * Absolute(costs[d].residual) <= CostDust

\* Every allocated amount must reconcile to current assets, cost of goods sold
\* and supplier claims: a posting moves into the inventory accounts what the
\* replay adds to the stock.
AllocatedCostReconciles ==
  [][\A d \in DOMAIN costs :
       costs[d].status = "DRAFT" /\ costs'[d].status = "POSTED" =>
         SumOf(Warehouse, LAMBDA w : inventory'[w] - inventory[w])
           = SumOf(Warehouse, LAMBDA w :
               HalfUp(LayeredReplay(Active \cup {d}).basis[w] - LayeredReplay(Active).basis[w], Cent))]_costVars

\* An issue later than the document left a warehouse its receipts came into.
ConsumedSince(d) ==
  \E i \in DOMAIN moves :
    /\ i > costs[d].at
    /\ moves[i].quantity < 0
    /\ \E r \in Receipts(d) : moves[r].warehouse = moves[i].warehouse

\* A reversal is allowed only while no later stock event depends on the
\* valuation layer: by the time it commits no issue has taken goods out at the
\* cost it takes back (purchases/landed_cost_reversal.py).
ReversedOnlyUnconsumed ==
  [][\A d \in DOMAIN costs :
       costs[d].status = "POSTED" /\ costs'[d].status = "REVERSED" => ~ConsumedSince(d)]_costVars
=============================================================================
