------------------------------ MODULE TransitLot ------------------------------
(***************************************************************************)
(* One lot of goods in transit from purchase to warehouse and customer:    *)
(* sales from the lot, receipts, supplier returns, the completion of the   *)
(* purchase and the confirmed loss (goods_in_transit/services.py, the      *)
(* transit half of finalize_sale, purchases/services.py,                   *)
(* purchases/landed_cost_posting.py), with the custody of the sold goods   *)
(* as in WarehouseCustody.tla.  Quantities only: costs are not modelled.   *)
(*                                                                         *)
(* Every action but the reversal of a return locks the lot or lines sold   *)
(* from it.  A loss and its valuation commit together: one that waits for  *)
(* its valuation (has_unvalued_transit_loss) is never seen.  A retry under *)
(* one idempotency key returns the first answer and changes nothing.       *)
(***************************************************************************)
EXTENDS WarehouseCustody, Sequences

CONSTANTS
  Original,        \* units bought
  Destination,     \* where the purchase sends them
  SupplierReturn   \* PurchaseReturn rows the instance may create

ASSUME LotAssumption ==
  /\ Original \in Nat \ {0}
  /\ Destination \in Warehouse

VARIABLES
  lot,              \* GoodsInTransitLot: remaining_quantity, status, destination_warehouse
  sold,             \* lines sold from the lot, in the order of their allocations
  receipts,         \* TransitReceipt rows
  supplierReturns,  \* PurchaseReturn rows of the lot
  completed,        \* TransitPurchaseCompletion exists
  loss,             \* the TransitLossEvent, until it is reversed
  movedOn           \* stock, receipts or sales came after the loss was valued

lotVars == <<lot, sold, receipts, supplierReturns, completed, loss, movedOn>>
vars == <<custodyVars, lotVars>>
-----------------------------------------------------------------------------
ReceiptRow == [warehouse: Warehouse, company: Nat, customers: Nat]

NoLoss == [status |-> "NONE", quantity |-> 0, good |-> 0]

TypeOK ==
  /\ CustodyTypeOK
  /\ lot \in [remaining: 0 .. Original, status: {"OPEN", "CLOSED"}, destination: Warehouse]
  /\ sold \in Seq(TransitLine)
  /\ receipts \in Seq(ReceiptRow)
  /\ supplierReturns \in [SupplierReturn -> [status: {"POSTED", "REVERSED"}, quantity: Nat \ {0}] \cup {Absent}]
  /\ completed \in BOOLEAN
  /\ loss \in {NoLoss} \cup [status: {"POSTED"}, quantity: Nat \ {0}, good: Nat \ {0}]
  /\ movedOn \in BOOLEAN

Init ==
  /\ CustodyInit
  /\ lot = [remaining |-> Original, status |-> "OPEN", destination |-> Destination]
  /\ sold = <<>>
  /\ receipts = <<>>
  /\ supplierReturns = [p \in SupplierReturn |-> Absent]
  /\ completed = FALSE
  /\ loss = NoLoss
  /\ movedOn = FALSE

\* Units placed in the customer's custody by receipts, released since or not.
Arrived(l) ==
  Sum({e \in events : e.type = "PLACED" /\ e.reference = Receipt /\ e.line = l},
      LAMBDA e : e.quantity)

InTransit(l) == Quantity[l] - Arrived(l)

SoldInTransit == Sum(DOMAIN sold, LAMBDA i : InTransit(sold[i]))

ReceivedByCompany == Sum(DOMAIN receipts, LAMBDA k : receipts[k].company)
ReceivedByCustomers == Sum(DOMAIN receipts, LAMBDA k : receipts[k].customers)
Received == ReceivedByCompany + ReceivedByCustomers

ReturnedToSupplier ==
  Sum({p \in SupplierReturn : supplierReturns[p].status = "POSTED"},
      LAMBDA p : supplierReturns[p].quantity)
-----------------------------------------------------------------------------
\* finalize_sale of a transit line.
SellFromLot(l) ==
  /\ l \in TransitLine
  /\ lot.status = "OPEN"
  /\ Quantity[l] <= lot.remaining
  /\ Entitle(l)
  /\ lot' = [lot EXCEPT !.remaining = @ - Quantity[l]]
  /\ sold' = Append(sold, l)
  /\ movedOn' = TRUE
  /\ UNCHANGED <<receipts, supplierReturns, completed, loss>>

\* Mutant: the last line sold is served first.
TakesBackwards(i, n) ==
  LET later == Sum((i + 1) .. Len(sold), LAMBDA j : InTransit(sold[j]))
  IN Max({0, Min({InTransit(sold[i]), n - later})})

\* What line i takes of n units that arrived for customers: the lines are
\* served in the order of their allocations.
Takes(i, n) ==
  LET earlier == Sum(1 .. (i - 1), LAMBDA j : InTransit(sold[j]))
  IN Max({0, Min({InTransit(sold[i]), n - earlier})})

\* Mutant: sold goods still on the way are forgotten.
ClosesOnCompany(company, customers) == lot.remaining = company

Closes(company, customers) == lot.remaining = company /\ SoldInTransit = customers

\* Mutant: the receipt is checked against what was bought.
FitsOriginal(n) == Received + n <= Original

\* The company's goods are received first, the rest are the customers'.
Fits(n) == n - Min({n, lot.remaining}) <= SoldInTransit

\* receive_transit
ReceiveTransit(n) ==
  LET company == Min({n, lot.remaining})
      customers == n - company
      k == Len(receipts) + 1
      arrivals == {[key |-> <<"receipt", sold[i], k>>, type |-> "PLACED", line |-> sold[i],
                    warehouse |-> lot.destination, quantity |-> Takes(i, customers),
                    reference |-> Receipt, reversed |-> FALSE] :
                     i \in {j \in DOMAIN sold : Takes(j, customers) > 0}}
  IN /\ lot.status = "OPEN"
     /\ Fits(n)
     /\ lot' = [lot EXCEPT !.remaining = @ - company,
                           !.status = IF Closes(company, customers) THEN "CLOSED" ELSE "OPEN"]
     /\ receipts' = Append(receipts, [warehouse |-> lot.destination, company |-> company,
                                      customers |-> customers])
     /\ events' = events \cup arrivals
     /\ movedOn' = TRUE
     /\ UNCHANGED <<entitled, checks, returns, owing, sold, supplierReturns, completed, loss>>

\* transfer_transit_destination: the whole of what the company still owns.
TransferDestination(w) ==
  /\ lot.status = "OPEN"
  /\ lot.remaining > 0
  /\ w # lot.destination
  /\ lot' = [lot EXCEPT !.destination = w]
  /\ UNCHANGED <<custodyVars, sold, receipts, supplierReturns, completed, loss, movedOn>>

\* post_transit_purchase_return
ReturnToSupplier(p, q) ==
  /\ supplierReturns[p] = Absent
  /\ lot.status = "OPEN"
  /\ q <= lot.remaining
  /\ lot' = [lot EXCEPT !.remaining = @ - q,
                        !.status = IF lot.remaining = q THEN "CLOSED" ELSE "OPEN"]
  /\ supplierReturns' = [supplierReturns EXCEPT ![p] = [status |-> "POSTED", quantity |-> q]]
  /\ UNCHANGED <<custodyVars, sold, receipts, completed, loss, movedOn>>

\* Mutant: a return already reversed is reversed again.
ReverseSupplierReturnAgain(p) ==
  /\ supplierReturns[p] # Absent
  /\ supplierReturns' = [supplierReturns EXCEPT ![p].status = "REVERSED"]
  /\ lot' = [lot EXCEPT !.remaining = @ + supplierReturns[p].quantity, !.status = "OPEN"]
  /\ UNCHANGED <<custodyVars, sold, receipts, completed, loss, movedOn>>

\* reverse_purchase_return puts the goods back in transit, whatever happened to
\* the lot since.
ReverseSupplierReturn(p) ==
  /\ supplierReturns[p].status = "POSTED"
  /\ supplierReturns' = [supplierReturns EXCEPT ![p].status = "REVERSED"]
  /\ lot' = [lot EXCEPT !.remaining = @ + supplierReturns[p].quantity, !.status = "OPEN"]
  /\ UNCHANGED <<custodyVars, sold, receipts, completed, loss, movedOn>>

\* complete_transit_purchase: the trips are over and everything reconciles.
CompletePurchase ==
  /\ ~completed
  /\ receipts # <<>>
  /\ Received + lot.remaining + ReturnedToSupplier = Original
  /\ loss = NoLoss
  /\ completed' = TRUE
  /\ UNCHANGED <<custodyVars, lot, sold, receipts, supplierReturns, loss, movedOn>>

\* record_transit_loss with post_transit_loss_valuation: all that remains.
RecordLoss ==
  LET q == lot.remaining
  IN /\ completed
     /\ q > 0
     /\ loss = NoLoss
     /\ q + ReturnedToSupplier < Original
     /\ loss' = [status |-> "POSTED", quantity |-> q, good |-> Original - ReturnedToSupplier - q]
     /\ lot' = [lot EXCEPT !.remaining = 0, !.status = "CLOSED"]
     /\ movedOn' = FALSE
     /\ UNCHANGED <<custodyVars, sold, receipts, supplierReturns, completed>>

\* Mutant: the goods are put back and the loss stands.
ReverseLossKeepingIt ==
  /\ loss.status = "POSTED"
  /\ ~movedOn
  /\ lot' = [lot EXCEPT !.remaining = @ + loss.quantity, !.status = "OPEN"]
  /\ UNCHANGED <<custodyVars, sold, receipts, supplierReturns, completed, loss, movedOn>>

\* reverse_transit_loss_valuation, while nothing came after it.
ReverseLoss ==
  /\ loss.status = "POSTED"
  /\ ~movedOn
  /\ lot' = [lot EXCEPT !.remaining = @ + loss.quantity, !.status = "OPEN"]
  /\ loss' = NoLoss
  /\ UNCHANGED <<custodyVars, sold, receipts, supplierReturns, completed, movedOn>>

\* A customer's return, and its reversal, move the company's stock.
CustomerStep ==
  /\ CustodyStep
  /\ movedOn' = (movedOn \/ returns' # returns)
  /\ UNCHANGED <<lot, sold, receipts, supplierReturns, completed, loss>>
-----------------------------------------------------------------------------
Next ==
  \/ \E l \in TransitLine : SellFromLot(l)
  \/ \E n \in 1 .. Original : ReceiveTransit(n)
  \/ \E w \in Warehouse : TransferDestination(w)
  \/ \E p \in SupplierReturn :
       (\E q \in 1 .. Original : ReturnToSupplier(p, q)) \/ ReverseSupplierReturn(p)
  \/ CompletePurchase
  \/ RecordLoss
  \/ ReverseLoss
  \/ CustomerStep

Spec == Init /\ [][Next]_vars
=============================================================================
