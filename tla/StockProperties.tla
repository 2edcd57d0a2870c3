---------------------------- MODULE StockProperties ----------------------------
(* What the movements, their valuation and the accounts promise each other. *)
EXTENDS Stock

\* Movements whose journal and whose effect on the valuation differ by design
\* of the code: no journal at all, a journal at another cost than the relief,
\* an issue that is temporary beyond what it takes below zero, goods that
\* arrive below zero without settling an obligation, and a movement that
\* enters the Kardex before others.
Unjournalled(i) == moves[i].type \in {"ADJUSTMENT_IN", "ADJUSTMENT_OUT", "SHORTAGE"}

AtSourceCost(i) ==
  \/ Is(i, "PURCHASE_RETURN")
  \/ Is(i, "SALES_ISSUE") /\ moves[i].src # 0

PartlyTemporary(i) ==
  moves[i].temporary /\ moves[i].quantity < 0 /\ (moves[i].before > 0 \/ Is(i, "TRANSFER_OUT"))

FillsUnasked(i) ==
  moves[i].quantity > 0 /\ moves[i].before < 0 /\ ~Original(i, "PURCHASE_RECEIPT")

Inserted(i) == \E j \in 1 .. (i - 1) : moves[j].day > moves[i].day

Irregular(i) ==
  Unjournalled(i) \/ AtSourceCost(i) \/ PartlyTemporary(i) \/ FillsUnasked(i) \/ Inserted(i)

Regular == \A i \in DOMAIN moves : ~Irregular(i)

\* Half a step of the fourth decimal per unit and half a cent per journal, twice.
Dust ==
  SumOf(DOMAIN moves, LAMBDA i : Cent + Units(i)) + Cent * Cardinality(links)

\* The inventory accounts are the valuation of the stock, less what open
\* obligations took at temporary costs, but for the rounding of each journal:
\* purchases, openings, sales, transfers, sales returns and the resolution of
\* obligations book what the replay of the Kardex says
\* (purchases/services.py:_post_effects, sales/services.py:finalize_sale and
\* resolve_negative_obligations against inventory/stock.py:avco_for).
InventoryTies ==
  Regular =>
    LET basis == Valuation.basis
        owed(w) == SumOf(Obligations(w), LAMBDA i : Open(i) * moves[i].cost)
    IN \A w \in Warehouse : 2 * Absolute(Cent * inventory[w] - (basis[w] - owed(w))) <= Dust

\* No cost survives zero stock: goods that arrive at or below zero set the
\* average to their own cost (inventory/stock.py, the zero-stock reset).
CyclesStartClean ==
  \A i \in DOMAIN moves :
    LET w == moves[i].warehouse
        last == \A j \in DOMAIN moves : moves[j].warehouse = w => ~Earlier(i, j)
        before == OnHand(w) - moves[i].quantity
    IN Active = {} /\ last /\ before <= 0 /\ OnHand(w) > 0 => Average(w) = moves[i].cost

\* The average of a warehouse lies between the costs at which goods came in:
\* no sequence of issues, returns, transfers and crossings of zero manufactures
\* or loses value beyond the rounding of the reliefs (inventory/stock.py).
AverageIsBetweenCosts ==
  \A w \in Warehouse :
    LET came == {i \in DOMAIN moves : moves[i].warehouse = w /\ moves[i].quantity > 0}
        went == {i \in DOMAIN moves : moves[i].warehouse = w /\ moves[i].quantity < 0}
        low == Min({moves[i].cost : i \in came})
        high == Max({moves[i].cost : i \in came})
        units == OnHand(w)
        average == Average(w)
        dust == SumOf(went, Units) + units
    IN Active = {} /\ units > 0 =>
         /\ 2 * units * average <= 2 * units * high + dust
         /\ 2 * units * average >= 2 * units * low - dust

\* What came back against a receipt or an issue and was not reversed is never
\* more than it moved, and a reversal never gives back more than was returned
\* (inventory/services.py:_post_return with the reversals of both returns).
ReturnsWithinSource ==
  \A i \in DOMAIN moves :
    LET net == SumOf(ReturnsOf(i), Units)
               - SumOf({k \in DOMAIN moves : \E j \in ReturnsOf(i) : moves[k].src = j}, Units)
    IN Original(i, "SALES_ISSUE") \/ Original(i, "PURCHASE_RECEIPT") => net \in 0 .. Units(i)

\* A purchase serves the obligations of its warehouse oldest first, none twice,
\* and stops only when it or they are used up
\* (sales/services.py:resolve_negative_obligations).
ObligationsAreServed ==
  [][\A r \in DOMAIN moves' \ DOMAIN moves :
       moves'[r].type = "PURCHASE_RECEIPT" /\ moves'[r].src = 0 =>
         LET w == moves'[r].warehouse
             given == SumOf({l \in links' : l.receipt = r}, LAMBDA l : l.quantity)
             left(i) == Units(i) - SumOf({l \in links' : l.issue = i}, LAMBDA l : l.quantity)
         IN /\ \A i \in Obligations(w) : left(i) >= 0
            /\ given <= moves'[r].quantity
            /\ given < moves'[r].quantity => \A i \in Obligations(w) : left(i) = 0
            /\ \A l \in links' \ links, i \in Obligations(w) :
                 Earlier(i, l.issue) => left(i) = 0]_vars
=============================================================================
