--------------------------------- MODULE Stock ---------------------------------
(***************************************************************************)
(* The stock of one product: movements, their cost and the journals the    *)
(* document services post with them (inventory/services.py,                *)
(* inventory/stock.py, the stock halves of purchases/services.py,          *)
(* sales/services.py and sales/returns_services.py).                       *)
(*                                                                         *)
(* Every operation locks the product's row before it reads stock or cost   *)
(* and commits the movement, the journal and the idempotency record        *)
(* together, so each is one action.  Unit costs are integers in steps of   *)
(* the fourth decimal, amounts integers in cents of Cent steps; currencies *)
(* are converted before a cost is booked and are left out.                 *)
(***************************************************************************)
EXTENDS Integers, Sequences, FiniteSets, FiniteSetsExt, SequencesExt

CONSTANTS
  Warehouse,
  Day,           \* movement dates
  Quantity,      \* units of one movement
  Total,         \* totals of a purchase, in cents
  Cost,          \* unit costs of openings and positive adjustments
  Temporary,     \* unit costs entered by hand below zero stock
  Cent,          \* steps of a unit cost in one cent
  MaxMoves,      \* movements the instance may create
  Backdated      \* whether a movement may be dated before the last one

ASSUME StockAssumption ==
  /\ Day \subseteq Nat
  /\ Quantity \subseteq Nat \ {0}
  /\ Total \subseteq Nat \ {0}
  /\ Cost \subseteq Nat
  /\ Temporary \subseteq Nat
  /\ Cent \in Nat \ {0}
  /\ MaxMoves \in Nat
  /\ Backdated \in BOOLEAN

VARIABLES
  moves,       \* StockMovement rows in the order of their ids
  links,       \* NegativeCOGSReceiptAllocation rows
  settled,     \* shortages with a ShortageSettlement
  inventory,   \* balance of each warehouse's inventory account, in cents
  cogs,        \* balance of 5100
  payable,     \* balance of 2110
  costs        \* landed-cost documents; this module only reads them

accounts == <<inventory, cogs, payable>>
vars == <<moves, links, settled, accounts, costs>>

InTypes == {"OPENING", "PURCHASE_RECEIPT", "SALES_RETURN", "TRANSFER_IN", "ADJUSTMENT_IN"}
OutTypes == {"SALES_ISSUE", "PURCHASE_RETURN", "TRANSFER_OUT", "ADJUSTMENT_OUT", "SHORTAGE"}

\* src is the movement this one returns, reverses or pairs with, 0 if none; ref
\* stands for the reference text: movements of one document share it.
Movement ==
  [type: InTypes \cup OutTypes, warehouse: Warehouse, quantity: Int \ {0}, day: Day,
   cost: Nat, temporary: BOOLEAN, before: Int, src: Nat, ref: Nat]

Link == [issue: Nat, receipt: Nat, quantity: Nat \ {0}]

TypeOK ==
  /\ moves \in Seq(Movement)
  /\ \A i \in DOMAIN moves :
       /\ moves[i].quantity > 0 <=> moves[i].type \in InTypes
       /\ moves[i].src \in 0 .. (i - 1)
       /\ moves[i].ref \in 1 .. i
  /\ links \subseteq Link
  /\ settled \subseteq DOMAIN moves
  /\ inventory \in [Warehouse -> Int]
  /\ cogs \in Int
  /\ payable \in Int

Init ==
  /\ moves = <<>>
  /\ links = {}
  /\ settled = {}
  /\ inventory = [w \in Warehouse |-> 0]
  /\ cogs = 0
  /\ payable = 0
  /\ costs = <<>>
-----------------------------------------------------------------------------
\* quantize_half_up of n/d: halves away from zero.
HalfUp(n, d) == IF n >= 0 THEN (2 * n + d) \div (2 * d) ELSE -((d - 2 * n) \div (2 * d))

\* The value of q units at a unit cost, in cents.
Value(q, cost) == HalfUp(q * cost, Cent)

\* An amount in steps of the fourth decimal.
Steps(amount) == amount * Cent

SumOf(S, f(_)) == SumFunctionOnSet([x \in S |-> f(x)], S)

Absolute(n) == IF n < 0 THEN -n ELSE n

Units(i) == Absolute(moves[i].quantity)

Is(i, type) == moves[i].type = type

\* stock_for
OnHand(w) ==
  SumOf({i \in DOMAIN moves : moves[i].warehouse = w}, LAMBDA i : moves[i].quantity)

Earlier(i, j) == moves[i].day < moves[j].day \/ (moves[i].day = moves[j].day /\ i < j)

\* A movement's place among the others, and the movements in their places.
Rank(i) == Cardinality({j \in DOMAIN moves : ~Earlier(i, j)})

Kardex == [k \in DOMAIN moves |-> CHOOSE i \in DOMAIN moves : Rank(i) = k]

\* A receipt or issue that a document made, not the reversal of a return.
Original(i, type) == Is(i, type) /\ moves[i].src = 0

\* A sales return with its compensating issue, a purchase return with the
\* receipt that restores it.
Reversed(i) ==
  \E j \in DOMAIN moves :
    moves[j].src = i /\ moves[j].type \in {"SALES_ISSUE", "PURCHASE_RECEIPT"}

ReturnsOf(i) ==
  {j \in DOMAIN moves : moves[j].src = i /\ moves[j].type \in {"SALES_RETURN", "PURCHASE_RETURN"}}

\* Mutant: a return is compared with its source alone, not with the returns
\* before it.
ReturnableEach(i) == Units(i)

\* A reversed sales return no longer counts against its issue; a reversed
\* purchase return does.
Returnable(i) ==
  Units(i) - SumOf({j \in ReturnsOf(i) : ~(Is(j, "SALES_RETURN") /\ Reversed(j))}, Units)
-----------------------------------------------------------------------------
\* Valuation.  A replay walks the Kardex with the units and the cost basis of
\* each warehouse and what each movement took out (relief) at which unit cost.
Start ==
  [units |-> [w \in Warehouse |-> 0], basis |-> [w \in Warehouse |-> 0],
   relief |-> [i \in DOMAIN moves |-> 0], unit |-> [i \in DOMAIN moves |-> moves[i].cost]]

\* Mutant: goods that arrive below zero stock keep their whole value.
ArriveWhole(s, i, unit) ==
  LET w == moves[i].warehouse
  IN [s EXCEPT !.units[w] = @ + Units(i),
               !.basis[w] = @ + Units(i) * unit,
               !.unit[i] = unit]

\* Units below zero are filled first; only the surplus has a cost.
Arrive(s, i, unit) ==
  LET w == moves[i].warehouse
      after == s.units[w] + Units(i)
  IN [s EXCEPT !.units[w] = after,
               !.basis[w] = IF s.units[w] >= 0 THEN @ + Units(i) * unit ELSE Max({after, 0}) * unit,
               !.unit[i] = unit]

\* Mutant: what is left when stock reaches zero stays in the basis.
LeaveRemainder(s, i) ==
  LET w == moves[i].warehouse
      average == IF s.units[w] > 0 THEN HalfUp(s.basis[w], s.units[w]) ELSE moves[i].cost
      relief == Max({0, Min({Units(i), s.units[w]})}) * average
  IN [s EXCEPT !.units[w] = @ - Units(i),
               !.basis[w] = @ - relief,
               !.relief[i] = relief,
               !.unit[i] = average]

\* Stock above zero is relieved at its average; at zero the basis is dropped.
Leave(s, i) ==
  LET w == moves[i].warehouse
      average == IF s.units[w] > 0 THEN HalfUp(s.basis[w], s.units[w]) ELSE moves[i].cost
      relief == Max({0, Min({Units(i), s.units[w]})}) * average
  IN [s EXCEPT !.units[w] = @ - Units(i),
               !.basis[w] = IF s.units[w] > Units(i) THEN Max({@ - relief, 0}) ELSE 0,
               !.relief[i] = relief,
               !.unit[i] = average]

\* avco_for without landed costs: every movement at its own cost.
PlainReplay ==
  FoldLeft(LAMBDA s, i : IF moves[i].quantity > 0 THEN Arrive(s, i, moves[i].cost) ELSE Leave(s, i),
           Start, Kardex)

\* What the documents in D put on receipt i, per unit: the allocations are
\* added first and rounded once.
Extra(D, i) ==
  LET amount == SumOf({d \in D : i \in DOMAIN costs[d].share}, LAMBDA d : costs[d].share[i])
  IN HalfUp(Steps(amount), Units(i))

\* _simulate_product: transfers and sales returns arrive at the unit cost their
\* source left at.
LayeredReplay(D) ==
  FoldLeft(LAMBDA s, i :
             LET follows == moves[i].type \in {"TRANSFER_IN", "SALES_RETURN"}
                 unit == IF follows THEN s.unit[moves[i].src] ELSE moves[i].cost
             IN IF moves[i].quantity > 0 THEN Arrive(s, i, unit + Extra(D, i)) ELSE Leave(s, i),
           Start, Kardex)

\* The replay refuses a return whose source comes later in the Kardex, and two
\* transfers of one name on one day.
Replayable ==
  /\ \A i \in DOMAIN moves : Is(i, "SALES_RETURN") => Earlier(moves[i].src, i)
  /\ \A i, j \in DOMAIN moves :
       Is(i, "TRANSFER_OUT") /\ Is(j, "TRANSFER_OUT") /\ i # j =>
         moves[i].ref # moves[j].ref \/ moves[i].day # moves[j].day

Active == {d \in DOMAIN costs : costs[d].status = "POSTED"}

Valuation == IF Active = {} THEN PlainReplay ELSE LayeredReplay(Active)

HasAverage(w) == OnHand(w) > 0 /\ (Active = {} \/ Replayable)

\* avco_for
Average(w) == LET now == Valuation IN HalfUp(now.basis[w], now.units[w])
-----------------------------------------------------------------------------
Room(n) == Len(moves) + n <= MaxMoves

Dated(d) == d >= IF Backdated \/ moves = <<>> THEN 0 ELSE Last(moves).day

\* Mutant: the sign of the quantity is lost.
RowUnsigned(type, w, q, d, cost, temporary, src) ==
  [type |-> type, warehouse |-> w, quantity |-> q, day |-> d,
   cost |-> cost, temporary |-> temporary, before |-> OnHand(w), src |-> src,
   ref |-> IF type \in {"SALES_RETURN", "PURCHASE_RETURN"} THEN moves[src].ref ELSE Len(moves) + 1]

Row(type, w, q, d, cost, temporary, src) ==
  [type |-> type, warehouse |-> w, quantity |-> IF type \in InTypes THEN q ELSE -q, day |-> d,
   cost |-> cost, temporary |-> temporary, before |-> OnHand(w), src |-> src,
   ref |-> IF type \in {"SALES_RETURN", "PURCHASE_RETURN"} THEN moves[src].ref ELSE Len(moves) + 1]

\* _create_movement.  A return repeats the reference of what it returns.
Move(type, w, q, d, cost, temporary, src) ==
  moves' = Append(moves, Row(type, w, q, d, cost, temporary, src))

\* A journal of value v between a warehouse's account and COGS.  A journal of
\* nothing is refused, and the document with it.
ToCogs(w, v) ==
  /\ v # 0
  /\ inventory' = [inventory EXCEPT ![w] = @ - v]
  /\ cogs' = cogs + v
  /\ UNCHANGED payable

\* A journal of value v between the supplier and a warehouse's account.
FromSupplier(w, v) ==
  /\ v # 0
  /\ inventory' = [inventory EXCEPT ![w] = @ + v]
  /\ payable' = payable + v
  /\ UNCHANGED cogs

Unlinked == UNCHANGED <<links, settled, costs>>
-----------------------------------------------------------------------------
\* A sale below zero stock is an obligation until receipts cover it.
Obligations(w) ==
  {i \in DOMAIN moves : Original(i, "SALES_ISSUE") /\ moves[i].temporary /\ moves[i].warehouse = w}

Open(i) == Units(i) - SumOf({l \in links : l.issue = i}, LAMBDA l : l.quantity)

\* Mutant: the newest obligation is served first.
CoversNewest(w, q, i) ==
  LET newer == {j \in Obligations(w) : Earlier(i, j)}
  IN Max({0, Min({Open(i), q - SumOf(newer, Open)})})

\* What a receipt of q units gives obligation i: the oldest is served first.
Covers(w, q, i) ==
  LET older == {j \in Obligations(w) : Earlier(j, i)}
  IN Max({0, Min({Open(i), q - SumOf(older, Open)})})

\* resolve_negative_obligations
NewLinks(w, q, cost) ==
  {[issue |-> i, receipt |-> Len(moves) + 1, quantity |-> Covers(w, q, i)] :
     i \in {j \in Obligations(w) : Covers(w, q, j) > 0}}

\* Mutant: the sale's cost is corrected by the whole cost of the receipt.
CorrectsAll(w, q, cost) == SumOf(NewLinks(w, q, cost), LAMBDA l : Value(l.quantity, cost))

\* COGS takes the difference between the receipt's cost and the temporary one.
Corrects(w, q, cost) ==
  SumOf(NewLinks(w, q, cost), LAMBDA l : Value(l.quantity, cost - moves[l.issue].cost))

\* One line of post_purchase.
Purchase(w, q, total, d) ==
  LET cost == HalfUp(Steps(total), q)
      corrected == Corrects(w, q, cost)
  IN /\ Room(1) /\ Dated(d)
     /\ Move("PURCHASE_RECEIPT", w, q, d, cost, FALSE, 0)
     /\ links' = links \cup NewLinks(w, q, cost)
     /\ inventory' = [inventory EXCEPT ![w] = @ + total - corrected]
     /\ cogs' = cogs + corrected
     /\ payable' = payable + total
     /\ UNCHANGED <<settled, costs>>

\* open_stock: Dr inventory / Cr 3900.
OpenStock(w, q, cost, d) ==
  /\ Room(1) /\ Dated(d)
  /\ Value(q, cost) # 0
  /\ Move("OPENING", w, q, d, cost, FALSE, 0)
  /\ inventory' = [inventory EXCEPT ![w] = @ + Value(q, cost)]
  /\ UNCHANGED <<cogs, payable>>
  /\ Unlinked

\* The unit costs issue_stock may book: the average while the stock lasts, below
\* zero one entered by hand with the caller's acknowledgement.
IssueCosts(w, q) ==
  IF OnHand(w) < q THEN Temporary ELSE IF HasAverage(w) THEN {Average(w)} ELSE {}

Below(w, q) == OnHand(w) < q

\* finalize_sale of one line from one warehouse, with its COGS journal.
Sell(w, q, d, cost) ==
  /\ Room(1) /\ Dated(d)
  /\ cost \in IssueCosts(w, q)
  /\ Move("SALES_ISSUE", w, q, d, cost, Below(w, q), 0)
  /\ ToCogs(w, Value(q, cost))
  /\ Unlinked

\* finalize_sale of one line from two warehouses: both issues carry the number
\* of the sale.
SellFromTwo(v, w, p, q, d, costV, costW) ==
  /\ Room(2) /\ Dated(d)
  /\ v # w
  /\ costV \in IssueCosts(v, p) /\ Value(p, costV) # 0
  /\ costW \in IssueCosts(w, q) /\ Value(q, costW) # 0
  /\ moves' = moves \o <<Row("SALES_ISSUE", v, p, d, costV, Below(v, p), 0),
                         Row("SALES_ISSUE", w, q, d, costW, Below(w, q), 0)>>
  /\ inventory' = [inventory EXCEPT ![v] = @ - Value(p, costV), ![w] = @ - Value(q, costW)]
  /\ cogs' = cogs + Value(p, costV) + Value(q, costW)
  /\ UNCHANGED payable
  /\ Unlinked

\* The caller names a transfer; the name of an earlier one is accepted.
TransferNames == {Len(moves) + 1} \cup {moves[i].ref : i \in {j \in DOMAIN moves : Is(j, "TRANSFER_OUT")}}

\* transfer_stock: the goods leave and arrive at one cost.
Transfer(v, w, q, d, cost, ref) ==
  /\ Room(2) /\ Dated(d)
  /\ v # w
  /\ cost \in IssueCosts(v, q) /\ Value(q, cost) # 0
  /\ ref \in TransferNames
  /\ moves' = moves \o <<[Row("TRANSFER_OUT", v, q, d, cost, Below(v, q), 0) EXCEPT !.ref = ref],
                         [Row("TRANSFER_IN", w, q, d, cost, Below(v, q), Len(moves) + 1) EXCEPT !.ref = ref]>>
  /\ inventory' = [inventory EXCEPT ![v] = @ - Value(q, cost), ![w] = @ + Value(q, cost)]
  /\ UNCHANGED <<cogs, payable>>
  /\ Unlinked

\* adjust_stock_in: no journal.
AdjustIn(w, q, cost, d) ==
  /\ Room(1) /\ Dated(d)
  /\ Move("ADJUSTMENT_IN", w, q, d, cost, FALSE, 0)
  /\ UNCHANGED accounts
  /\ Unlinked

\* adjust_stock_out and record_shortage: no journal.
TakeOut(type, w, q, d, cost) ==
  /\ Room(1) /\ Dated(d)
  /\ cost \in IssueCosts(w, q)
  /\ Move(type, w, q, d, cost, Below(w, q), 0)
  /\ UNCHANGED accounts
  /\ Unlinked

\* settle_shortage: once per shortage, without touching stock.
SettleShortage(i) ==
  /\ Is(i, "SHORTAGE")
  /\ i \notin settled
  /\ settled' = settled \cup {i}
  /\ UNCHANGED <<moves, links, accounts, costs>>

\* post_purchase_return, at the cost of the receipt.
ReturnPurchase(i, q, d) ==
  /\ Room(1) /\ Dated(d)
  /\ Original(i, "PURCHASE_RECEIPT")
  /\ d >= moves[i].day
  /\ q <= Returnable(i)
  /\ Move("PURCHASE_RETURN", moves[i].warehouse, q, d, moves[i].cost, FALSE, i)
  /\ FromSupplier(moves[i].warehouse, -Value(q, moves[i].cost))
  /\ Unlinked

\* reverse_purchase_return, on the date of the return.
ReversePurchaseReturn(i) ==
  /\ Room(1)
  /\ Is(i, "PURCHASE_RETURN")
  /\ ~Reversed(i)
  /\ Move("PURCHASE_RECEIPT", moves[i].warehouse, Units(i), moves[i].day, moves[i].cost, FALSE, i)
  /\ FromSupplier(moves[i].warehouse, Value(Units(i), moves[i].cost))
  /\ Unlinked

\* create_sales_return, at the cost of the issue, on any date.
ReturnSale(i, q, d) ==
  /\ Room(1) /\ Dated(d)
  /\ Original(i, "SALES_ISSUE")
  /\ q <= Returnable(i)
  /\ Move("SALES_RETURN", moves[i].warehouse, q, d, moves[i].cost, moves[i].temporary, i)
  /\ ToCogs(moves[i].warehouse, -Value(q, moves[i].cost))
  /\ Unlinked

\* reverse_sales_return, while the goods are still there.
ReverseSalesReturn(i, d) ==
  /\ Room(1) /\ Dated(d)
  /\ Is(i, "SALES_RETURN")
  /\ ~Reversed(i)
  /\ OnHand(moves[i].warehouse) >= Units(i)
  /\ Move("SALES_ISSUE", moves[i].warehouse, Units(i), d, moves[i].cost, moves[i].temporary, i)
  /\ ToCogs(moves[i].warehouse, Value(Units(i), moves[i].cost))
  /\ Unlinked
-----------------------------------------------------------------------------
InboundStep ==
  \E w \in Warehouse, q \in Quantity, d \in Day :
    \/ \E total \in Total : Purchase(w, q, total, d)
    \/ \E cost \in Cost : OpenStock(w, q, cost, d) \/ AdjustIn(w, q, cost, d)

OutboundStep ==
  \E w \in Warehouse, q \in Quantity, d \in Day : \E cost \in IssueCosts(w, q) :
    \/ Sell(w, q, d, cost)
    \/ \E v \in Warehouse, p \in Quantity : \E other \in IssueCosts(v, p) :
         SellFromTwo(w, v, q, p, d, cost, other)
    \/ \E v \in Warehouse, ref \in TransferNames : Transfer(w, v, q, d, cost, ref)
    \/ \E type \in {"ADJUSTMENT_OUT", "SHORTAGE"} : TakeOut(type, w, q, d, cost)

ReturnStep ==
  \E i \in DOMAIN moves :
    \/ \E q \in Quantity, d \in Day : ReturnPurchase(i, q, d) \/ ReturnSale(i, q, d)
    \/ \E d \in Day : ReverseSalesReturn(i, d)
    \/ ReversePurchaseReturn(i)
    \/ SettleShortage(i)

StockStep == InboundStep \/ OutboundStep \/ ReturnStep

Next == StockStep

Spec == Init /\ [][Next]_vars
=============================================================================
