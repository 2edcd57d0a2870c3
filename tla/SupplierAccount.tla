---------------------------- MODULE SupplierAccount ----------------------------
(***************************************************************************)
(* Suppliers' accounts: purchases, advances and their allocation to        *)
(* purchases, returns that become claims, refunds of claims in the claim's *)
(* currency or another, and the reversal of each (purchases/services.py,   *)
(* supplier_advances/services.py, purchases/supplier_refund_services.py),  *)
(* with the journals they post.                                            *)
(*                                                                         *)
(* Every operation locks the document it changes, and those it measures    *)
(* itself against, before it reads them; each is one action.  Retries      *)
(* under one key, numbers and the period gate are those of Posting.tla,    *)
(* stock that of Stock.tla.                                                *)
(***************************************************************************)
EXTENDS Integers, FiniteSets, FiniteSetsExt, Sequences

CONSTANTS
  Supplier, Currency, Base,
  Purchase, Advance, Allocation, Claim, Refund,  \* rows the instance may create
  Lines,               \* the lines of a draft: sequences of [quantity, gross, weight]
  Discount, Freight,   \* of a draft, in cents
  Quantity, Amount,    \* units returned, cents paid or applied
  Rate,                \* agreed rates to the base currency, as <<numerator, denominator>>
  Cent                 \* steps of a unit cost in one cent

ASSUME SupplierAssumption ==
  /\ Base \in Currency
  /\ Lines \subseteq Seq([quantity: Nat \ {0}, gross: Nat, weight: Nat \ {0}])
  /\ Discount \subseteq Nat
  /\ Freight \subseteq Nat
  /\ Quantity \subseteq Nat \ {0}
  /\ Amount \subseteq Nat \ {0}
  /\ Rate \subseteq (Nat \ {0}) \X (Nat \ {0})
  /\ Cent \in Nat \ {0}

VARIABLES
  gl,           \* the posted balance of each account by supplier and currency, debits positive
  purchases, advances, allocations, claims, refunds  \* rows by their ids

vars == <<gl, purchases, advances, allocations, claims, refunds>>
-----------------------------------------------------------------------------
(* Rounding and journals *)

\* quantize_half_up of n/d.
HalfUp(n, d) == (2 * n + d) \div (2 * d)

Sum(S, f(_)) == SumFunctionOnSet([x \in S |-> f(x)], S)

Cash == "1110"
Stock == "1400"
Prepaid == "1500"
Clearing == "1910"
Payable == "2110"
Account == {Cash, Stock, Prepaid, Clearing, Payable}

\* The lines of a journal that is attributed to supplier s.
Journal(debit, credit, s, c, n) ==
  [k \in Account \X Supplier \X Currency |->
     (IF k = <<debit, s, c>> THEN n ELSE 0) - (IF k = <<credit, s, c>> THEN n ELSE 0)]

\* post_journal refuses a journal of nothing; reverse_journal swaps its sides.
Book(f) == gl' = [k \in Account \X Supplier \X Currency |-> gl[k] + f[k]]
Mirror(f) == gl' = [k \in Account \X Supplier \X Currency |-> gl[k] - f[k]]
-----------------------------------------------------------------------------
(* Rows *)

Absent == [status |-> "ABSENT"]
Status == {"POSTED", "REVERSED"}

PurchaseRow ==
  [status: {"DRAFT", "POSTED"}, supplier: Supplier, currency: Currency,
   mode: {"IMMEDIATE", "IN_TRANSIT"}, lines: Lines, discount: Discount, freight: Freight]

AdvanceRow == [status: Status, supplier: Supplier, currency: Currency, amount: Amount]
AllocationRow == [status: Status, advance: Advance, purchase: Purchase, amount: Amount]
ClaimRow == [status: Status, purchase: Purchase, line: Nat \ {0}, quantity: Quantity, amount: Nat \ {0}]
RefundRow == [status: Status, claim: Claim, amount: Amount, currency: Currency, paid: Nat \ {0}]

TypeOK ==
  /\ gl \in [Account \X Supplier \X Currency -> Int]
  /\ purchases \in [Purchase -> PurchaseRow \cup {Absent}]
  /\ advances \in [Advance -> AdvanceRow \cup {Absent}]
  /\ allocations \in [Allocation -> AllocationRow \cup {Absent}]
  /\ claims \in [Claim -> ClaimRow \cup {Absent}]
  /\ refunds \in [Refund -> RefundRow \cup {Absent}]

Init ==
  /\ gl = [k \in Account \X Supplier \X Currency |-> 0]
  /\ purchases = [p \in Purchase |-> Absent]
  /\ advances = [a \in Advance |-> Absent]
  /\ allocations = [x \in Allocation |-> Absent]
  /\ claims = [r \in Claim |-> Absent]
  /\ refunds = [f \in Refund |-> Absent]

Free(rows, i) == rows[i].status = "ABSENT"
IsPosted(rows, i) == rows[i].status = "POSTED"
Posted(rows) == {i \in DOMAIN rows : IsPosted(rows, i)}
-----------------------------------------------------------------------------
(* The amounts of a purchase *)

Gross(lines) == Sum(DOMAIN lines, LAMBDA i : lines[i].gross)
Weight(lines) == Sum(DOMAIN lines, LAMBDA i : lines[i].weight)

\* Mutant: the shares are cut off, not rounded.
DiscountSharesCut(lines, discount) ==
  LET n == Len(lines)
      cut(i) == IF Gross(lines) = 0 THEN 0 ELSE (discount * lines[i].gross) \div Gross(lines)
  IN [i \in 1 .. n |-> IF i < n THEN cut(i) ELSE discount - Sum(1 .. (n - 1), cut)]

\* _allocate: in proportion to the gross, the last line takes the rest.
DiscountShares(lines, discount) ==
  LET n == Len(lines)
      rounded(i) == IF Gross(lines) = 0 THEN 0 ELSE HalfUp(discount * lines[i].gross, Gross(lines))
  IN [i \in 1 .. n |-> IF i < n THEN rounded(i) ELSE discount - Sum(1 .. (n - 1), rounded)]

\* _allocate_freight: by weight, never more than is left.
FreightShares(lines, freight) ==
  LET n == Len(lines)
      rounded(i) == HalfUp(freight * lines[i].weight, Weight(lines))
      upTo[i \in 0 .. n] == IF i = 0 THEN 0 ELSE Min({upTo[i - 1] + rounded(i), freight})
  IN [i \in 1 .. n |-> IF i < n THEN upTo[i] - upTo[i - 1] ELSE freight - upTo[n - 1]]

TotalOf(row) == Gross(row.lines) - row.discount + row.freight
Total(p) == TotalOf(purchases[p])

\* What line i cost with its shares, in cents, and per unit in steps.
LineCost(row, i) ==
  row.lines[i].gross - DiscountShares(row.lines, row.discount)[i]
    + FreightShares(row.lines, row.freight)[i]

UnitCost(row, i) == HalfUp(Cent * LineCost(row, i), row.lines[i].quantity)

\* _totals with the constraints of the PurchaseLine table: no share of the
\* discount is negative or exceeds the line.
Recordable(row) ==
  /\ row.discount <= Gross(row.lines)
  /\ \A i \in DOMAIN row.lines :
       DiscountShares(row.lines, row.discount)[i] \in 0 .. row.lines[i].gross
-----------------------------------------------------------------------------
(* Purchases *)

\* What create_purchase and update_purchase are asked to save.
Draft ==
  [status: {"DRAFT"}, supplier: Supplier, currency: Currency,
   mode: {"IMMEDIATE", "IN_TRANSIT"}, lines: Lines, discount: Discount, freight: Freight]

\* create_purchase, and update_purchase of a draft.
SavePurchase(p, row) ==
  /\ purchases[p].status \in {"ABSENT", "DRAFT"}
  /\ Recordable(row)
  /\ purchases' = [purchases EXCEPT ![p] = row]
  /\ UNCHANGED <<gl, advances, allocations, claims, refunds>>

PurchaseJournal(row) == Journal(Stock, Payable, row.supplier, row.currency, TotalOf(row))

\* post_purchase.
PostPurchase(p) ==
  /\ purchases[p].status = "DRAFT"
  /\ Total(p) > 0
  /\ Book(PurchaseJournal(purchases[p]))
  /\ purchases' = [purchases EXCEPT ![p].status = "POSTED"]
  /\ UNCHANGED <<advances, allocations, claims, refunds>>
-----------------------------------------------------------------------------
(* Advances *)

AllocationsOf(a) == {x \in Posted(allocations) : allocations[x].advance = a}
AllocationsTo(p) == {x \in Posted(allocations) : allocations[x].purchase = p}

\* advance_available
Available(a) == advances[a].amount - Sum(AllocationsOf(a), LAMBDA x : allocations[x].amount)

Unallocated(p) == Total(p) - Sum(AllocationsTo(p), LAMBDA x : allocations[x].amount)

AdvanceJournal(a) == Journal(Prepaid, Cash, a.supplier, a.currency, a.amount)

CreateSupplierAdvance(a, s, c, n) ==
  LET row == [status |-> "POSTED", supplier |-> s, currency |-> c, amount |-> n]
  IN /\ Free(advances, a)
     /\ Book(AdvanceJournal(row))
     /\ advances' = [advances EXCEPT ![a] = row]
     /\ UNCHANGED <<purchases, allocations, claims, refunds>>

\* Dr 2110 / Cr 1500, in the name of the advance's supplier.
AllocationJournal(row) ==
  Journal(Payable, Prepaid, advances[row.advance].supplier, advances[row.advance].currency, row.amount)

\* Mutant: any supplier's purchase will do.
AllocateToAnyone(x, a, p, n) ==
  LET row == [status |-> "POSTED", advance |-> a, purchase |-> p, amount |-> n]
  IN /\ Free(allocations, x)
     /\ IsPosted(advances, a)
     /\ IsPosted(purchases, p)
     /\ advances[a].currency = purchases[p].currency
     /\ n <= Available(a)
     /\ n <= Unallocated(p)
     /\ Book(AllocationJournal(row))
     /\ allocations' = [allocations EXCEPT ![x] = row]
     /\ UNCHANGED <<purchases, advances, claims, refunds>>

\* allocate_supplier_advance: what was returned of the purchase is not looked at.
AllocateSupplierAdvance(x, a, p, n) ==
  LET row == [status |-> "POSTED", advance |-> a, purchase |-> p, amount |-> n]
  IN /\ Free(allocations, x)
     /\ IsPosted(advances, a)
     /\ IsPosted(purchases, p)
     /\ advances[a].supplier = purchases[p].supplier
     /\ advances[a].currency = purchases[p].currency
     /\ n <= Available(a)
     /\ n <= Unallocated(p)
     /\ Book(AllocationJournal(row))
     /\ allocations' = [allocations EXCEPT ![x] = row]
     /\ UNCHANGED <<purchases, advances, claims, refunds>>

ReverseSupplierAdvanceAllocation(x) ==
  /\ IsPosted(allocations, x)
  /\ Mirror(AllocationJournal(allocations[x]))
  /\ allocations' = [allocations EXCEPT ![x].status = "REVERSED"]
  /\ UNCHANGED <<purchases, advances, claims, refunds>>

\* Mutant: an advance is taken back under its allocations.
ReverseAllocatedAdvance(a) ==
  /\ IsPosted(advances, a)
  /\ Mirror(AdvanceJournal(advances[a]))
  /\ advances' = [advances EXCEPT ![a].status = "REVERSED"]
  /\ UNCHANGED <<purchases, allocations, claims, refunds>>

\* reverse_supplier_advance, once its allocations are.
ReverseSupplierAdvance(a) ==
  /\ IsPosted(advances, a)
  /\ AllocationsOf(a) = {}
  /\ Mirror(AdvanceJournal(advances[a]))
  /\ advances' = [advances EXCEPT ![a].status = "REVERSED"]
  /\ UNCHANGED <<purchases, allocations, claims, refunds>>
-----------------------------------------------------------------------------
(* Returns to the supplier *)

ClaimsOn(p, i) == {r \in Claim : ~Free(claims, r) /\ claims[r].purchase = p /\ claims[r].line = i}

\* Mutant: a return is compared with the line alone, not with those before it.
ReturnableAlone(p, i) == purchases[p].lines[i].quantity

\* A receipt into a warehouse counts its reversed returns too; a reversal puts
\* the units back into a lot in transit.
Returnable(p, i) ==
  LET counted == IF purchases[p].mode = "IMMEDIATE" THEN ClaimsOn(p, i) ELSE ClaimsOn(p, i) \cap Posted(claims)
  IN purchases[p].lines[i].quantity - Sum(counted, LAMBDA r : claims[r].quantity)

\* Dr 2110 / Cr inventory or 1430.
ClaimJournal(row) ==
  Journal(Payable, Stock, purchases[row.purchase].supplier, purchases[row.purchase].currency, row.amount)

\* post_purchase_return and post_transit_purchase_return, at the unit cost.
PostPurchaseReturn(r, p, i, q) ==
  LET row == [status |-> "POSTED", purchase |-> p, line |-> i, quantity |-> q,
              amount |-> HalfUp(q * UnitCost(purchases[p], i), Cent)]
  IN /\ Free(claims, r)
     /\ IsPosted(purchases, p)
     /\ q <= Returnable(p, i)
     /\ row.amount > 0
     /\ Book(ClaimJournal(row))
     /\ claims' = [claims EXCEPT ![r] = row]
     /\ UNCHANGED <<purchases, advances, allocations, refunds>>

RefundsOf(r) == {f \in Posted(refunds) : refunds[f].claim = r}

\* reverse_purchase_return, once its refunds are.
ReversePurchaseReturn(r) ==
  /\ IsPosted(claims, r)
  /\ RefundsOf(r) = {}
  /\ Mirror(ClaimJournal(claims[r]))
  /\ claims' = [claims EXCEPT ![r].status = "REVERSED"]
  /\ UNCHANGED <<purchases, advances, allocations, refunds>>
-----------------------------------------------------------------------------
(* Refunds of claims *)

\* _remaining_claim
Remaining(r) == claims[r].amount - Sum(RefundsOf(r), LAMBDA f : refunds[f].amount)

ClaimCurrency(r) == purchases[claims[r].purchase].currency

\* _rate and _refund_amount: one of two currencies is the base.
PaidIn(r, c, rate, n) ==
  IF c = ClaimCurrency(r) THEN n
  ELSE IF c = Base THEN HalfUp(n * rate[1], rate[2]) ELSE HalfUp(n * rate[2], rate[1])

\* One journal in the claim's currency, Dr 2110 / Cr 1110; in another, two
\* journals over 1910: Dr 1910 / Cr 2110 and Dr 1110 / Cr 1910.
RefundJournal(row) ==
  LET c == ClaimCurrency(row.claim)
      s == purchases[claims[row.claim].purchase].supplier
      claim == Journal(Clearing, Payable, s, c, row.amount)
      cash == Journal(Cash, Clearing, s, row.currency, row.paid)
  IN IF row.currency = c THEN Journal(Payable, Cash, s, c, row.amount)
     ELSE [k \in Account \X Supplier \X Currency |-> claim[k] + cash[k]]

\* Mutant: a refund is compared with the claim alone, and may pay nothing.
CreateRefundUnchecked(f, r, c, rate, n) ==
  LET row == [status |-> "POSTED", claim |-> r, amount |-> n, currency |-> c,
              paid |-> PaidIn(r, c, rate, n)]
  IN /\ Free(refunds, f)
     /\ IsPosted(claims, r)
     /\ c # ClaimCurrency(r) => Base \in {c, ClaimCurrency(r)}
     /\ n <= claims[r].amount
     /\ Book(RefundJournal(row))
     /\ refunds' = [refunds EXCEPT ![f] = row]
     /\ UNCHANGED <<purchases, advances, allocations, claims>>

CreateSupplierRefund(f, r, c, rate, n) ==
  LET row == [status |-> "POSTED", claim |-> r, amount |-> n, currency |-> c,
              paid |-> PaidIn(r, c, rate, n)]
  IN /\ Free(refunds, f)
     /\ IsPosted(claims, r)
     /\ c # ClaimCurrency(r) => Base \in {c, ClaimCurrency(r)}
     /\ n <= Remaining(r)
     /\ row.paid > 0
     /\ Book(RefundJournal(row))
     /\ refunds' = [refunds EXCEPT ![f] = row]
     /\ UNCHANGED <<purchases, advances, allocations, claims>>

ReverseSupplierRefund(f) ==
  /\ IsPosted(refunds, f)
  /\ Mirror(RefundJournal(refunds[f]))
  /\ refunds' = [refunds EXCEPT ![f].status = "REVERSED"]
  /\ UNCHANGED <<purchases, advances, allocations, claims>>
-----------------------------------------------------------------------------
PurchaseStep ==
  \E p \in Purchase :
    \/ \E row \in Draft : SavePurchase(p, row)
    \/ PostPurchase(p)

AdvanceStep ==
  \/ \E a \in Advance :
       \/ \E s \in Supplier, c \in Currency, n \in Amount : CreateSupplierAdvance(a, s, c, n)
       \/ ReverseSupplierAdvance(a)
  \/ \E x \in Allocation :
       \/ \E a \in Advance, p \in Purchase, n \in Amount : AllocateSupplierAdvance(x, a, p, n)
       \/ ReverseSupplierAdvanceAllocation(x)

ClaimStep ==
  \E r \in Claim :
    \/ \E p \in Posted(purchases), q \in Quantity :
         \E i \in DOMAIN purchases[p].lines : PostPurchaseReturn(r, p, i, q)
    \/ ReversePurchaseReturn(r)

RefundStep ==
  \E f \in Refund :
    \/ \E r \in Claim, c \in Currency, rate \in Rate, n \in Amount : CreateSupplierRefund(f, r, c, rate, n)
    \/ ReverseSupplierRefund(f)

Next == PurchaseStep \/ AdvanceStep \/ ClaimStep \/ RefundStep

Spec == Init /\ [][Next]_vars
=============================================================================
