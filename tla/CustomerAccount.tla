--------------------------- MODULE CustomerAccount ---------------------------
(***************************************************************************)
(* One customer's account: payments, cross-currency settlements,           *)
(* allocations to credit invoices, sales returns, refunds and the          *)
(* reversal of each (payments/services.py, allocations/services.py,        *)
(* sales/returns_services.py), with the journals they post.                *)
(*                                                                         *)
(* All of them but four lock the customer's row through select_related, so *)
(* they run one at a time; create_payment, reverse_payment,                *)
(* reverse_sales_return and reverse_refund do not and may commit while a   *)
(* sales return is being prepared.  Retries under one idempotency key, the *)
(* numbers and the period gate are those of Posting.tla; a retry changes   *)
(* nothing here.  The physical side of a return is not in this module.     *)
(***************************************************************************)
EXTENDS Integers, FiniteSets, FiniteSetsExt

CONSTANTS
  Currency, Base,
  Sale,                            \* finalized invoices of one line each
  SaleCurrency, Total, Quantity,   \* their currency, amount in cents, units released
  CreditSale,                      \* those of payment mode CREDIT
  Payment, Allocation, Return, Refund,  \* rows the instance may create
  Amount,                          \* amounts in cents a caller may ask for
  Rate,                            \* agreed rates, as <<numerator, denominator>>
  None

ASSUME CustomerAssumption ==
  /\ Base \in Currency
  /\ SaleCurrency \in [Sale -> Currency]
  /\ Total \in [Sale -> Nat \ {0}]
  /\ Quantity \in [Sale -> Nat \ {0}]
  /\ IsFiniteSet(Sale)
  /\ CreditSale \subseteq Sale
  /\ Amount \subseteq Nat \ {0}
  /\ Rate \subseteq (Nat \ {0}) \X (Nat \ {0})

VARIABLES
  gl,           \* the posted balance of each account in each currency, debits positive
  payments,     \* Payment rows with their settlement, if any
  allocations,  \* CustomerAllocation rows
  returns,      \* SalesReturn rows
  refunds,      \* Refund rows
  draft         \* the sales return a transaction has prepared and not committed

vars == <<gl, payments, allocations, returns, refunds, draft>>
-----------------------------------------------------------------------------
(* Rounding and journals *)

\* quantize_half_up of n/d cents.
HalfUp(n, d) == (2 * n + d) \div (2 * d)

\* Decimal.quantize without a rounding mode: half to even.
HalfEven(n, d) ==
  LET q == n \div d
      r == n % d
  IN IF 2 * r > d \/ (2 * r = d /\ q % 2 = 1) THEN q + 1 ELSE q

Cash == "1110"
Receivable == "1310"
Clearing == "1910"
CustomerCredit == "2200"
Revenue == "4100"
SalesReturns == "4200"
Account == {Cash, Receivable, Clearing, CustomerCredit, Revenue, SalesReturns}

\* The balances one more line adds.
Line(a, c, n) == [k \in Account \X Currency |-> IF k = <<a, c>> THEN n ELSE 0]

\* A journal of two lines; the mirror of a journal swaps debit and credit.
Journal(debit, credit, c, n) ==
  [k \in Account \X Currency |-> Line(debit, c, n)[k] - Line(credit, c, n)[k]]

Plus(f, g) == [k \in Account \X Currency |-> f[k] + g[k]]

Sum(S, f(_)) == SumFunctionOnSet([x \in S |-> f(x)], S)
-----------------------------------------------------------------------------
(* Rows *)

Absent == [status |-> "ABSENT"]
NoSettlement == [debt |-> 0]

PaymentRow ==
  [status: {"POSTED", "REVERSED"}, purpose: {"RECEIVABLE", "CUSTOMER_CREDIT"},
   currency: Currency, amount: Nat \ {0},
   settlement: {NoSettlement} \cup [debt: Nat \ {0}, currency: Currency, rate: Rate]]

AllocationRow ==
  [status: {"POSTED", "REVERSED"}, payment: Payment, sale: Sale, settled: BOOLEAN,
   amount: Nat \ {0}, paid: Nat, credit: Nat]

ReturnRow ==
  [status: {"POSTED", "REVERSED"}, sale: Sale, quantity: Nat \ {0},
   entitlement: Nat \ {0}, refundable: Nat]

RefundRow ==
  [status: {"POSTED", "REVERSED"}, return: Return, amount: Nat \ {0},
   currency: Currency, paid: Nat \ {0}]

TypeOK ==
  /\ gl \in [Account \X Currency -> Int]
  /\ payments \in [Payment -> PaymentRow \cup {Absent}]
  /\ allocations \in [Allocation -> AllocationRow \cup {Absent}]
  /\ returns \in [Return -> ReturnRow \cup {Absent}]
  /\ refunds \in [Refund -> RefundRow \cup {Absent}]
  /\ draft \in [sale: Sale, quantity: Nat \ {0}, entitlement: Nat \ {0}, refundable: Nat] \cup {None}

\* The invoices as finalize_sale posted them.
Invoiced(c) == Sum({s \in Sale : SaleCurrency[s] = c}, LAMBDA s : Total[s])

Init ==
  /\ gl = [k \in Account \X Currency |->
             CASE k[1] = Receivable -> Sum({s \in CreditSale : SaleCurrency[s] = k[2]}, LAMBDA s : Total[s])
               [] k[1] = Cash -> Sum({s \in Sale \ CreditSale : SaleCurrency[s] = k[2]}, LAMBDA s : Total[s])
               [] k[1] = Revenue -> -Invoiced(k[2])
               [] OTHER -> 0]
  /\ payments = [p \in Payment |-> Absent]
  /\ allocations = [x \in Allocation |-> Absent]
  /\ returns = [r \in Return |-> Absent]
  /\ refunds = [f \in Refund |-> Absent]
  /\ draft = None
-----------------------------------------------------------------------------
(* What the services read *)

Posted(rows) == {i \in DOMAIN rows : rows[i].status = "POSTED"}

Of(p) == {x \in Posted(allocations) : allocations[x].payment = p}
To(s) == {x \in Posted(allocations) : allocations[x].sale = s}
ReturnsOf(s) == {r \in Posted(returns) : returns[r].sale = s}
RefundsOf(r) == {f \in Posted(refunds) : refunds[f].return = r}

Allocated(s) == Sum(To(s), LAMBDA x : allocations[x].amount)

\* payment_available
Available(p) ==
  payments[p].amount - Sum(Of(p), LAMBDA x : allocations[x].paid + allocations[x].credit)

\* The debt a settlement still covers.
DebtLeft(p) ==
  payments[p].settlement.debt
    - Sum({x \in Of(p) : allocations[x].settled}, LAMBDA x : allocations[x].amount)

\* invoice_outstanding: a cash sale is always settled.
Outstanding(s) == IF s \in CreditSale THEN Total[s] - Allocated(s) ELSE 0

ReturnedQuantity(s) == Sum(ReturnsOf(s), LAMBDA r : returns[r].quantity)
ReturnedAmount(s) == Sum(ReturnsOf(s), LAMBDA r : returns[r].entitlement)
ReturnedReceivable(s) ==
  Sum(ReturnsOf(s), LAMBDA r : returns[r].entitlement - returns[r].refundable)

\* Mutant: credit already given for returns is not taken off the invoice.
RemainingReceivableOfAll(s) == Outstanding(s)

\* _remaining_invoice_receivable
RemainingReceivable(s) == Max({Outstanding(s) - ReturnedReceivable(s), 0})

\* Mutant: the whole of what is owed, whatever the return is worth.
OwedWhole(s, amount) == IF s \in CreditSale THEN RemainingReceivable(s) ELSE 0

\* The part of a return the invoice still owes.
OwedPart(s, amount) ==
  IF s \in CreditSale THEN Min({amount, RemainingReceivable(s)}) ELSE 0

\* Mutant: the last units are rounded like the others.
EntitlementRounded(s, q) ==
  Min({HalfUp(Total[s] * q, Quantity[s]), Total[s] - ReturnedAmount(s)})

\* _allocate_return_entitlement: the last units take the exact remainder.
Entitlement(s, q) ==
  LET left == Total[s] - ReturnedAmount(s)
  IN IF q = Quantity[s] - ReturnedQuantity(s) THEN left
     ELSE Min({HalfUp(Total[s] * q, Quantity[s]), left})

\* _remaining_refundable
Refundable(r) == returns[r].refundable - Sum(RefundsOf(r), LAMBDA f : refunds[f].amount)

\* _refund_amount: the rate is quoted in base currency per foreign unit.
RefundAmount(a, from, to, rate) ==
  CASE from = to -> a
    [] from = Base /\ to # Base -> HalfUp(a * rate[2], rate[1])
    [] OTHER -> HalfUp(a * rate[1], rate[2])

\* A prepared return holds the customer's row.
CustomerFree == draft = None
-----------------------------------------------------------------------------
(* Payments *)

ObligationOf(purpose) == IF purpose = "RECEIVABLE" THEN Receivable ELSE CustomerCredit

CreatePayment(p, purpose, c, a) ==
  /\ payments[p] = Absent
  /\ payments' = [payments EXCEPT ![p] =
       [status |-> "POSTED", purpose |-> purpose, currency |-> c, amount |-> a,
        settlement |-> NoSettlement]]
  /\ gl' = Plus(gl, Journal(Cash, ObligationOf(purpose), c, a))
  /\ UNCHANGED <<allocations, returns, refunds, draft>>

\* The journal is mirrored; nothing asks for the payment's allocations.
ReversePayment(p) ==
  /\ payments[p].status = "POSTED"
  /\ payments[p].settlement = NoSettlement
  /\ payments' = [payments EXCEPT ![p].status = "REVERSED"]
  /\ gl' = Plus(gl, Journal(ObligationOf(payments[p].purpose), Cash,
                            payments[p].currency, payments[p].amount))
  /\ UNCHANGED <<allocations, returns, refunds, draft>>

\* The payment in one currency and the debt it settles in another are posted
\* against the clearing account.
SettlementJournals(c, paid, dc, debt) ==
  Plus(Journal(Cash, Clearing, c, paid), Journal(Clearing, Receivable, dc, debt))

CreateSettlement(p, c, dc, debt, rate) ==
  LET paid == HalfEven(debt * rate[1], rate[2])
  IN /\ payments[p] = Absent
     /\ c # dc
     /\ paid > 0
     /\ payments' = [payments EXCEPT ![p] =
          [status |-> "POSTED", purpose |-> "RECEIVABLE", currency |-> c, amount |-> paid,
           settlement |-> [debt |-> debt, currency |-> dc, rate |-> rate]]]
     /\ gl' = Plus(gl, SettlementJournals(c, paid, dc, debt))
     /\ UNCHANGED <<allocations, returns, refunds, draft>>

\* reverse_cross_currency_settlement asks for the allocations of the settlement.
ReverseSettlement(p) ==
  LET t == payments[p].settlement
  IN /\ CustomerFree
     /\ payments[p].status = "POSTED"
     /\ t # NoSettlement
     /\ \A x \in Of(p) : ~allocations[x].settled
     /\ payments' = [payments EXCEPT ![p].status = "REVERSED"]
     /\ gl' = Plus(gl, Plus(Journal(Clearing, Cash, payments[p].currency, payments[p].amount),
                            Journal(Receivable, Clearing, t.currency, t.debt)))
     /\ UNCHANGED <<allocations, returns, refunds, draft>>
-----------------------------------------------------------------------------
(* Allocations *)

\* The journal of an allocation: credit brought to the invoice, or the part of
\* a payment beyond the invoice turned into credit.
ReclassOf(row) ==
  LET p == payments[row.payment]
  IN IF p.purpose = "CUSTOMER_CREDIT"
     THEN Journal(CustomerCredit, Receivable, p.currency, row.amount)
     ELSE Journal(Receivable, CustomerCredit, p.currency, row.credit)

\* Mutant: only the journal of applied credit is mirrored.
UnreclassOfCreditOnly(row) ==
  LET p == payments[row.payment]
  IN IF p.purpose = "CUSTOMER_CREDIT"
     THEN Journal(Receivable, CustomerCredit, p.currency, row.amount)
     ELSE Journal(CustomerCredit, Receivable, p.currency, 0)

UnreclassOf(row) ==
  LET p == payments[row.payment]
  IN IF p.purpose = "CUSTOMER_CREDIT"
     THEN Journal(Receivable, CustomerCredit, p.currency, row.amount)
     ELSE Journal(CustomerCredit, Receivable, p.currency, row.credit)

Allocate(x, row) ==
  /\ allocations[x] = Absent
  /\ allocations' = [allocations EXCEPT ![x] = row]
  /\ gl' = Plus(gl, ReclassOf(row))
  /\ UNCHANGED <<payments, returns, refunds, draft>>

CanAllocate(p, s) ==
  /\ CustomerFree
  /\ payments[p].status = "POSTED"
  /\ s \in CreditSale
  /\ Available(p) > 0
  /\ Outstanding(s) > 0

\* allocate_payment without a settlement: what exceeds the invoice becomes
\* credit, unless it already was.
AllocatePayment(x, p, s, requested) ==
  LET applied == Min({requested, Outstanding(s)})
  IN /\ CanAllocate(p, s)
     /\ payments[p].currency = SaleCurrency[s]
     /\ requested <= Available(p)
     /\ Allocate(x, [status |-> "POSTED", payment |-> p, sale |-> s, settled |-> FALSE,
                     amount |-> applied, paid |-> applied,
                     credit |-> IF payments[p].purpose = "CUSTOMER_CREDIT" THEN 0
                                ELSE requested - applied])

\* Mutant: what was allocated of the payment by itself is not counted.
WithinDebtOnly(p, s, requested, paid) ==
  requested <= DebtLeft(p) /\ requested <= Outstanding(s)

WithinSettlement(p, s, requested, paid) ==
  /\ requested <= DebtLeft(p)
  /\ requested <= Outstanding(s)
  /\ paid <= Available(p)

\* allocate_payment with the payment's settlement.
AllocateSettlement(x, p, s, requested) ==
  LET t == payments[p].settlement
      paid == HalfUp(requested * t.rate[1], t.rate[2])
  IN /\ CanAllocate(p, s)
     /\ t # NoSettlement
     /\ t.currency = SaleCurrency[s]
     /\ WithinSettlement(p, s, requested, paid)
     /\ Allocate(x, [status |-> "POSTED", payment |-> p, sale |-> s, settled |-> TRUE,
                     amount |-> requested, paid |-> paid, credit |-> 0])

ReverseAllocation(x) ==
  /\ CustomerFree
  /\ allocations[x].status = "POSTED"
  /\ allocations' = [allocations EXCEPT ![x].status = "REVERSED"]
  /\ gl' = Plus(gl, UnreclassOf(allocations[x]))
  /\ UNCHANGED <<payments, returns, refunds, draft>>
-----------------------------------------------------------------------------
(* Returns and refunds *)

\* create_sales_return up to its commit: the entitlement and the part of it
\* the invoice still owes.
PrepareReturn(s, q) ==
  LET amount == Entitlement(s, q)
  IN /\ CustomerFree
     /\ q <= Quantity[s] - ReturnedQuantity(s)
     /\ amount > 0
     /\ draft' = [sale |-> s, quantity |-> q, entitlement |-> amount,
                  refundable |-> amount - OwedPart(s, amount)]
     /\ UNCHANGED <<gl, payments, allocations, returns, refunds>>

\* 4200 against the receivable and the customer's credit, as split.
ReturnJournal(row) ==
  LET c == SaleCurrency[row.sale]
  IN Plus(Journal(SalesReturns, Receivable, c, row.entitlement - row.refundable),
          Journal(SalesReturns, CustomerCredit, c, row.refundable))

CommitReturn(r) ==
  /\ draft # None
  /\ returns[r] = Absent
  /\ returns' = [returns EXCEPT ![r] =
       [status |-> "POSTED", sale |-> draft.sale, quantity |-> draft.quantity,
        entitlement |-> draft.entitlement, refundable |-> draft.refundable]]
  /\ gl' = Plus(gl, ReturnJournal(draft))
  /\ draft' = None
  /\ UNCHANGED <<payments, allocations, refunds>>

\* The transaction fails on the stock, the number or the period.
AbortReturn ==
  /\ draft # None
  /\ draft' = None
  /\ UNCHANGED <<gl, payments, allocations, returns, refunds>>

\* Mutant: refunds are not looked at.
CanUndoAnyway(r) == returns[r].status = "POSTED"

CanUndo(r) == returns[r].status = "POSTED" /\ RefundsOf(r) = {}

\* The mirror of ReturnJournal.
UnreturnJournal(row) ==
  LET c == SaleCurrency[row.sale]
  IN Plus(Journal(Receivable, SalesReturns, c, row.entitlement - row.refundable),
          Journal(CustomerCredit, SalesReturns, c, row.refundable))

ReverseReturn(r) ==
  /\ CanUndo(r)
  /\ returns' = [returns EXCEPT ![r].status = "REVERSED"]
  /\ gl' = Plus(gl, UnreturnJournal(returns[r]))
  /\ UNCHANGED <<payments, allocations, refunds, draft>>

\* Paid from the credit directly, or across currencies through clearing.
RefundJournals(from, a, to, paid) ==
  IF from = to THEN Journal(CustomerCredit, Cash, from, a)
  ELSE Plus(Journal(CustomerCredit, Clearing, from, a), Journal(Clearing, Cash, to, paid))

CanRefund(r, a) == returns[r].status = "POSTED" /\ a <= Refundable(r)

CreateRefund(f, r, a, to, rate) ==
  LET from == SaleCurrency[returns[r].sale]
      paid == RefundAmount(a, from, to, rate)
  IN /\ CustomerFree
     /\ refunds[f] = Absent
     /\ CanRefund(r, a)
     /\ paid > 0
     /\ refunds' = [refunds EXCEPT ![f] =
          [status |-> "POSTED", return |-> r, amount |-> a, currency |-> to, paid |-> paid]]
     /\ gl' = Plus(gl, RefundJournals(from, a, to, paid))
     /\ UNCHANGED <<payments, allocations, returns, draft>>

\* Mutant: across currencies only the cash journal is mirrored.
UnrefundCashOnly(from, row) ==
  IF from = row.currency THEN Journal(Cash, CustomerCredit, from, row.amount)
  ELSE Journal(Cash, Clearing, row.currency, row.paid)

\* Every journal of the refund is mirrored.
UnrefundJournals(from, row) ==
  IF from = row.currency THEN Journal(Cash, CustomerCredit, from, row.amount)
  ELSE Plus(Journal(Clearing, CustomerCredit, from, row.amount),
            Journal(Cash, Clearing, row.currency, row.paid))

ReverseRefund(f) ==
  /\ refunds[f].status = "POSTED"
  /\ refunds' = [refunds EXCEPT ![f].status = "REVERSED"]
  /\ gl' = Plus(gl, UnrefundJournals(SaleCurrency[returns[refunds[f].return].sale], refunds[f]))
  /\ UNCHANGED <<payments, allocations, returns, draft>>
-----------------------------------------------------------------------------
PaymentStep(p) ==
  \/ \E purpose \in {"RECEIVABLE", "CUSTOMER_CREDIT"}, c \in Currency, a \in Amount :
       CreatePayment(p, purpose, c, a)
  \/ ReversePayment(p)
  \/ \E c, dc \in Currency, debt \in Amount, rate \in Rate : CreateSettlement(p, c, dc, debt, rate)
  \/ ReverseSettlement(p)

AllocationStep(x) ==
  \/ \E p \in Payment, s \in Sale, a \in Amount :
       AllocatePayment(x, p, s, a) \/ AllocateSettlement(x, p, s, a)
  \/ ReverseAllocation(x)

ReturnStep(r) == CommitReturn(r) \/ ReverseReturn(r)

RefundStep(f) ==
  \/ \E r \in Return, a \in Amount, to \in Currency, rate \in Rate : CreateRefund(f, r, a, to, rate)
  \/ ReverseRefund(f)

Next ==
  \/ \E p \in Payment : PaymentStep(p)
  \/ \E x \in Allocation : AllocationStep(x)
  \/ \E s \in Sale : \E q \in 1 .. Quantity[s] : PrepareReturn(s, q)
  \/ \E r \in Return : ReturnStep(r)
  \/ AbortReturn
  \/ \E f \in Refund : RefundStep(f)

Spec == Init /\ [][Next]_vars
=============================================================================
