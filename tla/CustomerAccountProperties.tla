---------------------- MODULE CustomerAccountProperties ----------------------
(* What the customer's account guarantees. *)
EXTENDS CustomerAccount

InCurrency(S, c) == {s \in S : SaleCurrency[s] = c}

\* What a payment has taken off the receivable account and not off an invoice.
Unapplied(c) ==
  Sum({p \in Posted(payments) : /\ payments[p].purpose = "RECEIVABLE"
                                /\ payments[p].settlement = NoSettlement
                                /\ payments[p].currency = c}, Available)
  + Sum({p \in Posted(payments) : /\ payments[p].settlement # NoSettlement
                                  /\ payments[p].settlement.currency = c}, DebtLeft)

\* Allocations of receivable payments that no journal stands behind: the
\* payment was reversed, or it settled a debt in the other currency.
Strays ==
  {x \in Posted(allocations) :
     LET p == payments[allocations[x].payment]
     IN /\ p.purpose = "RECEIVABLE"
        /\ p.status = "REVERSED" \/ (p.settlement # NoSettlement /\ ~allocations[x].settled)}

Unbacked(c) ==
  Sum({x \in Strays : SaleCurrency[allocations[x].sale] = c},
      LAMBDA x : allocations[x].amount + allocations[x].credit)

\* The receivable account ties with the documents: it is what the invoices
\* show outstanding, less what payments have not applied and returns have taken
\* off, and it can be above that only by what stray allocations hide.
ReceivableTies ==
  \A c \in Currency :
    gl[<<Receivable, c>>] =
      Sum(InCurrency(CreditSale, c), Outstanding) - Unapplied(c)
      - Sum(InCurrency(Sale, c), ReturnedReceivable) + Unbacked(c)

\* Credit payments reversed with some of them applied to invoices.
Overdrawn(c) ==
  Sum({x \in Posted(allocations) :
         LET p == payments[allocations[x].payment]
         IN p.purpose = "CUSTOMER_CREDIT" /\ p.status = "REVERSED" /\ p.currency = c},
      LAMBDA x : allocations[x].amount)

\* The credit account ties with the documents: unapplied credit payments,
\* payments beyond their invoice and returns not yet refunded.
CreditTies ==
  \A c \in Currency :
    -gl[<<CustomerCredit, c>>] =
      Sum({p \in Posted(payments) : /\ payments[p].purpose = "CUSTOMER_CREDIT"
                                    /\ payments[p].currency = c}, Available)
      + Sum({x \in Posted(allocations) : SaleCurrency[allocations[x].sale] = c},
            LAMBDA x : allocations[x].credit)
      + Sum({r \in Posted(returns) : SaleCurrency[returns[r].sale] = c}, Refundable)
      - Overdrawn(c)

\* Nothing is used twice: payments, settled debts, invoices, the units and the
\* price of a line, and the credit of a return all bound what draws on them.
NeverOverdrawn ==
  /\ \A p \in Payment : payments[p] # Absent => Available(p) >= 0 /\
       (payments[p].settlement # NoSettlement => DebtLeft(p) >= 0)
  /\ \A s \in Sale : /\ Outstanding(s) >= 0
                     /\ ReturnedQuantity(s) <= Quantity[s]
                     /\ ReturnedAmount(s) <= Total[s]
                     /\ ReturnedReceivable(s) <= Total[s]
  /\ \A r \in Posted(returns) : Refundable(r) >= 0

\* However a line is returned, reversed and returned again, once every unit is
\* back the customer is entitled to exactly its price, to the cent.
EntitlementIsExact ==
  \A s \in Sale : ReturnedQuantity(s) = Quantity[s] => ReturnedAmount(s) = Total[s]

\* A return takes off its invoice only what is still owed on it after payments
\* and earlier returns; the rest is credit.
ReturnsTakeOnlyWhatIsOwed ==
  [][\A s \in CreditSale :
       ReturnedReceivable(s)' > ReturnedReceivable(s) =>
         Allocated(s)' + ReturnedReceivable(s)' <= Total[s]]_vars

\* A refund is backed by a return: no return is undone under a paid refund.
RefundsAreBacked == \A f \in Posted(refunds) : returns[refunds[f].return].status = "POSTED"
=============================================================================
