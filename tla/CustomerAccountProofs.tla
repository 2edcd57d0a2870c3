-------------------------- MODULE CustomerAccountProofs --------------------------
(***************************************************************************)
(* Proofs about CustomerAccount.                                           *)
(*                                                                         *)
(* Refunds stand on returns (BackedInv).  Every step posts one document    *)
(* row, reverses one, or takes or drops a draft (StepIs), and what it      *)
(* checks before that is what the rest needs.  UseInv says nothing is used *)
(* twice in sums over the posted rows; LedgerInv says the receivable and   *)
(* the credit account are such sums too, and the properties about balances *)
(* follow by splitting and regrouping them (SumTheorems).                  *)
(***************************************************************************)
EXTENDS CustomerAccountProperties, SumTheorems, TLAPS

ReturnFields == {"status", "sale", "quantity", "entitlement", "refundable"}
RefundFields == {"status", "return", "amount", "currency", "paid"}

\* A row is absent or a record of its fields; amounts are left open.
Shaped(rows, ids, fields) ==
  /\ DOMAIN rows = ids
  /\ rows = [i \in ids |-> rows[i]]
  /\ \A i \in ids : rows[i] = Absent \/ DOMAIN rows[i] = fields

\* What a posted refund refers to is a return, and it is posted.
BackedInv ==
  /\ Shaped(returns, Return, ReturnFields)
  /\ Shaped(refunds, Refund, RefundFields)
  /\ \A f \in Posted(refunds) : refunds[f].return \in Return
  /\ RefundsAreBacked
-----------------------------------------------------------------------------
\* There are no refunds at first.
LEMMA BackedInit == Init => BackedInv
  BY DEF Init, BackedInv, Shaped, RefundsAreBacked, Posted, Absent

\* A table keeps its shape when an absent row is filled.
LEMMA FilledRow ==
  ASSUME NEW rows, NEW ids, NEW fields, Shaped(rows, ids, fields),
         NEW i \in ids, NEW row, DOMAIN row = fields
  PROVE  Shaped([rows EXCEPT ![i] = row], ids, fields)
  BY DEF Shaped

\* A committed return fills an absent row, which no posted refund refers to.
LEMMA CommitReturnKeeps ==
  ASSUME BackedInv, NEW r \in Return, CommitReturn(r)
  PROVE  BackedInv'
  <1> DEFINE row == [status |-> "POSTED", sale |-> draft.sale, quantity |-> draft.quantity,
                     entitlement |-> draft.entitlement, refundable |-> draft.refundable]
  <1>1. returns[r] = Absent /\ returns' = [returns EXCEPT ![r] = row] /\ refunds' = refunds
    BY DEF CommitReturn
  <1>2. Shaped(returns', Return, ReturnFields)
    <2>1. DOMAIN row = ReturnFields
      BY DEF ReturnFields
    <2> HIDE DEF row
    <2> QED
      BY <1>1, <2>1, FilledRow DEF BackedInv
  <1>3. \A q \in Return \ {r} : returns'[q] = returns[q]
    BY <1>1 DEF BackedInv, Shaped
  <1>4. \A f \in Posted(refunds) : refunds[f].return # r
    BY <1>1 DEF BackedInv, RefundsAreBacked, Absent
  <1> QED
    BY <1>1, <1>2, <1>3, <1>4 DEF BackedInv, RefundsAreBacked, Posted

\* A return is undone only when no posted refund refers to it.
LEMMA ReverseReturnKeeps ==
  ASSUME BackedInv, NEW r \in Return, ReverseReturn(r)
  PROVE  BackedInv'
  <1>1. /\ returns[r].status = "POSTED"
        /\ RefundsOf(r) = {}
        /\ returns' = [returns EXCEPT ![r].status = "REVERSED"]
        /\ refunds' = refunds
    BY DEF ReverseReturn, CanUndo
  <1>2. DOMAIN returns[r] = ReturnFields
    BY <1>1 DEF BackedInv, Shaped, Absent
  <1>3. Shaped(returns', Return, ReturnFields)
    BY <1>1, <1>2 DEF BackedInv, Shaped, ReturnFields
  <1>4. \A q \in Return \ {r} : returns'[q] = returns[q]
    BY <1>1 DEF BackedInv, Shaped
  <1>5. \A f \in Posted(refunds) : refunds[f].return # r
    BY <1>1 DEF RefundsOf
  <1> QED
    BY <1>1, <1>3, <1>4, <1>5 DEF BackedInv, RefundsAreBacked, Posted

\* A refund is made of a posted return.
LEMMA CreateRefundKeeps ==
  ASSUME BackedInv, NEW f \in Refund, NEW r \in Return, NEW a \in Amount,
         NEW to \in Currency, NEW rate \in Rate, CreateRefund(f, r, a, to, rate)
  PROVE  BackedInv'
  <1> DEFINE paid == RefundAmount(a, SaleCurrency[returns[r].sale], to, rate)
             row == [status |-> "POSTED", return |-> r, amount |-> a, currency |-> to, paid |-> paid]
  <1>1. returns[r].status = "POSTED" /\ refunds' = [refunds EXCEPT ![f] = row] /\ returns' = returns
    BY DEF CreateRefund, CanRefund
  <1>2. DOMAIN row = RefundFields /\ row.return = r
    BY DEF RefundFields
  <1> HIDE DEF row
  <1>3. Shaped(refunds', Refund, RefundFields)
    BY <1>1, <1>2, FilledRow DEF BackedInv
  <1>4. refunds'[f] = row /\ \A g \in Refund \ {f} : refunds'[g] = refunds[g]
    BY <1>1 DEF BackedInv, Shaped
  <1> QED
    BY <1>1, <1>2, <1>3, <1>4 DEF BackedInv, RefundsAreBacked, Posted, Shaped

\* Fewer refunds are posted after the reversal of one.
LEMMA ReverseRefundKeeps ==
  ASSUME BackedInv, NEW f \in Refund, ReverseRefund(f)
  PROVE  BackedInv'
  <1>1. /\ refunds[f].status = "POSTED"
        /\ refunds' = [refunds EXCEPT ![f].status = "REVERSED"]
        /\ returns' = returns
    BY DEF ReverseRefund
  <1>2. DOMAIN refunds[f] = RefundFields
    BY <1>1 DEF BackedInv, Shaped, Absent
  <1>3. Shaped(refunds', Refund, RefundFields)
    BY <1>1, <1>2 DEF BackedInv, Shaped, RefundFields
  <1>4. refunds'[f].status = "REVERSED" /\ \A g \in Refund \ {f} : refunds'[g] = refunds[g]
    BY <1>1, <1>2 DEF BackedInv, Shaped, RefundFields
  <1> QED
    BY <1>1, <1>3, <1>4 DEF BackedInv, RefundsAreBacked, Posted, Shaped
-----------------------------------------------------------------------------
\* Every step keeps the invariant: payments and allocations touch neither table.
LEMMA BackedStep == BackedInv /\ [Next]_vars => BackedInv'
  <1> SUFFICES ASSUME BackedInv, [Next]_vars PROVE BackedInv'
    OBVIOUS
  <1>1. ASSUME UNCHANGED <<returns, refunds>> PROVE BackedInv'
    BY <1>1 DEF BackedInv, Shaped, RefundsAreBacked, Posted
  <1>2. ASSUME NEW p \in Payment, PaymentStep(p) PROVE BackedInv'
    BY <1>1, <1>2 DEF PaymentStep, CreatePayment, ReversePayment, CreateSettlement, ReverseSettlement
  <1>3. ASSUME NEW x \in Allocation, AllocationStep(x) PROVE BackedInv'
    <2>1. ASSUME NEW row, Allocate(x, row) PROVE BackedInv'
      BY <1>1, <2>1 DEF Allocate
    <2>2. ASSUME NEW p \in Payment, NEW s \in Sale, NEW a \in Amount, AllocatePayment(x, p, s, a)
          PROVE  BackedInv'
      BY <2>1, <2>2 DEF AllocatePayment
    <2>3. ASSUME NEW p \in Payment, NEW s \in Sale, NEW a \in Amount, AllocateSettlement(x, p, s, a)
          PROVE  BackedInv'
      BY <2>1, <2>3 DEF AllocateSettlement
    <2>4. ASSUME ReverseAllocation(x) PROVE BackedInv'
      BY <1>1, <2>4 DEF ReverseAllocation
    <2> QED
      BY <1>3, <2>2, <2>3, <2>4 DEF AllocationStep
  <1>4. ASSUME NEW s \in Sale, NEW q \in 1 .. Quantity[s], PrepareReturn(s, q) PROVE BackedInv'
    BY <1>1, <1>4 DEF PrepareReturn
  <1>5. ASSUME NEW r \in Return, ReturnStep(r) PROVE BackedInv'
    BY <1>5, CommitReturnKeeps, ReverseReturnKeeps DEF ReturnStep
  <1>6. ASSUME AbortReturn PROVE BackedInv'
    BY <1>1, <1>6 DEF AbortReturn
  <1>7. ASSUME NEW f \in Refund, RefundStep(f) PROVE BackedInv'
    BY <1>7, CreateRefundKeeps, ReverseRefundKeeps DEF RefundStep
  <1>8. CASE UNCHANGED vars
    BY <1>1, <1>8 DEF vars
  <1> QED
    BY <1>2, <1>3, <1>4, <1>5, <1>6, <1>7, <1>8 DEF Next

\* Whatever is returned, refunded and reversed, a posted refund pays out the
\* credit of a posted return (sales/returns_services.py create_refund,
\* reverse_sales_return).
THEOREM RefundsStand == Spec => []RefundsAreBacked
  <1>1. BackedInv => RefundsAreBacked
    BY DEF BackedInv
  <1> QED
    BY <1>1, BackedInit, BackedStep, PTL DEF Spec
-----------------------------------------------------------------------------
(* Sums over the posted rows of a table that belong to a set Q, each with the *)
(* value v gives it.                                                          *)
Move(up, n) == IF up THEN n ELSE -n
Chosen(X, Q) == {j \in Posted(X) : X[j] \in Q}
Over(X, Q, v) == SumFunctionOnSet([j \in Chosen(X, Q) |-> v[X[j]]], Chosen(X, Q))

Table(X, ids, T) == X \in [ids -> T \cup {Absent}]
Filled(X) == {j \in DOMAIN X : X[j] # Absent}

\* Row i of X becomes the posted row doc of Y, or the other way about, and no
\* other row changes.
Posts(X, Y, ids, T, i, doc) ==
  /\ i \in ids /\ doc \in T /\ Table(X, ids, T) /\ Table(Y, ids, T) /\ IsFiniteSet(Filled(X))
  /\ \A j \in ids \ {i} : Y[j] = X[j]
  /\ X[i].status # "POSTED" /\ Y[i] = doc /\ doc.status = "POSTED"

Turned(X, Y, ids, T, i, doc, up) ==
  up \in BOOLEAN /\ IF up THEN Posts(X, Y, ids, T, i, doc) ELSE Posts(Y, X, ids, T, i, doc)

LEMMA ChosenFinite ==
  ASSUME NEW X, IsFiniteSet(Filled(X))
  PROVE  IsFiniteSet(Posted(X)) /\ \A Q : IsFiniteSet(Chosen(X, Q))
  <1>1. Posted(X) \in SUBSET Filled(X)
    BY DEF Posted, Filled, Absent
  <1>2. \A Q : Chosen(X, Q) \in SUBSET Filled(X)
    BY <1>1 DEF Chosen
  <1> QED
    BY <1>1, <1>2, FS_Subset

LEMMA PostedRows ==
  ASSUME NEW X, NEW ids, NEW T, Table(X, ids, T)
  PROVE  \A j \in Posted(X) : j \in ids /\ X[j] \in T
  BY DEF Table, Posted, Absent

LEMMA OverNat ==
  ASSUME NEW X, NEW ids, NEW T, Table(X, ids, T), IsFiniteSet(Filled(X)), NEW v \in [T -> Nat]
  PROVE  \A Q : Over(X, Q, v) \in Nat
  <1> SUFFICES ASSUME NEW Q PROVE Over(X, Q, v) \in Nat
    OBVIOUS
  <1> DEFINE S == Chosen(X, Q)
             f == [j \in S |-> v[X[j]]]
  <1>1. IsFiniteSet(S) /\ \A j \in S : f[j] \in Nat
    BY ChosenFinite, PostedRows DEF Chosen
  <1> HIDE DEF S, f
  <1>2. SumFunctionOnSet(f, S) \in Nat
    BY <1>1, SumNat
  <1> QED
    BY <1>2 DEF Over, S, f

LEMMA OverEmpty ==
  ASSUME NEW X, NEW Q, NEW v, Chosen(X, Q) = {}
  PROVE  Over(X, Q, v) = 0
  BY SumEmpty DEF Over

\* The rows that count are the same, and so are their values.
LEMMA OverSame ==
  ASSUME NEW X, NEW Y, NEW P, NEW Q, NEW v, Chosen(X, P) = Chosen(Y, Q),
         \A j \in Chosen(X, P) : X[j] = Y[j]
  PROVE  Over(X, P, v) = Over(Y, Q, v)
  BY DEF Over

LEMMA OverPosts ==
  ASSUME NEW X, NEW Y, NEW ids, NEW T, NEW i, NEW doc, Posts(X, Y, ids, T, i, doc),
         NEW Q, NEW v \in [T -> Int]
  PROVE  /\ Over(X, Q, v) \in Int /\ Over(Y, Q, v) \in Int
         /\ Over(Y, Q, v) = Over(X, Q, v) + (IF doc \in Q THEN v[doc] ELSE 0)
  <1> DEFINE S == Chosen(X, Q)
             R == Chosen(Y, Q)
             f == [j \in S |-> v[X[j]]]
             g == [j \in R |-> v[Y[j]]]
  <1>1. /\ i \in ids /\ doc \in T /\ Table(X, ids, T) /\ Table(Y, ids, T) /\ IsFiniteSet(Filled(X))
        /\ \A j \in ids \ {i} : Y[j] = X[j]
        /\ X[i].status # "POSTED" /\ Y[i] = doc /\ doc.status = "POSTED" /\ DOMAIN X = ids /\ DOMAIN Y = ids
    BY DEF Posts, Table
  <1>2. IsFiniteSet(S) /\ S \subseteq ids /\ R \subseteq ids
    <2>1. IsFiniteSet(S)
      BY <1>1, ChosenFinite
    <2>2. S \subseteq Posted(X) /\ R \subseteq Posted(Y) /\ Posted(X) \subseteq ids /\ Posted(Y) \subseteq ids
      BY <1>1 DEF Chosen, Posted
    <2> QED
      BY <2>1, <2>2
  <1>3. S \ {i} = R \ {i} /\ i \notin S /\ (i \in R <=> doc \in Q)
    BY <1>1 DEF Chosen, Posted
  <1>4. IntOn(f, S) /\ IntOn(g, R)
    BY <1>1, PostedRows DEF IntOn, Chosen
  <1>5. (\A j \in S \ {i} : g[j] = f[j]) /\ (i \in R => g[i] = v[doc]) /\ v[doc] \in Int
    BY <1>1, <1>2, <1>3
  <1> HIDE DEF S, R, f, g
  <1>6. /\ SumFunctionOnSet(f, S) \in Int /\ SumFunctionOnSet(g, R) \in Int
        /\ SumFunctionOnSet(g, R) = SumFunctionOnSet(f, S) - (IF i \in S THEN f[i] ELSE 0)
                                                           + (IF i \in R THEN g[i] ELSE 0)
    BY <1>2, <1>3, <1>4, <1>5, SumChange
  <1>7. SumFunctionOnSet(g, R) = SumFunctionOnSet(f, S) + (IF doc \in Q THEN v[doc] ELSE 0)
    BY <1>3, <1>5, <1>6
  <1> QED
    BY <1>6, <1>7 DEF Over, S, R, f, g

LEMMA OverTurned ==
  ASSUME NEW X, NEW Y, NEW ids, NEW T, NEW i, NEW doc, NEW up, Turned(X, Y, ids, T, i, doc, up),
         NEW Q, NEW v \in [T -> Int]
  PROVE  /\ Over(X, Q, v) \in Int /\ Over(Y, Q, v) \in Int
         /\ Over(Y, Q, v) = Over(X, Q, v) + (IF doc \in Q THEN Move(up, v[doc]) ELSE 0)
  <1>1. doc \in T /\ v[doc] \in Int
    BY DEF Turned, Posts
  <1>2. CASE up
    <2>1. Posts(X, Y, ids, T, i, doc)
      BY <1>2 DEF Turned
    <2> QED
      BY <1>1, <1>2, <2>1, OverPosts DEF Move
  <1>3. CASE ~up
    <2>1. Posts(Y, X, ids, T, i, doc)
      BY <1>3 DEF Turned
    <2>2. /\ Over(X, Q, v) \in Int /\ Over(Y, Q, v) \in Int
          /\ Over(X, Q, v) = Over(Y, Q, v) + (IF doc \in Q THEN v[doc] ELSE 0)
      BY <2>1, OverPosts
    <2> QED
      BY <1>1, <1>3, <2>2 DEF Move
  <1> QED
    BY <1>2, <1>3 DEF Turned
-----------------------------------------------------------------------------
(* The inductive invariant. *)
FiniteRows ==
  /\ IsFiniteSet(Filled(payments)) /\ IsFiniteSet(Filled(allocations))
  /\ IsFiniteSet(Filled(returns)) /\ IsFiniteSet(Filled(refunds))

\* What an allocation says of its payment and of its invoice.
Stands(row, p) ==
  /\ p # Absent /\ row.sale \in CreditSale
  /\ row.settled => /\ p.settlement # NoSettlement /\ p.status = "POSTED" /\ row.credit = 0
                    /\ SaleCurrency[row.sale] = p.settlement.currency
  /\ ~row.settled => row.paid = row.amount /\ SaleCurrency[row.sale] = p.currency
  /\ p.purpose = "CUSTOMER_CREDIT" => row.credit = 0

AllocationsStand == \A x \in Posted(allocations) : Stands(allocations[x], payments[allocations[x].payment])

SettlementsStand ==
  \A p \in Payment : payments[p] # Absent =>
    (payments[p].settlement # NoSettlement => payments[p].purpose = "RECEIVABLE")

\* The rows that count, and what they count for.
OfRows(p) == {row \in AllocationRow : row.payment = p}
SettledRows(p) == {row \in AllocationRow : row.payment = p /\ row.settled}
ToRows(s) == {row \in AllocationRow : row.sale = s}
ReturnRows(s) == {row \in ReturnRow : row.sale = s}
RefundRows(r) == {row \in RefundRow : row.return = r}

AppliedOf == [row \in AllocationRow |-> row.amount]
DrawnOf == [row \in AllocationRow |-> row.paid + row.credit]
CreditOf == [row \in AllocationRow |-> row.credit]
UnitsOf == [row \in ReturnRow |-> row.quantity]
EntitledOf == [row \in ReturnRow |-> row.entitlement]
RefundableOf == [row \in ReturnRow |-> row.refundable]
TakenOffOf == [row \in ReturnRow |-> row.entitlement - row.refundable]
RefundedOf == [row \in RefundRow |-> row.amount]
PaidOf == [row \in PaymentRow |-> row.amount]
DebtOf == [row \in PaymentRow |-> row.settlement.debt]

Drawn(p) == Over(allocations, OfRows(p), DrawnOf)
Settled(p) == Over(allocations, SettledRows(p), AppliedOf)
Applied(s) == Over(allocations, ToRows(s), AppliedOf)
Back(s) == Over(returns, ReturnRows(s), UnitsOf)
Entitled(s) == Over(returns, ReturnRows(s), EntitledOf)
TakenOff(s) == Over(returns, ReturnRows(s), TakenOffOf)
Refunded(r) == Over(refunds, RefundRows(r), RefundedOf)

\* Nothing is used twice.
WithinPayments ==
  \A p \in Payment : payments[p] # Absent =>
    /\ Drawn(p) <= payments[p].amount
    /\ payments[p].settlement # NoSettlement => Settled(p) <= payments[p].settlement.debt
WithinInvoices == \A s \in CreditSale : Applied(s) <= Total[s]
WithinLines ==
  \A s \in Sale : /\ Back(s) <= Quantity[s] /\ Entitled(s) <= Total[s]
                  /\ Back(s) = Quantity[s] => Entitled(s) = Total[s]
WithinReturns == \A r \in Posted(returns) : Refunded(r) <= returns[r].refundable

\* A return takes no more off its invoice than it is worth.
ReturnsStand == \A r \in Posted(returns) : returns[r].refundable <= returns[r].entitlement

\* A prepared return still fits when it commits, whatever was reversed meanwhile.
DraftStands ==
  draft # None =>
    LET s == draft.sale
    IN /\ draft.refundable <= draft.entitlement
       /\ draft.quantity <= Quantity[s] - Back(s)
       /\ draft.entitlement <= Total[s] - Entitled(s)
       /\ draft.quantity = Quantity[s] - Back(s) => draft.entitlement = Total[s] - Entitled(s)
       /\ s \in CreditSale /\ draft.refundable < draft.entitlement =>
            Applied(s) + TakenOff(s) + (draft.entitlement - draft.refundable) <= Total[s]

\* The rows that move the receivable and the credit in currency c.
CreditPays(c) == {row \in PaymentRow : row.purpose = "CUSTOMER_CREDIT" /\ row.currency = c}
OpenPays(c) ==
  {row \in PaymentRow : row.purpose = "RECEIVABLE" /\ row.settlement = NoSettlement /\ row.currency = c}
SettlingPays(c) ==
  {row \in PaymentRow : row.settlement # NoSettlement /\ row.settlement.currency = c}
InvoiceRows(c) == {row \in AllocationRow : SaleCurrency[row.sale] = c}
CreditRows(c) == {row \in InvoiceRows(c) : payments[row.payment].purpose = "CUSTOMER_CREDIT"}
ReturnsIn(c) == {row \in ReturnRow : SaleCurrency[row.sale] = c}
RefundsIn(c) == {row \in RefundRow : SaleCurrency[returns[row.return].sale] = c}

CreditPaid(c) == Over(payments, CreditPays(c), PaidOf)
OpenPaid(c) == Over(payments, OpenPays(c), PaidOf)
DebtPaid(c) == Over(payments, SettlingPays(c), DebtOf)
CreditGiven(c) == Over(allocations, InvoiceRows(c), CreditOf)
CreditUsed(c) == Over(allocations, CreditRows(c), AppliedOf)
CreditBack(c) == Over(returns, ReturnsIn(c), RefundableOf)
DebtBack(c) == Over(returns, ReturnsIn(c), TakenOffOf)
CreditOut(c) == Over(refunds, RefundsIn(c), RefundedOf)
BilledOf(S, c) == SumFunctionOnSet([s \in InCurrency(S, c) |-> Total[s]], InCurrency(S, c))
Billed(c) == BilledOf(CreditSale, c)

\* Both accounts as the documents that moved them, whatever was reversed.
TiesAt(c) ==
  /\ -gl[<<CustomerCredit, c>>] =
       CreditPaid(c) - CreditUsed(c) + CreditGiven(c) + CreditBack(c) - CreditOut(c)
  /\ gl[<<Receivable, c>>] =
       Billed(c) - OpenPaid(c) - DebtPaid(c) + CreditGiven(c) - CreditUsed(c) - DebtBack(c)

LedgerInv == \A c \in Currency : TiesAt(c)

DocInv == TypeOK /\ FiniteRows /\ BackedInv /\ AllocationsStand /\ SettlementsStand
UseInv == WithinPayments /\ WithinInvoices /\ WithinLines /\ WithinReturns /\ ReturnsStand /\ DraftStands
-----------------------------------------------------------------------------
(* The amounts of the model are these sums. *)
LEMMA Numbers ==
  /\ \A n \in Amount : n \in Nat /\ n > 0
  /\ \A rate \in Rate : rate[1] \in Nat /\ rate[1] > 0 /\ rate[2] \in Nat /\ rate[2] > 0
  /\ \A s \in Sale : Total[s] \in Nat /\ Total[s] > 0 /\ Quantity[s] \in Nat /\ Quantity[s] > 0
                     /\ SaleCurrency[s] \in Currency
  /\ CreditSale \subseteq Sale /\ IsFiniteSet(Sale)
  BY CustomerAssumption

LEMMA ValuesTyped ==
  /\ AppliedOf \in [AllocationRow -> Nat] /\ DrawnOf \in [AllocationRow -> Nat]
  /\ CreditOf \in [AllocationRow -> Nat]
  /\ UnitsOf \in [ReturnRow -> Nat] /\ EntitledOf \in [ReturnRow -> Nat] /\ RefundableOf \in [ReturnRow -> Nat]
  /\ TakenOffOf \in [ReturnRow -> Int]
  /\ RefundedOf \in [RefundRow -> Nat]
  /\ PaidOf \in [PaymentRow -> Nat] /\ DebtOf \in [PaymentRow -> Nat]
  <1>1. \A row \in AllocationRow : row.amount \in Nat /\ row.paid \in Nat /\ row.credit \in Nat
    BY DEF AllocationRow
  <1>2. \A row \in ReturnRow : row.quantity \in Nat /\ row.entitlement \in Nat /\ row.refundable \in Nat
    BY DEF ReturnRow
  <1>3. \A row \in RefundRow : row.amount \in Nat
    BY DEF RefundRow
  <1>4. \A row \in PaymentRow : row.amount \in Nat /\ row.settlement.debt \in Nat
    BY DEF PaymentRow, NoSettlement
  <1>5. AppliedOf \in [AllocationRow -> Nat] /\ CreditOf \in [AllocationRow -> Nat]
    BY <1>1 DEF AppliedOf, CreditOf
  <1>6. DrawnOf \in [AllocationRow -> Nat]
    BY <1>1 DEF DrawnOf
  <1>7. UnitsOf \in [ReturnRow -> Nat] /\ EntitledOf \in [ReturnRow -> Nat] /\ RefundableOf \in [ReturnRow -> Nat]
    BY <1>2 DEF UnitsOf, EntitledOf, RefundableOf
  <1>8. TakenOffOf \in [ReturnRow -> Int]
    BY <1>2 DEF TakenOffOf
  <1>9. RefundedOf \in [RefundRow -> Nat] /\ PaidOf \in [PaymentRow -> Nat] /\ DebtOf \in [PaymentRow -> Nat]
    BY <1>3, <1>4 DEF RefundedOf, PaidOf, DebtOf
  <1> QED
    BY <1>5, <1>6, <1>7, <1>8, <1>9

\* The four tables are tables.
Typed ==
  /\ Table(payments, Payment, PaymentRow) /\ Table(allocations, Allocation, AllocationRow)
  /\ Table(returns, Return, ReturnRow) /\ Table(refunds, Refund, RefundRow)

LEMMA TablesAre == TypeOK => Typed
  BY DEF TypeOK, Table, Typed

LEMMA AvailableIs ==
  ASSUME TypeOK, NEW p
  PROVE  Available(p) = payments[p].amount - Drawn(p)
  <1>1. \A x \in Posted(allocations) : allocations[x] \in AllocationRow
    BY TablesAre, PostedRows DEF Typed
  <1>2. Of(p) = Chosen(allocations, OfRows(p))
    BY <1>1 DEF Of, Chosen, OfRows
  <1>3. [x \in Of(p) |-> allocations[x].paid + allocations[x].credit]
          = [x \in Chosen(allocations, OfRows(p)) |-> DrawnOf[allocations[x]]]
    BY <1>1, <1>2 DEF DrawnOf, Of
  <1> QED
    BY <1>2, <1>3 DEF Available, Drawn, Over, Sum

LEMMA DebtLeftIs ==
  ASSUME TypeOK, NEW p
  PROVE  DebtLeft(p) = payments[p].settlement.debt - Settled(p)
  <1> DEFINE S == {x \in Of(p) : allocations[x].settled}
  <1>1. \A x \in Posted(allocations) : allocations[x] \in AllocationRow
    BY TablesAre, PostedRows DEF Typed
  <1>2. S = Chosen(allocations, SettledRows(p))
    BY <1>1 DEF Of, Chosen, SettledRows
  <1>3. [x \in S |-> allocations[x].amount]
          = [x \in Chosen(allocations, SettledRows(p)) |-> AppliedOf[allocations[x]]]
    BY <1>1, <1>2 DEF AppliedOf, Of
  <1> HIDE DEF S
  <1>4. Settled(p) = SumFunctionOnSet([x \in S |-> allocations[x].amount], S)
    BY <1>2, <1>3 DEF Settled, Over
  <1> QED
    BY <1>4 DEF DebtLeft, S, Sum

LEMMA AllocatedIs ==
  ASSUME TypeOK, NEW s
  PROVE  Allocated(s) = Applied(s)
  <1>1. \A x \in Posted(allocations) : allocations[x] \in AllocationRow
    BY TablesAre, PostedRows DEF Typed
  <1>2. To(s) = Chosen(allocations, ToRows(s))
    BY <1>1 DEF To, Chosen, ToRows
  <1>3. [x \in To(s) |-> allocations[x].amount]
          = [x \in Chosen(allocations, ToRows(s)) |-> AppliedOf[allocations[x]]]
    BY <1>1, <1>2 DEF AppliedOf, To
  <1> QED
    BY <1>2, <1>3 DEF Allocated, Applied, Over, Sum

LEMMA ReturnedIs ==
  ASSUME TypeOK, NEW s
  PROVE  ReturnedQuantity(s) = Back(s) /\ ReturnedAmount(s) = Entitled(s) /\ ReturnedReceivable(s) = TakenOff(s)
  <1>1. \A r \in Posted(returns) : returns[r] \in ReturnRow
    BY TablesAre, PostedRows DEF Typed
  <1>2. ReturnsOf(s) = Chosen(returns, ReturnRows(s))
    BY <1>1 DEF ReturnsOf, Chosen, ReturnRows
  <1>3. \A r \in ReturnsOf(s) : returns[r] \in ReturnRow
    BY <1>1 DEF ReturnsOf
  <1>4. [r \in ReturnsOf(s) |-> returns[r].quantity]
          = [r \in Chosen(returns, ReturnRows(s)) |-> UnitsOf[returns[r]]]
    BY <1>2, <1>3 DEF UnitsOf
  <1>5. [r \in ReturnsOf(s) |-> returns[r].entitlement]
          = [r \in Chosen(returns, ReturnRows(s)) |-> EntitledOf[returns[r]]]
    BY <1>2, <1>3 DEF EntitledOf
  <1>6. [r \in ReturnsOf(s) |-> returns[r].entitlement - returns[r].refundable]
          = [r \in Chosen(returns, ReturnRows(s)) |-> TakenOffOf[returns[r]]]
    BY <1>2, <1>3 DEF TakenOffOf
  <1>7. ReturnedQuantity(s) = Back(s)
    BY <1>2, <1>4 DEF ReturnedQuantity, Back, Over, Sum
  <1>8. ReturnedAmount(s) = Entitled(s)
    BY <1>2, <1>5 DEF ReturnedAmount, Entitled, Over, Sum
  <1>9. ReturnedReceivable(s) = TakenOff(s)
    BY <1>2, <1>6 DEF ReturnedReceivable, TakenOff, Over, Sum
  <1> QED
    BY <1>7, <1>8, <1>9

LEMMA RefundableIs ==
  ASSUME TypeOK, NEW r
  PROVE  Refundable(r) = returns[r].refundable - Refunded(r)
  <1>1. \A f \in Posted(refunds) : refunds[f] \in RefundRow
    BY TablesAre, PostedRows DEF Typed
  <1>2. RefundsOf(r) = Chosen(refunds, RefundRows(r))
    BY <1>1 DEF RefundsOf, Chosen, RefundRows
  <1>3. [f \in RefundsOf(r) |-> refunds[f].amount]
          = [f \in Chosen(refunds, RefundRows(r)) |-> RefundedOf[refunds[f]]]
    BY <1>1, <1>2 DEF RefundedOf, RefundsOf
  <1> QED
    BY <1>2, <1>3 DEF Refundable, Refunded, Over, Sum

LEMMA UsesTyped ==
  ASSUME TypeOK, FiniteRows
  PROVE  /\ \A p : Drawn(p) \in Nat /\ Settled(p) \in Nat
         /\ \A s : Applied(s) \in Nat /\ Back(s) \in Nat /\ Entitled(s) \in Nat
         /\ \A r : Refunded(r) \in Nat
  <1>1. /\ Table(allocations, Allocation, AllocationRow) /\ Table(returns, Return, ReturnRow)
        /\ Table(refunds, Refund, RefundRow)
        /\ IsFiniteSet(Filled(allocations)) /\ IsFiniteSet(Filled(returns)) /\ IsFiniteSet(Filled(refunds))
    BY TablesAre DEF FiniteRows, Typed
  <1>2. \A Q : Over(allocations, Q, DrawnOf) \in Nat /\ Over(allocations, Q, AppliedOf) \in Nat
    BY <1>1, ValuesTyped, OverNat
  <1>3. \A Q : Over(returns, Q, UnitsOf) \in Nat /\ Over(returns, Q, EntitledOf) \in Nat
    BY <1>1, ValuesTyped, OverNat
  <1>4. \A Q : Over(refunds, Q, RefundedOf) \in Nat
    BY <1>1, ValuesTyped, OverNat
  <1> QED
    BY <1>2, <1>3, <1>4 DEF Drawn, Settled, Applied, Back, Entitled, Refunded

\* What returns take off an invoice is part of what they give back.
LEMMA TakenOffIs ==
  ASSUME TypeOK, FiniteRows, NEW s
  PROVE  TakenOff(s) \in Int /\ TakenOff(s) <= Entitled(s)
  <1> DEFINE S == Chosen(returns, ReturnRows(s))
             f == [r \in S |-> TakenOffOf[returns[r]]]
             g == [r \in S |-> EntitledOf[returns[r]]]
  <1>1. IsFiniteSet(S)
    BY ChosenFinite DEF FiniteRows
  <1>2. \A r \in S : returns[r] \in ReturnRow
    BY DEF Chosen, ReturnRows
  <1>3. \A row \in ReturnRow : /\ TakenOffOf[row] \in Int /\ EntitledOf[row] \in Int
                               /\ TakenOffOf[row] <= EntitledOf[row]
    <2> SUFFICES ASSUME NEW row \in ReturnRow
                 PROVE  /\ TakenOffOf[row] \in Int /\ EntitledOf[row] \in Int
                        /\ TakenOffOf[row] <= EntitledOf[row]
      OBVIOUS
    <2>1. row.entitlement \in Nat /\ row.refundable \in Nat
      BY DEF ReturnRow
    <2>2. TakenOffOf[row] = row.entitlement - row.refundable /\ EntitledOf[row] = row.entitlement
      BY DEF TakenOffOf, EntitledOf
    <2> QED
      BY <2>1, <2>2
  <1>4. IntOn(f, S) /\ IntOn(g, S) /\ \A r \in S : f[r] <= g[r]
    BY <1>2, <1>3 DEF IntOn
  <1>5. TakenOff(s) = SumFunctionOnSet(f, S) /\ Entitled(s) = SumFunctionOnSet(g, S)
    BY DEF TakenOff, Entitled, Over
  <1> HIDE DEF S, f, g
  <1> QED
    BY <1>1, <1>4, <1>5, SumMonotone, SumInt

\* Nothing is overdrawn when nothing is used twice.
LEMMA NothingOverdrawn ==
  ASSUME DocInv, UseInv
  PROVE  NeverOverdrawn /\ EntitlementIsExact
  <1>1. TypeOK /\ FiniteRows
    BY DEF DocInv
  <1>2. \A p \in Payment : payments[p] # Absent =>
          Available(p) >= 0 /\ (payments[p].settlement # NoSettlement => DebtLeft(p) >= 0)
    <2> SUFFICES ASSUME NEW p \in Payment, payments[p] # Absent
                 PROVE  Available(p) >= 0 /\ (payments[p].settlement # NoSettlement => DebtLeft(p) >= 0)
      OBVIOUS
    <2>1. payments[p].amount \in Nat /\ payments[p].settlement.debt \in Nat
      BY <1>1 DEF TypeOK, PaymentRow, NoSettlement
    <2>2. /\ Available(p) = payments[p].amount - Drawn(p) /\ Drawn(p) \in Nat
          /\ DebtLeft(p) = payments[p].settlement.debt - Settled(p) /\ Settled(p) \in Nat
      BY <1>1, AvailableIs, DebtLeftIs, UsesTyped
    <2> QED
      BY <2>1, <2>2 DEF UseInv, WithinPayments
  <1>3. \A s \in Sale : /\ Outstanding(s) >= 0
                        /\ ReturnedQuantity(s) <= Quantity[s]
                        /\ ReturnedAmount(s) <= Total[s]
                        /\ ReturnedReceivable(s) <= Total[s]
                        /\ ReturnedQuantity(s) = Quantity[s] => ReturnedAmount(s) = Total[s]
    <2> SUFFICES ASSUME NEW s \in Sale
                 PROVE  /\ Outstanding(s) >= 0
                        /\ ReturnedQuantity(s) <= Quantity[s]
                        /\ ReturnedAmount(s) <= Total[s]
                        /\ ReturnedReceivable(s) <= Total[s]
                        /\ ReturnedQuantity(s) = Quantity[s] => ReturnedAmount(s) = Total[s]
      OBVIOUS
    <2>1. /\ Total[s] \in Nat /\ Applied(s) \in Nat /\ Entitled(s) \in Nat
          /\ TakenOff(s) \in Int /\ TakenOff(s) <= Entitled(s)
      BY <1>1, Numbers, UsesTyped, TakenOffIs
    <2>2. /\ Back(s) <= Quantity[s] /\ Entitled(s) <= Total[s]
          /\ Back(s) = Quantity[s] => Entitled(s) = Total[s]
      BY DEF UseInv, WithinLines
    <2>3. /\ ReturnedQuantity(s) = Back(s) /\ ReturnedAmount(s) = Entitled(s)
          /\ ReturnedReceivable(s) = TakenOff(s) /\ Allocated(s) = Applied(s)
      BY <1>1, ReturnedIs, AllocatedIs
    <2>4. Outstanding(s) >= 0
      BY <2>1, <2>3 DEF Outstanding, UseInv, WithinInvoices
    <2> QED
      BY <2>1, <2>2, <2>3, <2>4
  <1>4. \A r \in Posted(returns) : Refundable(r) >= 0
    <2> SUFFICES ASSUME NEW r \in Posted(returns) PROVE Refundable(r) >= 0
      OBVIOUS
    <2>1. returns[r] \in ReturnRow
      BY <1>1, TablesAre, PostedRows DEF Typed
    <2>2. returns[r].refundable \in Nat /\ Refunded(r) \in Nat /\ Refundable(r) = returns[r].refundable - Refunded(r)
      BY <1>1, <2>1, UsesTyped, RefundableIs DEF ReturnRow
    <2> QED
      BY <2>2 DEF UseInv, WithinReturns
  <1> QED
    BY <1>2, <1>3, <1>4 DEF NeverOverdrawn, EntitlementIsExact
-----------------------------------------------------------------------------
(* Journals. *)
Keys == Account \X Currency

\* The journal f is posted (up) or mirrored.
Booked(up, f) == gl' \in [Keys -> Int] /\ \A k \in Keys : gl'[k] = gl[k] + Move(up, f[k])

Side(acc, debit, credit, n) == IF acc = debit THEN n ELSE IF acc = credit THEN -n ELSE 0

LEMMA Accounts ==
  /\ Cash \in Account /\ Receivable \in Account /\ Clearing \in Account /\ CustomerCredit \in Account
  /\ Revenue \in Account /\ SalesReturns \in Account
  /\ Cash # Receivable /\ Cash # Clearing /\ Cash # CustomerCredit /\ Cash # SalesReturns
  /\ Receivable # Clearing /\ Receivable # CustomerCredit /\ Receivable # SalesReturns
  /\ Clearing # CustomerCredit /\ Clearing # SalesReturns /\ CustomerCredit # SalesReturns
  BY DEF Account, Cash, Receivable, Clearing, CustomerCredit, Revenue, SalesReturns

LEMMA JournalTyped ==
  ASSUME NEW debit, NEW credit, NEW x, NEW n \in Int
  PROVE  Journal(debit, credit, x, n) \in [Keys -> Int]
  BY DEF Journal, Line, Keys

LEMMA PlusTyped ==
  ASSUME NEW f \in [Keys -> Int], NEW g \in [Keys -> Int]
  PROVE  /\ Plus(f, g) \in [Keys -> Int]
         /\ \A k \in Keys : Plus(f, g)[k] = f[k] + g[k] /\ f[k] \in Int /\ g[k] \in Int
  BY DEF Plus, Keys

LEMMA JournalAt ==
  ASSUME NEW debit, NEW credit, debit # credit, NEW x, NEW n \in Int, NEW acc \in Account, NEW c \in Currency
  PROVE  Journal(debit, credit, x, n)[<<acc, c>>] = IF c = x THEN Side(acc, debit, credit, n) ELSE 0
  BY DEF Journal, Line, Side

\* The mirror of a journal.
Mirrors(f, g) == f \in [Keys -> Int] /\ g \in [Keys -> Int] /\ \A k \in Keys : g[k] = -f[k]

LEMMA JournalMirror ==
  ASSUME NEW debit, NEW credit, NEW x, NEW n \in Int
  PROVE  Mirrors(Journal(debit, credit, x, n), Journal(credit, debit, x, n))
  <1>1. /\ Journal(debit, credit, x, n) \in [Keys -> Int] /\ Journal(credit, debit, x, n) \in [Keys -> Int]
    BY JournalTyped
  <1>2. \A k \in Keys : Journal(credit, debit, x, n)[k] = -Journal(debit, credit, x, n)[k]
    BY DEF Journal, Line, Keys
  <1> QED
    BY <1>1, <1>2 DEF Mirrors

LEMMA PlusMirror ==
  ASSUME NEW f, NEW g, NEW d, NEW e, Mirrors(f, d), Mirrors(g, e)
  PROVE  Mirrors(Plus(f, g), Plus(d, e))
  <1>1. Plus(f, g) \in [Keys -> Int] /\ Plus(d, e) \in [Keys -> Int]
    BY PlusTyped DEF Mirrors
  <1>2. \A k \in Keys : Plus(f, g)[k] = f[k] + g[k] /\ Plus(d, e)[k] = d[k] + e[k] /\ f[k] \in Int /\ g[k] \in Int
    BY PlusTyped DEF Mirrors
  <1> QED
    BY <1>1, <1>2 DEF Mirrors

LEMMA Booking ==
  ASSUME TypeOK, NEW f
  PROVE  /\ \A up \in BOOLEAN : up /\ f \in [Keys -> Int] /\ gl' = Plus(gl, f) => Booked(up, f)
         /\ \A g : \A up \in BOOLEAN : ~up /\ Mirrors(f, g) /\ gl' = Plus(gl, g) => Booked(up, f)
  <1>1. gl \in [Keys -> Int]
    BY DEF TypeOK, Keys
  <1>2. ASSUME NEW up \in BOOLEAN, up, f \in [Keys -> Int], gl' = Plus(gl, f) PROVE Booked(up, f)
    BY <1>1, <1>2, PlusTyped DEF Booked, Move
  <1>3. ASSUME NEW g, NEW up \in BOOLEAN, ~up, Mirrors(f, g), gl' = Plus(gl, g) PROVE Booked(up, f)
    <2>1. /\ gl' \in [Keys -> Int]
          /\ \A k \in Keys : gl'[k] = gl[k] + g[k] /\ gl[k] \in Int
      BY <1>1, <1>3, PlusTyped DEF Mirrors
    <2>2. \A k \in Keys : g[k] = -f[k] /\ f[k] \in Int
      BY <1>3 DEF Mirrors
    <2> QED
      BY <1>3, <2>1, <2>2 DEF Booked, Move
  <1> QED
    BY <1>2, <1>3
-----------------------------------------------------------------------------
(* The steps, each as the row it posts or reverses. *)
PaymentJournal(doc) ==
  IF doc.settlement = NoSettlement
  THEN Journal(Cash, ObligationOf(doc.purpose), doc.currency, doc.amount)
  ELSE SettlementJournals(doc.currency, doc.amount, doc.settlement.currency, doc.settlement.debt)

PaymentTurned(p, doc, up) ==
  /\ TypeOK' /\ Turned(payments, payments', Payment, PaymentRow, p, doc, up)
  /\ doc.settlement # NoSettlement => doc.purpose = "RECEIVABLE"
  /\ up => payments[p] = Absent
  /\ ~up => /\ payments'[p].purpose = doc.purpose /\ payments'[p].currency = doc.currency
            /\ payments'[p].amount = doc.amount /\ payments'[p].settlement = doc.settlement
            /\ payments'[p] # Absent
            /\ doc.settlement # NoSettlement => \A x \in Of(p) : ~allocations[x].settled
  /\ Booked(up, PaymentJournal(doc))
  /\ UNCHANGED <<allocations, returns, refunds, draft>>

AllocationTurned(x, doc, up) ==
  /\ TypeOK' /\ Turned(allocations, allocations', Allocation, AllocationRow, x, doc, up)
  /\ draft = None /\ Stands(doc, payments[doc.payment])
  /\ up => /\ doc.amount <= Total[doc.sale] - Applied(doc.sale)
           /\ doc.paid + doc.credit <= payments[doc.payment].amount - Drawn(doc.payment)
           /\ doc.settled => doc.amount <= payments[doc.payment].settlement.debt - Settled(doc.payment)
  /\ Booked(up, ReclassOf(doc))
  /\ UNCHANGED <<payments, returns, refunds, draft>>

ReturnTurned(r, doc, up) ==
  /\ TypeOK' /\ Turned(returns, returns', Return, ReturnRow, r, doc, up)
  /\ RefundsOf(r) = {}
  /\ up => /\ draft # None /\ draft' = None
           /\ doc.sale = draft.sale /\ doc.quantity = draft.quantity
           /\ doc.entitlement = draft.entitlement /\ doc.refundable = draft.refundable
  /\ ~up => draft' = draft
  /\ Booked(up, ReturnJournal(doc))
  /\ UNCHANGED <<payments, allocations, refunds>>

RefundTurned(f, doc, up) ==
  /\ TypeOK' /\ Turned(refunds, refunds', Refund, RefundRow, f, doc, up)
  /\ returns[doc.return].status = "POSTED"
  /\ up => doc.amount <= returns[doc.return].refundable - Refunded(doc.return)
  /\ Booked(up, RefundJournals(SaleCurrency[returns[doc.return].sale], doc.amount, doc.currency, doc.paid))
  /\ UNCHANGED <<payments, allocations, returns, draft>>

DraftTaken(d) ==
  /\ TypeOK' /\ draft = None /\ draft' = d /\ d.sale \in Sale
  /\ d.refundable <= d.entitlement
  /\ d.quantity <= Quantity[d.sale] - Back(d.sale)
  /\ d.entitlement <= Total[d.sale] - Entitled(d.sale)
  /\ d.quantity = Quantity[d.sale] - Back(d.sale) => d.entitlement = Total[d.sale] - Entitled(d.sale)
  /\ d.sale \in CreditSale /\ d.refundable < d.entitlement =>
       Applied(d.sale) + TakenOff(d.sale) + (d.entitlement - d.refundable) <= Total[d.sale]
  /\ UNCHANGED <<gl, payments, allocations, returns, refunds>>

DraftDropped == draft' \in {draft, None} /\ UNCHANGED <<gl, payments, allocations, returns, refunds>>

\* Posting a row keeps the table, and so does reversing it.
LEMMA RowPosted ==
  ASSUME NEW X, NEW Y, NEW ids, NEW T, NEW i \in ids, NEW doc \in T, NEW up \in BOOLEAN, up,
         Table(X, ids, T), IsFiniteSet(Filled(X)), X[i].status # "POSTED", doc.status = "POSTED",
         Y = [X EXCEPT ![i] = doc]
  PROVE  Table(Y, ids, T) /\ Turned(X, Y, ids, T, i, doc, up)
  <1>1. Table(Y, ids, T) /\ Y[i] = doc /\ \A j \in ids \ {i} : Y[j] = X[j]
    BY DEF Table
  <1> QED
    BY <1>1 DEF Turned, Posts

LEMMA FilledAgain ==
  ASSUME NEW X, NEW Y, NEW ids, NEW T, Table(X, ids, T), Table(Y, ids, T), NEW i,
         IsFiniteSet(Filled(X)), \A j \in ids \ {i} : Y[j] = X[j]
  PROVE  IsFiniteSet(Filled(Y))
  <1>1. Filled(Y) \subseteq Filled(X) \cup {i}
    BY DEF Filled, Table
  <1>2. IsFiniteSet(Filled(X) \cup {i})
    BY FS_AddElement
  <1> QED
    BY <1>1, <1>2, FS_Subset

LEMMA RowReversed ==
  ASSUME NEW X, NEW Y, NEW ids, NEW T, NEW i \in ids, NEW up \in BOOLEAN, ~up,
         Table(X, ids, T), IsFiniteSet(Filled(X)), NEW doc \in T, doc = X[i], doc.status = "POSTED",
         NEW row \in T, row.status # "POSTED", Y = [X EXCEPT ![i] = row]
  PROVE  Table(Y, ids, T) /\ Turned(X, Y, ids, T, i, doc, up)
  <1>1. Table(Y, ids, T) /\ Y[i] = row /\ \A j \in ids \ {i} : Y[j] = X[j]
    BY DEF Table
  <1>3. IsFiniteSet(Filled(Y))
    <2>1. Filled(Y) \subseteq Filled(X) \cup {i}
      BY <1>1 DEF Filled, Table
    <2>2. IsFiniteSet(Filled(X) \cup {i})
      BY FS_AddElement
    <2> QED
      BY <2>1, <2>2, FS_Subset
  <1> QED
    BY <1>1, <1>3 DEF Turned, Posts

\* A turned table is still finitely filled.
LEMMA FiniteTurned ==
  ASSUME NEW X, NEW Y, NEW ids, NEW T, NEW i, NEW doc, NEW up, Turned(X, Y, ids, T, i, doc, up)
  PROVE  IsFiniteSet(Filled(X)) /\ IsFiniteSet(Filled(Y))
  <1>1. CASE up
    BY <1>1, FilledAgain DEF Turned, Posts
  <1>2. CASE ~up
    BY <1>2, FilledAgain DEF Turned, Posts
  <1> QED
    BY <1>1, <1>2
-----------------------------------------------------------------------------
(* Payments and settlements. *)
LEMMA HalfUpTyped ==
  ASSUME NEW n \in Nat, NEW d \in Nat, d > 0
  PROVE  HalfUp(n, d) \in Nat
  <1>1. \A a \in Nat, b \in Nat : b > 0 => a \div b \in Nat
    OBVIOUS
  <1>2. 2 * n + d \in Nat /\ 2 * d \in Nat /\ 2 * d > 0
    OBVIOUS
  <1> QED
    BY <1>1, <1>2 DEF HalfUp

LEMMA HalfEvenTyped ==
  ASSUME NEW n \in Nat, NEW d \in Nat, d > 0
  PROVE  HalfEven(n, d) \in Nat
  <1>1. n \div d \in Nat
    OBVIOUS
  <1>2. HalfEven(n, d) \in {n \div d, n \div d + 1}
    BY DEF HalfEven
  <1> QED
    BY <1>1, <1>2

LEMMA Product == \A a, b \in Nat : a * b \in Nat
  OBVIOUS

LEMMA PaymentJournalTyped ==
  ASSUME NEW doc \in PaymentRow
  PROVE  PaymentJournal(doc) \in [Keys -> Int]
  <1>1. doc.amount \in Int /\ doc.settlement.debt \in Int
    BY DEF PaymentRow, NoSettlement
  <1> QED
    BY <1>1, JournalTyped, PlusTyped DEF PaymentJournal, SettlementJournals

LEMMA CreatePaymentTurns ==
  ASSUME DocInv, NEW p \in Payment, NEW purpose \in {"RECEIVABLE", "CUSTOMER_CREDIT"},
         NEW c \in Currency, NEW a \in Amount, NEW up \in BOOLEAN, up, CreatePayment(p, purpose, c, a)
  PROVE  \E doc : PaymentTurned(p, doc, up)
  <1> DEFINE doc == [status |-> "POSTED", purpose |-> purpose, currency |-> c, amount |-> a,
                     settlement |-> NoSettlement]
  <1>1. doc \in PaymentRow
    BY Numbers DEF PaymentRow
  <1>2. /\ doc.status = "POSTED" /\ doc.settlement = NoSettlement /\ doc.purpose = purpose
        /\ doc.currency = c /\ doc.amount = a
    OBVIOUS
  <1>3. /\ payments[p] = Absent /\ payments' = [payments EXCEPT ![p] = doc]
        /\ gl' = Plus(gl, Journal(Cash, ObligationOf(purpose), c, a))
        /\ UNCHANGED <<allocations, returns, refunds, draft>>
    BY DEF CreatePayment
  <1> HIDE DEF doc
  <1>4. PaymentJournal(doc) = Journal(Cash, ObligationOf(purpose), c, a)
    BY <1>2 DEF PaymentJournal
  <1>5. Booked(up, PaymentJournal(doc))
    BY <1>1, <1>3, <1>4, PaymentJournalTyped, Booking DEF DocInv
  <1>6. Table(payments', Payment, PaymentRow) /\ Turned(payments, payments', Payment, PaymentRow, p, doc, up)
    <2>1. Table(payments, Payment, PaymentRow) /\ IsFiniteSet(Filled(payments)) /\ payments[p].status # "POSTED"
      BY <1>3, TablesAre DEF DocInv, FiniteRows, Typed, Absent
    <2> QED
      BY <1>1, <1>2, <1>3, <2>1, RowPosted
  <1>7. TypeOK'
    BY <1>3, <1>5, <1>6 DEF DocInv, TypeOK, Table, Booked, Keys
  <1> QED
    BY <1>2, <1>3, <1>5, <1>6, <1>7 DEF PaymentTurned

LEMMA CreateSettlementTurns ==
  ASSUME DocInv, NEW p \in Payment, NEW c \in Currency, NEW dc \in Currency, NEW debt \in Amount,
         NEW rate \in Rate, NEW up \in BOOLEAN, up, CreateSettlement(p, c, dc, debt, rate)
  PROVE  \E doc : PaymentTurned(p, doc, up)
  <1> DEFINE paid == HalfEven(debt * rate[1], rate[2])
             t == [debt |-> debt, currency |-> dc, rate |-> rate]
             doc == [status |-> "POSTED", purpose |-> "RECEIVABLE", currency |-> c, amount |-> paid,
                     settlement |-> t]
  <1>1. /\ payments[p] = Absent /\ paid > 0 /\ payments' = [payments EXCEPT ![p] = doc]
        /\ gl' = Plus(gl, SettlementJournals(c, paid, dc, debt))
        /\ UNCHANGED <<allocations, returns, refunds, draft>>
    BY DEF CreateSettlement
  <1>2. paid \in Nat /\ debt \in Nat /\ debt > 0
    <2>1. debt \in Nat /\ debt > 0 /\ rate[1] \in Nat /\ rate[2] \in Nat /\ rate[2] > 0
      BY Numbers
    <2>2. debt * rate[1] \in Nat
      BY <2>1, Product
    <2> QED
      BY <2>1, <2>2, HalfEvenTyped
  <1> HIDE DEF paid
  <1>3. t # NoSettlement /\ t \in [debt: Nat \ {0}, currency: Currency, rate: Rate]
    BY <1>2 DEF NoSettlement
  <1>4. t.debt = debt /\ t.currency = dc
    OBVIOUS
  <1> HIDE DEF t
  <1>5. doc \in PaymentRow
    BY <1>1, <1>2, <1>3 DEF PaymentRow
  <1>6. /\ doc.status = "POSTED" /\ doc.settlement = t /\ doc.purpose = "RECEIVABLE"
        /\ doc.currency = c /\ doc.amount = paid
    OBVIOUS
  <1> HIDE DEF doc
  <1>7. PaymentJournal(doc) = SettlementJournals(c, paid, dc, debt)
    BY <1>3, <1>4, <1>6 DEF PaymentJournal
  <1>8. Booked(up, PaymentJournal(doc))
    BY <1>1, <1>5, <1>7, PaymentJournalTyped, Booking DEF DocInv
  <1>9. Table(payments', Payment, PaymentRow) /\ Turned(payments, payments', Payment, PaymentRow, p, doc, up)
    <2>1. Table(payments, Payment, PaymentRow) /\ IsFiniteSet(Filled(payments)) /\ payments[p].status # "POSTED"
      BY <1>1, TablesAre DEF DocInv, FiniteRows, Typed, Absent
    <2> QED
      BY <1>1, <1>5, <1>6, <2>1, RowPosted
  <1>10. TypeOK'
    BY <1>1, <1>8, <1>9 DEF DocInv, TypeOK, Table, Booked, Keys
  <1> QED
    BY <1>1, <1>6, <1>8, <1>9, <1>10 DEF PaymentTurned

\* The row of a payment that is reversed.
LEMMA ReversedPayment ==
  ASSUME DocInv, NEW p \in Payment, NEW up \in BOOLEAN, ~up, payments[p].status = "POSTED",
         payments' = [payments EXCEPT ![p].status = "REVERSED"]
  PROVE  /\ Turned(payments, payments', Payment, PaymentRow, p, payments[p], up)
         /\ Table(payments', Payment, PaymentRow) /\ payments[p] \in PaymentRow
         /\ payments'[p].purpose = payments[p].purpose /\ payments'[p].currency = payments[p].currency
         /\ payments'[p].amount = payments[p].amount /\ payments'[p].settlement = payments[p].settlement
         /\ payments'[p] # Absent /\ payments[p] # Absent
  <1> DEFINE row == [payments[p] EXCEPT !.status = "REVERSED"]
  <1>1. /\ Table(payments, Payment, PaymentRow) /\ IsFiniteSet(Filled(payments)) /\ payments[p] # Absent
        /\ payments[p] \in PaymentRow
    BY TablesAre DEF DocInv, FiniteRows, Typed, Table, Absent
  <1>2. row \in PaymentRow /\ row.status = "REVERSED" /\ row.status # "POSTED"
    BY <1>1 DEF PaymentRow
  <1>3. /\ row.purpose = payments[p].purpose /\ row.currency = payments[p].currency
        /\ row.amount = payments[p].amount /\ row.settlement = payments[p].settlement
    BY <1>1 DEF PaymentRow
  <1>4. payments' = [payments EXCEPT ![p] = row]
    BY <1>1 DEF Table
  <1> HIDE DEF row
  <1>5. Table(payments', Payment, PaymentRow) /\ Turned(payments, payments', Payment, PaymentRow, p, payments[p], up)
    <2>1. PICK doc \in PaymentRow : doc = payments[p]
      BY <1>1
    <2>2. PICK Y : Y = payments'
      OBVIOUS
    <2>3. Table(payments, Payment, PaymentRow)
      BY <1>1
    <2>4. IsFiniteSet(Filled(payments)) /\ doc.status = "POSTED" /\ row \in PaymentRow /\ row.status # "POSTED"
      BY <1>1, <1>2, <2>1
    <2>5. Y = [payments EXCEPT ![p] = row]
      BY <1>4, <2>2
    <2>6. Table(Y, Payment, PaymentRow) /\ Turned(payments, Y, Payment, PaymentRow, p, doc, up)
      BY ONLY ~up, up \in BOOLEAN, p \in Payment, doc \in PaymentRow, <2>1, <2>3, <2>4, <2>5, RowReversed
    <2> QED
      BY <2>1, <2>2, <2>6
  <1>6. payments'[p] = row
    BY <1>1, <1>4 DEF Table
  <1> QED
    BY <1>1, <1>2, <1>3, <1>5, <1>6 DEF Absent

LEMMA ReversePaymentTurns ==
  ASSUME DocInv, NEW p \in Payment, NEW up \in BOOLEAN, ~up, ReversePayment(p) \/ ReverseSettlement(p)
  PROVE  \E doc : PaymentTurned(p, doc, up)
  <1> DEFINE doc == payments[p]
  <1>1. /\ doc.status = "POSTED" /\ payments' = [payments EXCEPT ![p].status = "REVERSED"]
        /\ UNCHANGED <<allocations, returns, refunds, draft>>
        /\ doc.settlement # NoSettlement => \A x \in Of(p) : ~allocations[x].settled
    BY DEF ReversePayment, ReverseSettlement
  <1>2. /\ Turned(payments, payments', Payment, PaymentRow, p, doc, up)
        /\ Table(payments', Payment, PaymentRow) /\ doc \in PaymentRow
        /\ payments'[p].purpose = doc.purpose /\ payments'[p].currency = doc.currency
        /\ payments'[p].amount = doc.amount /\ payments'[p].settlement = doc.settlement
        /\ payments'[p] # Absent /\ doc # Absent
    BY <1>1, ReversedPayment
  <1>3. doc.settlement # NoSettlement => doc.purpose = "RECEIVABLE"
    BY <1>2 DEF DocInv, SettlementsStand
  <1>4. doc.amount \in Int /\ doc.settlement.debt \in Int
    BY <1>2 DEF PaymentRow, NoSettlement
  <1>5. PICK g : Mirrors(PaymentJournal(doc), g) /\ gl' = Plus(gl, g)
    <2>1. CASE ReversePayment(p)
      <3>1. /\ doc.settlement = NoSettlement
            /\ gl' = Plus(gl, Journal(ObligationOf(doc.purpose), Cash, doc.currency, doc.amount))
        BY <2>1 DEF ReversePayment
      <3> QED
        BY <1>4, <3>1, JournalMirror DEF PaymentJournal
    <2>2. CASE ReverseSettlement(p)
      <3> DEFINE t == doc.settlement
                 a == Journal(Clearing, Cash, doc.currency, doc.amount)
                 b == Journal(Receivable, Clearing, t.currency, t.debt)
      <3>1. t # NoSettlement /\ gl' = Plus(gl, Plus(a, b))
        BY <2>2 DEF ReverseSettlement
      <3>2. /\ Mirrors(Journal(Cash, Clearing, doc.currency, doc.amount), a)
            /\ Mirrors(Journal(Clearing, Receivable, t.currency, t.debt), b)
        BY <1>4, JournalMirror
      <3> HIDE DEF a, b
      <3>3. Mirrors(Plus(Journal(Cash, Clearing, doc.currency, doc.amount),
                         Journal(Clearing, Receivable, t.currency, t.debt)), Plus(a, b))
        BY <3>2, PlusMirror
      <3> QED
        BY <3>1, <3>3 DEF PaymentJournal, SettlementJournals
    <2> QED
      BY <2>1, <2>2
  <1> HIDE DEF doc
  <1>6. Booked(up, PaymentJournal(doc))
    BY <1>5, Booking DEF DocInv
  <1>7. TypeOK'
    BY <1>1, <1>2, <1>6 DEF DocInv, TypeOK, Table, Booked, Keys
  <1>8. PaymentTurned(p, doc, up)
    BY <1>1, <1>2, <1>3, <1>6, <1>7 DEF PaymentTurned
  <1> QED
    BY <1>8

LEMMA PaymentTurns ==
  ASSUME DocInv, NEW p \in Payment, PaymentStep(p)
  PROVE  \E doc : \E up \in BOOLEAN : PaymentTurned(p, doc, up)
  <1>1. PICK yes \in BOOLEAN : yes
    OBVIOUS
  <1>2. PICK no \in BOOLEAN : ~no
    OBVIOUS
  <1>3. CASE \E purpose \in {"RECEIVABLE", "CUSTOMER_CREDIT"}, c \in Currency, a \in Amount :
               CreatePayment(p, purpose, c, a)
    BY <1>1, <1>3, CreatePaymentTurns
  <1>4. CASE \E c, dc \in Currency, debt \in Amount, rate \in Rate : CreateSettlement(p, c, dc, debt, rate)
    BY <1>1, <1>4, CreateSettlementTurns
  <1>5. CASE ReversePayment(p) \/ ReverseSettlement(p)
    BY <1>2, <1>5, ReversePaymentTurns
  <1> QED
    BY <1>3, <1>4, <1>5 DEF PaymentStep
-----------------------------------------------------------------------------
(* Allocations. *)
LEMMA MinTwo ==
  ASSUME NEW a \in Int, NEW b \in Int
  PROVE  Min({a, b}) \in {a, b} /\ Min({a, b}) <= a /\ Min({a, b}) <= b
  <1>1. \E x \in {a, b} : \A y \in {a, b} : x <= y
    BY a <= b \/ b <= a
  <1>2. Min({a, b}) \in {a, b} /\ \A y \in {a, b} : Min({a, b}) <= y
    BY <1>1, Zenon DEF Min
  <1> QED
    BY <1>2

LEMMA MaxTwo ==
  ASSUME NEW a \in Int, NEW b \in Int
  PROVE  Max({a, b}) \in {a, b} /\ a <= Max({a, b}) /\ b <= Max({a, b})
  <1>1. \E x \in {a, b} : \A y \in {a, b} : x >= y
    BY a <= b \/ b <= a
  <1>2. Max({a, b}) \in {a, b} /\ \A y \in {a, b} : Max({a, b}) >= y
    BY <1>1, Zenon DEF Max
  <1>3. Max({a, b}) \in Int
    BY <1>2
  <1> QED
    BY <1>2, <1>3

\* What an allocation takes is there to take.
Fits(doc) ==
  /\ doc.amount <= Total[doc.sale] - Applied(doc.sale)
  /\ doc.paid + doc.credit <= payments[doc.payment].amount - Drawn(doc.payment)
  /\ doc.settled => doc.amount <= payments[doc.payment].settlement.debt - Settled(doc.payment)

LEMMA ReclassTyped ==
  ASSUME NEW doc \in AllocationRow
  PROVE  ReclassOf(doc) \in [Keys -> Int] /\ Mirrors(ReclassOf(doc), UnreclassOf(doc))
  <1>1. doc.amount \in Int /\ doc.credit \in Int
    BY DEF AllocationRow
  <1>2. \A c : /\ Mirrors(Journal(CustomerCredit, Receivable, c, doc.amount),
                          Journal(Receivable, CustomerCredit, c, doc.amount))
               /\ Mirrors(Journal(Receivable, CustomerCredit, c, doc.credit),
                          Journal(CustomerCredit, Receivable, c, doc.credit))
    BY <1>1, JournalMirror
  <1>3. Mirrors(ReclassOf(doc), UnreclassOf(doc))
    BY <1>2 DEF ReclassOf, UnreclassOf
  <1> QED
    BY <1>3 DEF Mirrors

LEMMA AllocateTurns ==
  ASSUME DocInv, draft = None, NEW x \in Allocation, NEW doc \in AllocationRow, doc.status = "POSTED",
         Stands(doc, payments[doc.payment]), Fits(doc), NEW up \in BOOLEAN, up, Allocate(x, doc)
  PROVE  AllocationTurned(x, doc, up)
  <1>1. /\ allocations[x] = Absent /\ allocations' = [allocations EXCEPT ![x] = doc]
        /\ gl' = Plus(gl, ReclassOf(doc))
        /\ UNCHANGED <<payments, returns, refunds, draft>>
    BY DEF Allocate
  <1>2. Booked(up, ReclassOf(doc))
    BY <1>1, ReclassTyped, Booking DEF DocInv
  <1>3. /\ Table(allocations', Allocation, AllocationRow)
        /\ Turned(allocations, allocations', Allocation, AllocationRow, x, doc, up)
    <2>1. /\ Table(allocations, Allocation, AllocationRow) /\ IsFiniteSet(Filled(allocations))
          /\ allocations[x].status # "POSTED"
      BY <1>1, TablesAre DEF DocInv, FiniteRows, Typed, Absent
    <2> QED
      BY <1>1, <2>1, RowPosted
  <1>4. TypeOK'
    BY <1>1, <1>2, <1>3 DEF DocInv, TypeOK, Table, Booked, Keys
  <1> QED
    BY <1>1, <1>2, <1>3, <1>4 DEF AllocationTurned, Fits

\* What the guards of an allocation read.
LEMMA AllocationReads ==
  ASSUME DocInv, NEW p \in Payment, NEW s \in Sale, CanAllocate(p, s)
  PROVE  /\ draft = None /\ payments[p].status = "POSTED" /\ payments[p] # Absent /\ s \in CreditSale
         /\ payments[p] \in PaymentRow
         /\ Available(p) = payments[p].amount - Drawn(p) /\ Available(p) \in Int /\ Available(p) > 0
         /\ DebtLeft(p) = payments[p].settlement.debt - Settled(p) /\ DebtLeft(p) \in Int
         /\ Outstanding(s) = Total[s] - Applied(s) /\ Outstanding(s) \in Int /\ Outstanding(s) > 0
  <1>1. /\ draft = None /\ payments[p].status = "POSTED" /\ s \in CreditSale
        /\ Available(p) > 0 /\ Outstanding(s) > 0
    BY DEF CanAllocate, CustomerFree
  <1>2. payments[p] # Absent /\ payments[p] \in PaymentRow
    BY <1>1 DEF DocInv, TypeOK, Absent
  <1>3. payments[p].amount \in Nat /\ payments[p].settlement.debt \in Nat /\ Total[s] \in Nat
    BY <1>2, Numbers DEF PaymentRow, NoSettlement
  <1>4. Drawn(p) \in Nat /\ Settled(p) \in Nat /\ Applied(s) \in Nat
    BY UsesTyped DEF DocInv
  <1>5. /\ Available(p) = payments[p].amount - Drawn(p)
        /\ DebtLeft(p) = payments[p].settlement.debt - Settled(p)
        /\ Outstanding(s) = Total[s] - Applied(s)
    BY <1>1, AvailableIs, DebtLeftIs, AllocatedIs DEF DocInv, Outstanding
  <1> QED
    BY <1>1, <1>2, <1>3, <1>4, <1>5

LEMMA AllocatePaymentTurns ==
  ASSUME DocInv, NEW x \in Allocation, NEW p \in Payment, NEW s \in Sale, NEW a \in Amount,
         NEW up \in BOOLEAN, up, AllocatePayment(x, p, s, a)
  PROVE  \E doc : AllocationTurned(x, doc, up)
  <1> DEFINE applied == Min({a, Outstanding(s)})
             credit == IF payments[p].purpose = "CUSTOMER_CREDIT" THEN 0 ELSE a - applied
             doc == [status |-> "POSTED", payment |-> p, sale |-> s, settled |-> FALSE,
                     amount |-> applied, paid |-> applied, credit |-> credit]
  <1>1. /\ CanAllocate(p, s) /\ payments[p].currency = SaleCurrency[s]
        /\ a <= Available(p) /\ Allocate(x, doc)
    BY DEF AllocatePayment
  <1>2. /\ draft = None /\ payments[p].status = "POSTED" /\ payments[p] # Absent /\ s \in CreditSale
        /\ payments[p] \in PaymentRow
        /\ Available(p) = payments[p].amount - Drawn(p) /\ Available(p) \in Int
        /\ Outstanding(s) = Total[s] - Applied(s) /\ Outstanding(s) \in Int /\ Outstanding(s) > 0
    BY <1>1, AllocationReads
  <1>3. a \in Nat /\ a > 0
    BY Numbers
  <1>4. applied \in Int /\ applied > 0 /\ applied <= a /\ applied <= Outstanding(s)
    BY <1>2, <1>3, MinTwo
  <1>5. /\ credit \in Nat /\ applied + credit <= a
        /\ payments[p].purpose = "CUSTOMER_CREDIT" => credit = 0
    BY <1>3, <1>4
  <1> HIDE DEF applied, credit
  <1>6. doc \in AllocationRow
    BY <1>4, <1>5 DEF AllocationRow
  <1>7. /\ doc.status = "POSTED" /\ doc.payment = p /\ doc.sale = s /\ doc.settled = FALSE
        /\ doc.amount = applied /\ doc.paid = applied /\ doc.credit = credit
    OBVIOUS
  <1> HIDE DEF doc
  <1>8. Stands(doc, payments[doc.payment])
    BY <1>1, <1>2, <1>5, <1>7 DEF Stands
  <1>9. Fits(doc)
    BY <1>1, <1>2, <1>3, <1>4, <1>5, <1>7 DEF Fits
  <1> QED
    BY <1>1, <1>2, <1>6, <1>7, <1>8, <1>9, AllocateTurns

LEMMA AllocateSettlementTurns ==
  ASSUME DocInv, NEW x \in Allocation, NEW p \in Payment, NEW s \in Sale, NEW a \in Amount,
         NEW up \in BOOLEAN, up, AllocateSettlement(x, p, s, a)
  PROVE  \E doc : AllocationTurned(x, doc, up)
  <1> DEFINE t == payments[p].settlement
             paid == HalfUp(a * t.rate[1], t.rate[2])
             doc == [status |-> "POSTED", payment |-> p, sale |-> s, settled |-> TRUE,
                     amount |-> a, paid |-> paid, credit |-> 0]
  <1>1. /\ CanAllocate(p, s) /\ t # NoSettlement /\ t.currency = SaleCurrency[s]
        /\ a <= DebtLeft(p) /\ a <= Outstanding(s) /\ paid <= Available(p) /\ Allocate(x, doc)
    BY DEF AllocateSettlement, WithinSettlement
  <1>2. /\ draft = None /\ payments[p].status = "POSTED" /\ payments[p] # Absent /\ s \in CreditSale
        /\ payments[p] \in PaymentRow
        /\ Available(p) = payments[p].amount - Drawn(p) /\ Available(p) \in Int
        /\ DebtLeft(p) = t.debt - Settled(p) /\ DebtLeft(p) \in Int
        /\ Outstanding(s) = Total[s] - Applied(s) /\ Outstanding(s) \in Int
    BY <1>1, AllocationReads
  <1>3. a \in Nat /\ a > 0
    BY Numbers
  <1>4. t.rate \in Rate
    BY <1>1, <1>2 DEF PaymentRow
  <1>5. paid \in Nat
    <2>1. t.rate[1] \in Nat /\ t.rate[2] \in Nat /\ t.rate[2] > 0
      BY <1>4, Numbers
    <2>2. a * t.rate[1] \in Nat
      BY <1>3, <2>1, Product
    <2> QED
      BY <2>1, <2>2, HalfUpTyped
  <1>6. payments[p].purpose = "RECEIVABLE"
    BY <1>1, <1>2 DEF DocInv, SettlementsStand
  <1> HIDE DEF paid
  <1>7. doc \in AllocationRow
    BY <1>3, <1>5 DEF AllocationRow
  <1>8. /\ doc.status = "POSTED" /\ doc.payment = p /\ doc.sale = s /\ doc.settled = TRUE
        /\ doc.amount = a /\ doc.paid = paid /\ doc.credit = 0
    OBVIOUS
  <1> HIDE DEF doc
  <1>9. Stands(doc, payments[doc.payment])
    BY <1>1, <1>2, <1>6, <1>8 DEF Stands
  <1>10. Fits(doc)
    BY <1>1, <1>2, <1>3, <1>5, <1>8 DEF Fits
  <1> QED
    BY <1>1, <1>2, <1>7, <1>8, <1>9, <1>10, AllocateTurns

LEMMA ReverseAllocationTurns ==
  ASSUME DocInv, NEW x \in Allocation, NEW up \in BOOLEAN, ~up, ReverseAllocation(x)
  PROVE  \E doc : AllocationTurned(x, doc, up)
  <1> DEFINE row == [allocations[x] EXCEPT !.status = "REVERSED"]
  <1>1. /\ draft = None /\ allocations[x].status = "POSTED"
        /\ allocations' = [allocations EXCEPT ![x].status = "REVERSED"]
        /\ gl' = Plus(gl, UnreclassOf(allocations[x]))
        /\ UNCHANGED <<payments, returns, refunds, draft>>
    BY DEF ReverseAllocation, CustomerFree
  <1>2. /\ Table(allocations, Allocation, AllocationRow) /\ IsFiniteSet(Filled(allocations))
        /\ allocations[x] \in AllocationRow
    BY <1>1, TablesAre DEF DocInv, FiniteRows, Typed, Table, Absent
  <1>3. row \in AllocationRow /\ row.status # "POSTED"
    BY <1>2 DEF AllocationRow
  <1>4. allocations' = [allocations EXCEPT ![x] = row]
    BY <1>1, <1>2 DEF Table
  <1> HIDE DEF row
  <1>5. PICK doc \in AllocationRow : doc = allocations[x]
    BY <1>2
  <1>6. PICK Y : Y = allocations'
    OBVIOUS
  <1>7. /\ Table(allocations, Allocation, AllocationRow) /\ IsFiniteSet(Filled(allocations))
        /\ doc.status = "POSTED" /\ row \in AllocationRow /\ row.status # "POSTED"
        /\ Y = [allocations EXCEPT ![x] = row]
    BY <1>1, <1>2, <1>3, <1>4, <1>5, <1>6
  <1>8. Table(Y, Allocation, AllocationRow) /\ Turned(allocations, Y, Allocation, AllocationRow, x, doc, up)
    BY ONLY ~up, up \in BOOLEAN, x \in Allocation, doc \in AllocationRow, <1>5, <1>7, RowReversed
  <1>9. Booked(up, ReclassOf(doc))
    BY <1>1, <1>5, ReclassTyped, Booking DEF DocInv
  <1>10. TypeOK'
    BY <1>1, <1>6, <1>8, <1>9 DEF DocInv, TypeOK, Table, Booked, Keys
  <1>11. Stands(doc, payments[doc.payment])
    BY <1>2, <1>5, <1>7 DEF DocInv, AllocationsStand, Posted, Table
  <1>12. AllocationTurned(x, doc, up)
    BY <1>1, <1>6, <1>8, <1>9, <1>10, <1>11 DEF AllocationTurned
  <1> QED
    BY <1>12

LEMMA AllocationTurns ==
  ASSUME DocInv, NEW x \in Allocation, AllocationStep(x)
  PROVE  \E doc : \E up \in BOOLEAN : AllocationTurned(x, doc, up)
  <1>1. PICK yes \in BOOLEAN : yes
    OBVIOUS
  <1>2. PICK no \in BOOLEAN : ~no
    OBVIOUS
  <1>3. CASE \E p \in Payment, s \in Sale, a \in Amount : AllocatePayment(x, p, s, a)
    BY <1>1, <1>3, AllocatePaymentTurns
  <1>4. CASE \E p \in Payment, s \in Sale, a \in Amount : AllocateSettlement(x, p, s, a)
    BY <1>1, <1>4, AllocateSettlementTurns
  <1>5. CASE ReverseAllocation(x)
    BY <1>2, <1>5, ReverseAllocationTurns
  <1> QED
    BY <1>3, <1>4, <1>5 DEF AllocationStep
-----------------------------------------------------------------------------
(* Returns and refunds. *)
LEMMA ReturnJournalTyped ==
  ASSUME NEW doc \in ReturnRow
  PROVE  ReturnJournal(doc) \in [Keys -> Int] /\ Mirrors(ReturnJournal(doc), UnreturnJournal(doc))
  <1> DEFINE n == doc.entitlement - doc.refundable
             m == doc.refundable
             c == SaleCurrency[doc.sale]
  <1>1. n \in Int /\ m \in Int
    BY DEF ReturnRow
  <1>2. /\ ReturnJournal(doc) = Plus(Journal(SalesReturns, Receivable, c, n), Journal(SalesReturns, CustomerCredit, c, m))
        /\ UnreturnJournal(doc) = Plus(Journal(Receivable, SalesReturns, c, n), Journal(CustomerCredit, SalesReturns, c, m))
    BY DEF ReturnJournal, UnreturnJournal
  <1> HIDE DEF n, m, c
  <1>3. /\ Mirrors(Journal(SalesReturns, Receivable, c, n), Journal(Receivable, SalesReturns, c, n))
        /\ Mirrors(Journal(SalesReturns, CustomerCredit, c, m), Journal(CustomerCredit, SalesReturns, c, m))
    BY <1>1, JournalMirror
  <1>4. Mirrors(ReturnJournal(doc), UnreturnJournal(doc))
    BY <1>2, <1>3, PlusMirror
  <1> QED
    BY <1>4 DEF Mirrors

LEMMA CommitReturnTurns ==
  ASSUME DocInv, NEW r \in Return, NEW up \in BOOLEAN, up, CommitReturn(r)
  PROVE  \E doc : ReturnTurned(r, doc, up)
  <1> DEFINE doc == [status |-> "POSTED", sale |-> draft.sale, quantity |-> draft.quantity,
                     entitlement |-> draft.entitlement, refundable |-> draft.refundable]
  <1>1. /\ draft # None /\ returns[r] = Absent /\ returns' = [returns EXCEPT ![r] = doc]
        /\ gl' = Plus(gl, ReturnJournal(draft)) /\ draft' = None
        /\ UNCHANGED <<payments, allocations, refunds>>
    BY DEF CommitReturn
  <1>2. doc \in ReturnRow
    BY <1>1 DEF DocInv, TypeOK, ReturnRow
  <1>3. /\ doc.status = "POSTED" /\ doc.sale = draft.sale /\ doc.quantity = draft.quantity
        /\ doc.entitlement = draft.entitlement /\ doc.refundable = draft.refundable
    OBVIOUS
  <1> HIDE DEF doc
  <1>4. ReturnJournal(doc) = ReturnJournal(draft)
    BY <1>3 DEF ReturnJournal
  <1>5. Booked(up, ReturnJournal(doc))
    BY <1>1, <1>2, <1>4, ReturnJournalTyped, Booking DEF DocInv
  <1>6. Table(returns', Return, ReturnRow) /\ Turned(returns, returns', Return, ReturnRow, r, doc, up)
    <2>1. Table(returns, Return, ReturnRow) /\ IsFiniteSet(Filled(returns)) /\ returns[r].status # "POSTED"
      BY <1>1, TablesAre DEF DocInv, FiniteRows, Typed, Absent
    <2> QED
      BY <1>1, <1>2, <1>3, <2>1, RowPosted
  <1>7. TypeOK'
    BY <1>1, <1>5, <1>6 DEF DocInv, TypeOK, Table, Booked, Keys
  <1>8. RefundsOf(r) = {}
    BY <1>1 DEF DocInv, BackedInv, RefundsAreBacked, RefundsOf, Absent
  <1>9. ReturnTurned(r, doc, up)
    BY <1>1, <1>3, <1>5, <1>6, <1>7, <1>8 DEF ReturnTurned
  <1> QED
    BY <1>9

LEMMA ReverseReturnTurns ==
  ASSUME DocInv, NEW r \in Return, NEW up \in BOOLEAN, ~up, ReverseReturn(r)
  PROVE  \E doc : ReturnTurned(r, doc, up)
  <1> DEFINE row == [returns[r] EXCEPT !.status = "REVERSED"]
  <1>1. /\ returns[r].status = "POSTED" /\ RefundsOf(r) = {}
        /\ returns' = [returns EXCEPT ![r].status = "REVERSED"]
        /\ gl' = Plus(gl, UnreturnJournal(returns[r]))
        /\ UNCHANGED <<payments, allocations, refunds, draft>>
    BY DEF ReverseReturn, CanUndo
  <1>2. /\ Table(returns, Return, ReturnRow) /\ IsFiniteSet(Filled(returns))
        /\ returns[r] \in ReturnRow
    BY <1>1, TablesAre DEF DocInv, FiniteRows, Typed, Table, Absent
  <1>3. row \in ReturnRow /\ row.status # "POSTED"
    BY <1>2 DEF ReturnRow
  <1>4. returns' = [returns EXCEPT ![r] = row]
    BY <1>1, <1>2 DEF Table
  <1> HIDE DEF row
  <1>5. PICK doc \in ReturnRow : doc = returns[r]
    BY <1>2
  <1>6. PICK Y : Y = returns'
    OBVIOUS
  <1>7. /\ Table(returns, Return, ReturnRow) /\ IsFiniteSet(Filled(returns))
        /\ doc.status = "POSTED" /\ row \in ReturnRow /\ row.status # "POSTED"
        /\ Y = [returns EXCEPT ![r] = row]
    BY <1>1, <1>2, <1>3, <1>4, <1>5, <1>6
  <1>8. Table(Y, Return, ReturnRow) /\ Turned(returns, Y, Return, ReturnRow, r, doc, up)
    BY ONLY ~up, up \in BOOLEAN, r \in Return, doc \in ReturnRow, <1>5, <1>7, RowReversed
  <1>9. Booked(up, ReturnJournal(doc))
    BY <1>1, <1>5, ReturnJournalTyped, Booking DEF DocInv
  <1>10. TypeOK'
    BY <1>1, <1>6, <1>8, <1>9 DEF DocInv, TypeOK, Table, Booked, Keys
  <1>11. ReturnTurned(r, doc, up)
    BY <1>1, <1>6, <1>8, <1>9, <1>10 DEF ReturnTurned
  <1> QED
    BY <1>11

LEMMA ReturnTurns ==
  ASSUME DocInv, NEW r \in Return, ReturnStep(r)
  PROVE  \E doc : \E up \in BOOLEAN : ReturnTurned(r, doc, up)
  <1>1. PICK yes \in BOOLEAN : yes
    OBVIOUS
  <1>2. PICK no \in BOOLEAN : ~no
    OBVIOUS
  <1>3. CASE CommitReturn(r)
    BY <1>1, <1>3, CommitReturnTurns
  <1>4. CASE ReverseReturn(r)
    BY <1>2, <1>4, ReverseReturnTurns
  <1> QED
    BY <1>3, <1>4 DEF ReturnStep

LEMMA RefundJournalsTyped ==
  ASSUME NEW from, NEW doc \in RefundRow
  PROVE  /\ RefundJournals(from, doc.amount, doc.currency, doc.paid) \in [Keys -> Int]
         /\ Mirrors(RefundJournals(from, doc.amount, doc.currency, doc.paid), UnrefundJournals(from, doc))
  <1> DEFINE a == doc.amount
             b == doc.paid
             to == doc.currency
  <1>1. a \in Int /\ b \in Int
    BY DEF RefundRow
  <1>2. /\ RefundJournals(from, a, to, b) =
             IF from = to THEN Journal(CustomerCredit, Cash, from, a)
             ELSE Plus(Journal(CustomerCredit, Clearing, from, a), Journal(Clearing, Cash, to, b))
        /\ UnrefundJournals(from, doc) =
             IF from = to THEN Journal(Cash, CustomerCredit, from, a)
             ELSE Plus(Journal(Clearing, CustomerCredit, from, a), Journal(Cash, Clearing, to, b))
    BY DEF RefundJournals, UnrefundJournals
  <1> HIDE DEF a, b, to
  <1>3. /\ Mirrors(Journal(CustomerCredit, Cash, from, a), Journal(Cash, CustomerCredit, from, a))
        /\ Mirrors(Journal(CustomerCredit, Clearing, from, a), Journal(Clearing, CustomerCredit, from, a))
        /\ Mirrors(Journal(Clearing, Cash, to, b), Journal(Cash, Clearing, to, b))
    BY <1>1, JournalMirror
  <1>4. Mirrors(Plus(Journal(CustomerCredit, Clearing, from, a), Journal(Clearing, Cash, to, b)),
                Plus(Journal(Clearing, CustomerCredit, from, a), Journal(Cash, Clearing, to, b)))
    BY <1>3, PlusMirror
  <1>5. Mirrors(RefundJournals(from, a, to, b), UnrefundJournals(from, doc))
    BY <1>2, <1>3, <1>4
  <1> QED
    BY <1>5 DEF Mirrors, a, b, to

LEMMA CreateRefundTurns ==
  ASSUME DocInv, NEW f \in Refund, NEW r \in Return, NEW a \in Amount, NEW to \in Currency,
         NEW rate \in Rate, NEW up \in BOOLEAN, up, CreateRefund(f, r, a, to, rate)
  PROVE  \E doc : RefundTurned(f, doc, up)
  <1> DEFINE from == SaleCurrency[returns[r].sale]
             paid == RefundAmount(a, from, to, rate)
             doc == [status |-> "POSTED", return |-> r, amount |-> a, currency |-> to, paid |-> paid]
  <1>1. /\ refunds[f] = Absent /\ returns[r].status = "POSTED" /\ a <= Refundable(r) /\ paid > 0
        /\ refunds' = [refunds EXCEPT ![f] = doc]
        /\ gl' = Plus(gl, RefundJournals(from, a, to, paid))
        /\ UNCHANGED <<payments, allocations, returns, draft>>
    BY DEF CreateRefund, CanRefund
  <1>2. a \in Nat /\ a > 0 /\ rate[1] \in Nat /\ rate[1] > 0 /\ rate[2] \in Nat /\ rate[2] > 0
    BY Numbers
  <1>3. paid \in Nat
    <2>1. a * rate[1] \in Nat /\ a * rate[2] \in Nat
      BY <1>2, Product
    <2>2. HalfUp(a * rate[1], rate[2]) \in Nat /\ HalfUp(a * rate[2], rate[1]) \in Nat
      BY <1>2, <2>1, HalfUpTyped
    <2> QED
      BY <1>2, <2>2 DEF RefundAmount
  <1> HIDE DEF paid
  <1>4. doc \in RefundRow
    BY <1>1, <1>2, <1>3 DEF RefundRow
  <1>5. /\ doc.status = "POSTED" /\ doc.return = r /\ doc.amount = a /\ doc.currency = to /\ doc.paid = paid
    OBVIOUS
  <1> HIDE DEF doc
  <1>6. RefundJournals(from, a, to, paid) \in [Keys -> Int]
    BY <1>4, <1>5, RefundJournalsTyped
  <1>7. Booked(up, RefundJournals(from, a, to, paid))
    BY <1>1, <1>6, Booking DEF DocInv
  <1>8. Booked(up, RefundJournals(SaleCurrency[returns[doc.return].sale], doc.amount, doc.currency, doc.paid))
    BY <1>5, <1>7
  <1>9. Table(refunds', Refund, RefundRow) /\ Turned(refunds, refunds', Refund, RefundRow, f, doc, up)
    <2>1. Table(refunds, Refund, RefundRow) /\ IsFiniteSet(Filled(refunds)) /\ refunds[f].status # "POSTED"
      BY <1>1, TablesAre DEF DocInv, FiniteRows, Typed, Absent
    <2> QED
      BY <1>1, <1>4, <1>5, <2>1, RowPosted
  <1>10. TypeOK'
    BY <1>1, <1>7, <1>9 DEF DocInv, TypeOK, Table, Booked, Keys
  <1>11. doc.amount <= returns[doc.return].refundable - Refunded(doc.return)
    BY <1>1, <1>5, RefundableIs DEF DocInv
  <1>12. RefundTurned(f, doc, up)
    BY <1>1, <1>5, <1>8, <1>9, <1>10, <1>11 DEF RefundTurned
  <1> QED
    BY <1>12

LEMMA ReverseRefundTurns ==
  ASSUME DocInv, NEW f \in Refund, NEW up \in BOOLEAN, ~up, ReverseRefund(f)
  PROVE  \E doc : RefundTurned(f, doc, up)
  <1> DEFINE row == [refunds[f] EXCEPT !.status = "REVERSED"]
  <1>1. /\ refunds[f].status = "POSTED"
        /\ refunds' = [refunds EXCEPT ![f].status = "REVERSED"]
        /\ gl' = Plus(gl, UnrefundJournals(SaleCurrency[returns[refunds[f].return].sale], refunds[f]))
        /\ UNCHANGED <<payments, allocations, returns, draft>>
    BY DEF ReverseRefund
  <1>2. /\ Table(refunds, Refund, RefundRow) /\ IsFiniteSet(Filled(refunds))
        /\ refunds[f] \in RefundRow
    BY <1>1, TablesAre DEF DocInv, FiniteRows, Typed, Table, Absent
  <1>3. row \in RefundRow /\ row.status # "POSTED"
    BY <1>2 DEF RefundRow
  <1>4. refunds' = [refunds EXCEPT ![f] = row]
    BY <1>1, <1>2 DEF Table
  <1> HIDE DEF row
  <1>5. PICK doc \in RefundRow : doc = refunds[f]
    BY <1>2
  <1>6. PICK Y : Y = refunds'
    OBVIOUS
  <1>7. /\ Table(refunds, Refund, RefundRow) /\ IsFiniteSet(Filled(refunds))
        /\ doc.status = "POSTED" /\ row \in RefundRow /\ row.status # "POSTED"
        /\ Y = [refunds EXCEPT ![f] = row]
    BY <1>1, <1>2, <1>3, <1>4, <1>5, <1>6
  <1>8. Table(Y, Refund, RefundRow) /\ Turned(refunds, Y, Refund, RefundRow, f, doc, up)
    BY ONLY ~up, up \in BOOLEAN, f \in Refund, doc \in RefundRow, <1>5, <1>7, RowReversed
  <1>9. PICK from : from = SaleCurrency[returns[doc.return].sale]
    OBVIOUS
  <1>10. Booked(up, RefundJournals(from, doc.amount, doc.currency, doc.paid))
    BY <1>1, <1>5, <1>9, RefundJournalsTyped, Booking DEF DocInv
  <1>11. TypeOK'
    BY <1>1, <1>6, <1>8, <1>10 DEF DocInv, TypeOK, Table, Booked, Keys
  <1>12. returns[doc.return].status = "POSTED"
    BY <1>2, <1>5, <1>7 DEF DocInv, BackedInv, RefundsAreBacked, Posted, Table
  <1>13. RefundTurned(f, doc, up)
    BY <1>1, <1>6, <1>8, <1>9, <1>10, <1>11, <1>12 DEF RefundTurned
  <1> QED
    BY <1>13

LEMMA RefundTurns ==
  ASSUME DocInv, NEW f \in Refund, RefundStep(f)
  PROVE  \E doc : \E up \in BOOLEAN : RefundTurned(f, doc, up)
  <1>1. PICK yes \in BOOLEAN : yes
    OBVIOUS
  <1>2. PICK no \in BOOLEAN : ~no
    OBVIOUS
  <1>3. CASE \E r \in Return, a \in Amount, to \in Currency, rate \in Rate : CreateRefund(f, r, a, to, rate)
    BY <1>1, <1>3, CreateRefundTurns
  <1>4. CASE ReverseRefund(f)
    BY <1>2, <1>4, ReverseRefundTurns
  <1> QED
    BY <1>3, <1>4 DEF RefundStep
-----------------------------------------------------------------------------
(* The prepared return. *)

\* The entitlement is what is left of the price, or less.
LEMMA EntitlementIs ==
  ASSUME DocInv, UseInv, NEW s \in Sale, NEW q \in 1 .. Quantity[s]
  PROVE  /\ Entitlement(s, q) \in Int /\ Entitlement(s, q) <= Total[s] - Entitled(s)
         /\ q = Quantity[s] - Back(s) => Entitlement(s, q) = Total[s] - Entitled(s)
  <1> DEFINE left == Total[s] - Entitled(s)
             share == HalfUp(Total[s] * q, Quantity[s])
  <1>1. /\ Total[s] \in Nat /\ Quantity[s] \in Nat /\ Quantity[s] > 0 /\ q \in Nat
        /\ Entitled(s) \in Nat /\ Back(s) \in Nat
    BY Numbers, UsesTyped DEF DocInv
  <1>2. left \in Int /\ share \in Nat
    <2>1. Total[s] * q \in Nat
      BY <1>1, Product
    <2> QED
      BY <1>1, <2>1, HalfUpTyped
  <1>3. Entitlement(s, q) = IF q = Quantity[s] - Back(s) THEN left ELSE Min({share, left})
    <2>1. ReturnedAmount(s) = Entitled(s) /\ ReturnedQuantity(s) = Back(s)
      BY ReturnedIs DEF DocInv
    <2> QED
      BY <2>1 DEF Entitlement
  <1> HIDE DEF left, share
  <1>4. Min({share, left}) \in {share, left} /\ Min({share, left}) <= left
    BY <1>2, MinTwo
  <1>5. /\ Entitlement(s, q) \in Int /\ Entitlement(s, q) <= left
        /\ q = Quantity[s] - Back(s) => Entitlement(s, q) = left
    BY <1>2, <1>3, <1>4
  <1> QED
    BY <1>5 DEF left

\* What a return takes off its invoice is owed on it.
LEMMA OwedPartIs ==
  ASSUME DocInv, NEW s \in Sale, NEW n \in Nat
  PROVE  /\ OwedPart(s, n) \in Nat /\ OwedPart(s, n) <= n
         /\ s \in CreditSale /\ OwedPart(s, n) > 0 => Applied(s) + TakenOff(s) + OwedPart(s, n) <= Total[s]
  <1>1. CASE s \notin CreditSale
    <2>1. OwedPart(s, n) = 0
      BY <1>1 DEF OwedPart
    <2> QED
      BY <1>1, <2>1
  <1>2. CASE s \in CreditSale
    <2> DEFINE due == Total[s] - Applied(s) - TakenOff(s)
               owed == Max({due, 0})
    <2>1. Total[s] \in Nat /\ Applied(s) \in Nat /\ TakenOff(s) \in Int
      BY Numbers, UsesTyped, TakenOffIs DEF DocInv
    <2>2. OwedPart(s, n) = Min({n, owed})
      BY <1>2, AllocatedIs, ReturnedIs DEF DocInv, OwedPart, RemainingReceivable, Outstanding
    <2>3. due \in Int
      BY <2>1
    <2> HIDE DEF due
    <2>4. owed \in {due, 0} /\ owed >= 0
      BY <2>3, MaxTwo
    <2> HIDE DEF owed
    <2>5. owed \in Int
      BY <2>3, <2>4
    <2>6. Min({n, owed}) \in {n, owed} /\ Min({n, owed}) <= n /\ Min({n, owed}) <= owed
      BY <2>5, MinTwo
    <2>7. /\ OwedPart(s, n) \in Nat /\ OwedPart(s, n) <= n
          /\ OwedPart(s, n) > 0 => OwedPart(s, n) <= due
      BY <2>2, <2>3, <2>4, <2>5, <2>6
    <2> QED
      BY <2>1, <2>7 DEF due
  <1> QED
    BY <1>1, <1>2

LEMMA PrepareReturnTakes ==
  ASSUME DocInv, UseInv, NEW s \in Sale, NEW q \in 1 .. Quantity[s], PrepareReturn(s, q)
  PROVE  \E d : DraftTaken(d)
  <1> DEFINE amount == Entitlement(s, q)
             part == OwedPart(s, amount)
             d == [sale |-> s, quantity |-> q, entitlement |-> amount, refundable |-> amount - part]
  <1>1. /\ draft = None /\ q <= Quantity[s] - Back(s) /\ amount > 0 /\ draft' = d
        /\ UNCHANGED <<gl, payments, allocations, returns, refunds>>
    BY ReturnedIs DEF PrepareReturn, CustomerFree, DocInv
  <1>2. /\ amount \in Int /\ amount <= Total[s] - Entitled(s)
        /\ q = Quantity[s] - Back(s) => amount = Total[s] - Entitled(s)
    BY EntitlementIs
  <1> HIDE DEF amount
  <1>3. amount \in Nat
    BY <1>1, <1>2
  <1>4. /\ part \in Nat /\ part <= amount
        /\ s \in CreditSale /\ part > 0 => Applied(s) + TakenOff(s) + part <= Total[s]
    BY <1>3, OwedPartIs
  <1> HIDE DEF part
  <1>5. q \in Nat \ {0} /\ amount \in Nat \ {0} /\ amount - part \in Nat
    BY <1>1, <1>3, <1>4, Numbers
  <1>6. d \in [sale: Sale, quantity: Nat \ {0}, entitlement: Nat \ {0}, refundable: Nat]
    BY <1>5
  <1>7. d.sale = s /\ d.quantity = q /\ d.entitlement = amount /\ d.refundable = amount - part
    OBVIOUS
  <1> HIDE DEF d
  <1>8. TypeOK'
    BY <1>1, <1>6 DEF DocInv, TypeOK
  <1>9. d.refundable <= d.entitlement /\ (d.refundable < d.entitlement => part > 0 /\ d.entitlement - d.refundable = part)
    BY <1>3, <1>4, <1>7
  <1>10. s \in CreditSale /\ d.refundable < d.entitlement =>
           Applied(s) + TakenOff(s) + (d.entitlement - d.refundable) <= Total[s]
    BY <1>4, <1>9
  <1>11. DraftTaken(d)
    BY <1>1, <1>2, <1>7, <1>8, <1>9, <1>10 DEF DraftTaken
  <1> QED
    BY <1>11

\* Every step posts or reverses one row, takes a draft or drops it.
LEMMA StepIs ==
  ASSUME DocInv, UseInv, [Next]_vars
  PROVE  \/ \E p \in Payment : \E doc : \E up \in BOOLEAN : PaymentTurned(p, doc, up)
         \/ \E x \in Allocation : \E doc : \E up \in BOOLEAN : AllocationTurned(x, doc, up)
         \/ \E r \in Return : \E doc : \E up \in BOOLEAN : ReturnTurned(r, doc, up)
         \/ \E f \in Refund : \E doc : \E up \in BOOLEAN : RefundTurned(f, doc, up)
         \/ \E d : DraftTaken(d)
         \/ DraftDropped
  <1>1. CASE \E p \in Payment : PaymentStep(p)
    BY <1>1, PaymentTurns
  <1>2. CASE \E x \in Allocation : AllocationStep(x)
    BY <1>2, AllocationTurns
  <1>3. CASE \E s \in Sale : \E q \in 1 .. Quantity[s] : PrepareReturn(s, q)
    BY <1>3, PrepareReturnTakes
  <1>4. CASE \E r \in Return : ReturnStep(r)
    BY <1>4, ReturnTurns
  <1>5. CASE \E f \in Refund : RefundStep(f)
    BY <1>5, RefundTurns
  <1>6. CASE AbortReturn \/ UNCHANGED vars
    BY <1>6 DEF AbortReturn, DraftDropped, vars
  <1> QED
    BY <1>1, <1>2, <1>3, <1>4, <1>5, <1>6 DEF Next
-----------------------------------------------------------------------------
(* The documents stay well formed. *)

\* The other rows of a turned table do not change.
LEMMA OthersStay ==
  ASSUME NEW X, NEW Y, NEW ids, NEW T, NEW i, NEW doc, NEW up, Turned(X, Y, ids, T, i, doc, up)
  PROVE  /\ Table(X, ids, T) /\ Table(Y, ids, T) /\ i \in ids /\ doc \in T /\ up \in BOOLEAN
         /\ DOMAIN X = ids /\ DOMAIN Y = ids
         /\ \A j \in ids \ {i} : Y[j] = X[j]
         /\ up => Y[i] = doc /\ X[i].status # "POSTED"
         /\ ~up => X[i] = doc /\ Y[i].status # "POSTED"
         /\ doc.status = "POSTED"
  BY DEF Turned, Posts, Table

LEMMA PaymentKeepsDoc ==
  ASSUME DocInv, NEW p, NEW doc, NEW up, PaymentTurned(p, doc, up)
  PROVE  FiniteRows' /\ AllocationsStand' /\ SettlementsStand'
  <1>1. /\ p \in Payment /\ doc \in PaymentRow /\ up \in BOOLEAN
        /\ \A q \in Payment \ {p} : payments'[q] = payments[q]
        /\ up => payments'[p] = doc /\ payments[p] = Absent
        /\ ~up => payments[p] = doc
    BY OthersStay DEF PaymentTurned
  <1>2. /\ doc.settlement # NoSettlement => doc.purpose = "RECEIVABLE"
        /\ ~up => /\ payments'[p].purpose = doc.purpose /\ payments'[p].currency = doc.currency
                  /\ payments'[p].settlement = doc.settlement /\ payments'[p] # Absent
                  /\ doc.settlement # NoSettlement => \A x \in Of(p) : ~allocations[x].settled
        /\ allocations' = allocations /\ returns' = returns /\ refunds' = refunds
    BY DEF PaymentTurned
  <1>3. FiniteRows'
    <2>1. IsFiniteSet(Filled(payments'))
      BY FiniteTurned DEF PaymentTurned
    <2> QED
      BY <1>2, <2>1 DEF DocInv, FiniteRows
  <1>4. SettlementsStand'
    BY <1>1, <1>2 DEF DocInv, SettlementsStand
  <1>5. ASSUME NEW x \in Posted(allocations), NEW row, row = allocations[x]
        PROVE  Stands(row, payments'[row.payment])
    <2>1. Stands(row, payments[row.payment]) /\ row.payment \in Payment /\ row.status = "POSTED"
      <3>1. row \in AllocationRow /\ row.status = "POSTED"
        BY <1>5, TablesAre, PostedRows DEF DocInv, Typed, Posted
      <3> QED
        BY <1>5, <3>1 DEF DocInv, AllocationsStand, AllocationRow
    <2>2. CASE row.payment # p
      BY <1>1, <2>1, <2>2
    <2>3. CASE row.payment = p
      <3>1. ~up
        BY <1>1, <2>1, <2>3 DEF Stands
      <3>2. x \in Of(p)
        BY <1>5, <2>3 DEF Of
      <3> QED
        BY <1>1, <1>2, <1>5, <2>1, <2>3, <3>1, <3>2 DEF Stands
    <2> QED
      BY <2>2, <2>3
  <1>6. AllocationsStand'
    BY <1>2, <1>5 DEF AllocationsStand, Posted
  <1> QED
    BY <1>3, <1>4, <1>6

LEMMA AllocationKeepsDoc ==
  ASSUME DocInv, NEW x, NEW doc, NEW up, AllocationTurned(x, doc, up)
  PROVE  FiniteRows' /\ AllocationsStand' /\ SettlementsStand'
  <1>1. /\ x \in Allocation /\ up \in BOOLEAN
        /\ DOMAIN allocations = Allocation /\ DOMAIN allocations' = Allocation
        /\ \A y \in Allocation \ {x} : allocations'[y] = allocations[y]
        /\ up => allocations'[x] = doc
        /\ ~up => allocations'[x].status # "POSTED"
    BY OthersStay DEF AllocationTurned
  <1>2. /\ payments' = payments /\ returns' = returns /\ refunds' = refunds
        /\ Stands(doc, payments[doc.payment])
    BY DEF AllocationTurned
  <1>3. FiniteRows'
    <2>1. IsFiniteSet(Filled(allocations'))
      BY FiniteTurned DEF AllocationTurned
    <2> QED
      BY <1>2, <2>1 DEF DocInv, FiniteRows
  <1>4. SettlementsStand'
    BY <1>2 DEF DocInv, SettlementsStand
  <1>5. AllocationsStand'
    <2> SUFFICES ASSUME NEW y \in Posted(allocations')
                 PROVE  Stands(allocations'[y], payments[allocations'[y].payment])
      BY <1>2 DEF AllocationsStand
    <2>1. CASE y = x
      BY <1>1, <1>2, <2>1 DEF Posted
    <2>2. CASE y # x
      BY <1>1, <2>2 DEF Posted, DocInv, AllocationsStand
    <2> QED
      BY <2>1, <2>2
  <1> QED
    BY <1>3, <1>4, <1>5

LEMMA DocAgain ==
  ASSUME DocInv, UseInv, [Next]_vars
  PROVE  DocInv'
  <1>1. BackedInv'
    BY BackedStep DEF DocInv
  <1>2. CASE \E p \in Payment : \E doc : \E up \in BOOLEAN : PaymentTurned(p, doc, up)
    <2>1. PICK p \in Payment : \E doc : \E up \in BOOLEAN : PaymentTurned(p, doc, up)
      BY <1>2
    <2>2. PICK doc, up : PaymentTurned(p, doc, up)
      BY <2>1
    <2>3. TypeOK' /\ FiniteRows' /\ AllocationsStand' /\ SettlementsStand'
      BY <2>2, PaymentKeepsDoc DEF PaymentTurned
    <2> QED
      BY <1>1, <2>3 DEF DocInv
  <1>3. CASE \E x \in Allocation : \E doc : \E up \in BOOLEAN : AllocationTurned(x, doc, up)
    <2>1. PICK x \in Allocation : \E doc : \E up \in BOOLEAN : AllocationTurned(x, doc, up)
      BY <1>3
    <2>2. PICK doc, up : AllocationTurned(x, doc, up)
      BY <2>1
    <2>3. TypeOK' /\ FiniteRows' /\ AllocationsStand' /\ SettlementsStand'
      BY <2>2, AllocationKeepsDoc DEF AllocationTurned
    <2> QED
      BY <1>1, <2>3 DEF DocInv
  <1>4. UNCHANGED <<payments, allocations>> => AllocationsStand' /\ SettlementsStand'
    BY DEF DocInv, AllocationsStand, SettlementsStand, Posted
  <1>5. CASE \E r \in Return : \E doc : \E up \in BOOLEAN : ReturnTurned(r, doc, up)
    <2>1. PICK r, doc, up : ReturnTurned(r, doc, up)
      BY <1>5
    <2>2. TypeOK' /\ UNCHANGED <<payments, allocations, refunds>> /\ IsFiniteSet(Filled(returns'))
      BY <2>1, FiniteTurned DEF ReturnTurned
    <2>3. FiniteRows'
      BY <2>2 DEF DocInv, FiniteRows
    <2> QED
      BY <1>1, <1>4, <2>2, <2>3 DEF DocInv
  <1>6. CASE \E f \in Refund : \E doc : \E up \in BOOLEAN : RefundTurned(f, doc, up)
    <2>1. PICK f, doc, up : RefundTurned(f, doc, up)
      BY <1>6
    <2>2. TypeOK' /\ UNCHANGED <<payments, allocations, returns>> /\ IsFiniteSet(Filled(refunds'))
      BY <2>1, FiniteTurned DEF RefundTurned
    <2>3. FiniteRows'
      BY <2>2 DEF DocInv, FiniteRows
    <2> QED
      BY <1>1, <1>4, <2>2, <2>3 DEF DocInv
  <1>7. CASE (\E d : DraftTaken(d)) \/ DraftDropped
    <2>1. TypeOK' /\ UNCHANGED <<payments, allocations, returns, refunds>>
      BY <1>7 DEF DraftTaken, DraftDropped, DocInv, TypeOK
    <2>2. FiniteRows'
      BY <2>1 DEF DocInv, FiniteRows
    <2> QED
      BY <1>1, <1>4, <2>1, <2>2 DEF DocInv
  <1> QED
    BY <1>2, <1>3, <1>5, <1>6, <1>7, StepIs
-----------------------------------------------------------------------------
(* Nothing is used twice after a step. *)
Moves(old, new, hit, up, n) == new = old + (IF hit THEN Move(up, n) ELSE 0)

LEMMA AllocationMoves ==
  ASSUME NEW x, NEW doc, NEW up, AllocationTurned(x, doc, up)
  PROVE  /\ up \in BOOLEAN /\ doc.payment \in Payment /\ doc.sale \in Sale /\ doc.settled \in BOOLEAN
         /\ doc.amount \in Nat /\ doc.paid \in Nat /\ doc.credit \in Nat
         /\ \A p : /\ Moves(Drawn(p), Drawn(p)', doc.payment = p, up, doc.paid + doc.credit)
                   /\ Moves(Settled(p), Settled(p)', doc.payment = p /\ doc.settled, up, doc.amount)
         /\ \A s : Moves(Applied(s), Applied(s)', doc.sale = s, up, doc.amount)
  <1>1. /\ Turned(allocations, allocations', Allocation, AllocationRow, x, doc, up)
        /\ doc \in AllocationRow /\ up \in BOOLEAN
    BY OthersStay DEF AllocationTurned
  <1>2. /\ doc.payment \in Payment /\ doc.sale \in Sale /\ doc.settled \in BOOLEAN
        /\ doc.amount \in Nat /\ doc.paid \in Nat /\ doc.credit \in Nat
    BY <1>1 DEF AllocationRow
  <1>3. AppliedOf \in [AllocationRow -> Int] /\ DrawnOf \in [AllocationRow -> Int]
    BY ValuesTyped
  <1>4. AppliedOf[doc] = doc.amount /\ DrawnOf[doc] = doc.paid + doc.credit
    BY <1>1 DEF AppliedOf, DrawnOf
  <1>5. ASSUME NEW p
        PROVE  /\ Moves(Drawn(p), Drawn(p)', doc.payment = p, up, doc.paid + doc.credit)
               /\ Moves(Settled(p), Settled(p)', doc.payment = p /\ doc.settled, up, doc.amount)
    <2>1. /\ Over(allocations', OfRows(p), DrawnOf) =
               Over(allocations, OfRows(p), DrawnOf) + (IF doc \in OfRows(p) THEN Move(up, DrawnOf[doc]) ELSE 0)
          /\ Over(allocations', SettledRows(p), AppliedOf) =
               Over(allocations, SettledRows(p), AppliedOf) + (IF doc \in SettledRows(p) THEN Move(up, AppliedOf[doc]) ELSE 0)
      BY <1>1, <1>3, OverTurned
    <2>2. (doc \in OfRows(p) <=> doc.payment = p) /\ (doc \in SettledRows(p) <=> doc.payment = p /\ doc.settled)
      BY <1>1 DEF OfRows, SettledRows
    <2> QED
      BY <1>4, <2>1, <2>2 DEF Moves, Drawn, Settled
  <1>6. ASSUME NEW s PROVE Moves(Applied(s), Applied(s)', doc.sale = s, up, doc.amount)
    <2>1. Over(allocations', ToRows(s), AppliedOf) =
            Over(allocations, ToRows(s), AppliedOf) + (IF doc \in ToRows(s) THEN Move(up, AppliedOf[doc]) ELSE 0)
      BY <1>1, <1>3, OverTurned
    <2>2. doc \in ToRows(s) <=> doc.sale = s
      BY <1>1 DEF ToRows
    <2> QED
      BY <1>4, <2>1, <2>2 DEF Moves, Applied
  <1> QED
    BY <1>1, <1>2, <1>5, <1>6

LEMMA ReturnMoves ==
  ASSUME NEW r, NEW doc, NEW up, ReturnTurned(r, doc, up)
  PROVE  /\ up \in BOOLEAN /\ doc.sale \in Sale /\ doc.quantity \in Nat /\ doc.quantity > 0
         /\ doc.entitlement \in Nat /\ doc.refundable \in Nat
         /\ \A s : /\ Moves(Back(s), Back(s)', doc.sale = s, up, doc.quantity)
                   /\ Moves(Entitled(s), Entitled(s)', doc.sale = s, up, doc.entitlement)
                   /\ Moves(TakenOff(s), TakenOff(s)', doc.sale = s, up, doc.entitlement - doc.refundable)
  <1>1. /\ Turned(returns, returns', Return, ReturnRow, r, doc, up)
        /\ doc \in ReturnRow /\ up \in BOOLEAN
    BY OthersStay DEF ReturnTurned
  <1>2. /\ doc.sale \in Sale /\ doc.quantity \in Nat /\ doc.quantity > 0
        /\ doc.entitlement \in Nat /\ doc.refundable \in Nat
    BY <1>1 DEF ReturnRow
  <1>3. /\ UnitsOf \in [ReturnRow -> Int] /\ EntitledOf \in [ReturnRow -> Int] /\ TakenOffOf \in [ReturnRow -> Int]
    BY ValuesTyped
  <1>4. /\ UnitsOf[doc] = doc.quantity /\ EntitledOf[doc] = doc.entitlement
        /\ TakenOffOf[doc] = doc.entitlement - doc.refundable
    BY <1>1 DEF UnitsOf, EntitledOf, TakenOffOf
  <1>5. ASSUME NEW s
        PROVE  /\ Moves(Back(s), Back(s)', doc.sale = s, up, doc.quantity)
               /\ Moves(Entitled(s), Entitled(s)', doc.sale = s, up, doc.entitlement)
               /\ Moves(TakenOff(s), TakenOff(s)', doc.sale = s, up, doc.entitlement - doc.refundable)
    <2>1. /\ Over(returns', ReturnRows(s), UnitsOf) =
               Over(returns, ReturnRows(s), UnitsOf) + (IF doc \in ReturnRows(s) THEN Move(up, UnitsOf[doc]) ELSE 0)
          /\ Over(returns', ReturnRows(s), EntitledOf) =
               Over(returns, ReturnRows(s), EntitledOf) + (IF doc \in ReturnRows(s) THEN Move(up, EntitledOf[doc]) ELSE 0)
          /\ Over(returns', ReturnRows(s), TakenOffOf) =
               Over(returns, ReturnRows(s), TakenOffOf) + (IF doc \in ReturnRows(s) THEN Move(up, TakenOffOf[doc]) ELSE 0)
      BY <1>1, <1>3, OverTurned
    <2>2. doc \in ReturnRows(s) <=> doc.sale = s
      BY <1>1 DEF ReturnRows
    <2> QED
      BY <1>4, <2>1, <2>2 DEF Moves, Back, Entitled, TakenOff
  <1> QED
    BY <1>1, <1>2, <1>5

LEMMA RefundMoves ==
  ASSUME NEW f, NEW doc, NEW up, RefundTurned(f, doc, up)
  PROVE  /\ up \in BOOLEAN /\ doc.return \in Return /\ doc.amount \in Nat
         /\ \A r : Moves(Refunded(r), Refunded(r)', doc.return = r, up, doc.amount)
  <1>1. /\ Turned(refunds, refunds', Refund, RefundRow, f, doc, up)
        /\ doc \in RefundRow /\ up \in BOOLEAN
    BY OthersStay DEF RefundTurned
  <1>2. doc.return \in Return /\ doc.amount \in Nat /\ RefundedOf[doc] = doc.amount /\ RefundedOf \in [RefundRow -> Int]
    BY <1>1, ValuesTyped DEF RefundRow, RefundedOf
  <1>3. ASSUME NEW r PROVE Moves(Refunded(r), Refunded(r)', doc.return = r, up, doc.amount)
    <2>1. Over(refunds', RefundRows(r), RefundedOf) =
            Over(refunds, RefundRows(r), RefundedOf) + (IF doc \in RefundRows(r) THEN Move(up, RefundedOf[doc]) ELSE 0)
      BY <1>1, <1>2, OverTurned
    <2>2. doc \in RefundRows(r) <=> doc.return = r
      BY <1>1 DEF RefundRows
    <2> QED
      BY <1>2, <2>1, <2>2 DEF Moves, Refunded
  <1> QED
    BY <1>1, <1>2, <1>3

LEMMA AllocationKeepsUse ==
  ASSUME DocInv, UseInv, NEW x, NEW doc, NEW up, AllocationTurned(x, doc, up)
  PROVE  UseInv'
  <1>1. /\ payments' = payments /\ returns' = returns /\ refunds' = refunds /\ draft' = draft /\ draft = None
        /\ up => Fits(doc)
    BY DEF AllocationTurned, Fits
  <1>2. /\ up \in BOOLEAN /\ doc.payment \in Payment /\ doc.sale \in Sale /\ doc.settled \in BOOLEAN
        /\ doc.amount \in Nat /\ doc.paid \in Nat /\ doc.credit \in Nat
        /\ \A p : /\ Moves(Drawn(p), Drawn(p)', doc.payment = p, up, doc.paid + doc.credit)
                  /\ Moves(Settled(p), Settled(p)', doc.payment = p /\ doc.settled, up, doc.amount)
        /\ \A s : Moves(Applied(s), Applied(s)', doc.sale = s, up, doc.amount)
    BY AllocationMoves
  <1>3. /\ \A p : Drawn(p) \in Nat /\ Settled(p) \in Nat
        /\ \A s : Applied(s) \in Nat
    BY UsesTyped DEF DocInv
  <1>4. WithinPayments'
    <2> SUFFICES ASSUME NEW p \in Payment, payments[p] # Absent
                 PROVE  /\ Drawn(p)' <= payments[p].amount
                        /\ payments[p].settlement # NoSettlement => Settled(p)' <= payments[p].settlement.debt
      BY <1>1 DEF WithinPayments
    <2>1. payments[p].amount \in Nat /\ payments[p].settlement.debt \in Nat
      BY DEF DocInv, TypeOK, PaymentRow, NoSettlement
    <2>2. /\ Drawn(p) <= payments[p].amount
          /\ payments[p].settlement # NoSettlement => Settled(p) <= payments[p].settlement.debt
      BY DEF UseInv, WithinPayments
    <2>3. /\ Moves(Drawn(p), Drawn(p)', doc.payment = p, up, doc.paid + doc.credit)
          /\ Moves(Settled(p), Settled(p)', doc.payment = p /\ doc.settled, up, doc.amount)
          /\ Drawn(p) \in Nat /\ Settled(p) \in Nat
      BY <1>2, <1>3
    <2>4. up /\ doc.payment = p => /\ doc.paid + doc.credit <= payments[p].amount - Drawn(p)
                                   /\ doc.settled => doc.amount <= payments[p].settlement.debt - Settled(p)
      BY <1>1 DEF Fits
    <2>5. Drawn(p)' <= payments[p].amount
      BY <1>2, <2>1, <2>2, <2>3, <2>4 DEF Moves, Move
    <2>6. payments[p].settlement # NoSettlement => Settled(p)' <= payments[p].settlement.debt
      BY <1>2, <2>1, <2>2, <2>3, <2>4 DEF Moves, Move
    <2> QED
      BY <2>5, <2>6
  <1>5. WithinInvoices'
    <2> SUFFICES ASSUME NEW s \in CreditSale PROVE Applied(s)' <= Total[s]
      BY DEF WithinInvoices
    <2>1. Total[s] \in Nat /\ Applied(s) \in Nat /\ Applied(s) <= Total[s]
      BY <1>3, Numbers DEF UseInv, WithinInvoices
    <2>2. Moves(Applied(s), Applied(s)', doc.sale = s, up, doc.amount)
      BY <1>2
    <2>3. up /\ doc.sale = s => doc.amount <= Total[s] - Applied(s)
      BY <1>1 DEF Fits
    <2> QED
      BY <1>2, <2>1, <2>2, <2>3 DEF Moves, Move
  <1>6. WithinLines'
    BY <1>1 DEF UseInv, WithinLines, Back, Entitled
  <1>7. WithinReturns' /\ ReturnsStand'
    BY <1>1 DEF UseInv, WithinReturns, ReturnsStand, Posted, Refunded
  <1>8. DraftStands'
    BY <1>1 DEF DraftStands
  <1> QED
    BY <1>4, <1>5, <1>6, <1>7, <1>8 DEF UseInv

LEMMA PaymentKeepsUse ==
  ASSUME DocInv, UseInv, NEW p, NEW doc, NEW up, PaymentTurned(p, doc, up)
  PROVE  UseInv'
  <1>1. /\ p \in Payment /\ doc \in PaymentRow /\ up \in BOOLEAN
        /\ \A q \in Payment \ {p} : payments'[q] = payments[q]
        /\ up => payments'[p] = doc
        /\ ~up => payments[p] = doc /\ doc.status = "POSTED"
    BY OthersStay DEF PaymentTurned
  <1>2. /\ up => payments[p] = Absent
        /\ ~up => payments'[p].amount = doc.amount /\ payments'[p].settlement = doc.settlement
        /\ allocations' = allocations /\ returns' = returns /\ refunds' = refunds /\ draft' = draft
    BY DEF PaymentTurned
  <1>3. \A q : Drawn(q)' = Drawn(q) /\ Settled(q)' = Settled(q)
    BY <1>2 DEF Drawn, Settled
  <1>4. \A s : Applied(s)' = Applied(s) /\ Back(s)' = Back(s) /\ Entitled(s)' = Entitled(s) /\ TakenOff(s)' = TakenOff(s)
    BY <1>2 DEF Applied, Back, Entitled, TakenOff
  <1>5. up => Drawn(p) = 0 /\ Settled(p) = 0
    <2> SUFFICES ASSUME up PROVE Drawn(p) = 0 /\ Settled(p) = 0
      OBVIOUS
    <2>1. \A x \in Posted(allocations) : allocations[x].payment # p
      BY <1>2 DEF DocInv, AllocationsStand, Stands
    <2>2. Chosen(allocations, OfRows(p)) = {} /\ Chosen(allocations, SettledRows(p)) = {}
      BY <2>1 DEF Chosen, OfRows, SettledRows
    <2> QED
      BY <2>2, OverEmpty DEF Drawn, Settled
  <1>6. WithinPayments'
    <2> SUFFICES ASSUME NEW q \in Payment, payments'[q] # Absent
                 PROVE  /\ Drawn(q) <= payments'[q].amount
                        /\ payments'[q].settlement # NoSettlement => Settled(q) <= payments'[q].settlement.debt
      BY <1>3 DEF WithinPayments
    <2>1. doc.amount \in Nat /\ doc.settlement.debt \in Nat /\ (~up => payments[p] # Absent)
      BY <1>1 DEF PaymentRow, NoSettlement, Absent
    <2>2. CASE q # p
      BY <1>1, <2>2 DEF UseInv, WithinPayments
    <2>3. CASE q = p /\ up
      BY <1>1, <1>5, <2>1, <2>3
    <2>4. CASE q = p /\ ~up
      BY <1>1, <1>2, <2>1, <2>4 DEF UseInv, WithinPayments
    <2> QED
      BY <1>1, <2>2, <2>3, <2>4
  <1>7. WithinInvoices' /\ WithinLines' /\ WithinReturns' /\ ReturnsStand'
    BY <1>2, <1>4 DEF UseInv, WithinInvoices, WithinLines, WithinReturns, ReturnsStand, Posted, Refunded
  <1>8. DraftStands'
    BY <1>2, <1>4 DEF UseInv, DraftStands
  <1> QED
    BY <1>6, <1>7, <1>8 DEF UseInv

LEMMA RefundKeepsUse ==
  ASSUME DocInv, UseInv, NEW f, NEW doc, NEW up, RefundTurned(f, doc, up)
  PROVE  UseInv'
  <1>1. /\ payments' = payments /\ allocations' = allocations /\ returns' = returns /\ draft' = draft
        /\ up => doc.amount <= returns[doc.return].refundable - Refunded(doc.return)
    BY DEF RefundTurned
  <1>2. /\ up \in BOOLEAN /\ doc.return \in Return /\ doc.amount \in Nat
        /\ \A r : Moves(Refunded(r), Refunded(r)', doc.return = r, up, doc.amount)
    BY RefundMoves
  <1>3. WithinReturns'
    <2> SUFFICES ASSUME NEW r \in Posted(returns) PROVE Refunded(r)' <= returns[r].refundable
      BY <1>1 DEF WithinReturns, Posted
    <2>1. returns[r].refundable \in Nat
      <3>1. returns[r] \in ReturnRow
        BY TablesAre, PostedRows DEF DocInv, Typed
      <3> QED
        BY <3>1 DEF ReturnRow
    <2>2. Refunded(r) \in Nat /\ Refunded(r) <= returns[r].refundable
      BY UsesTyped DEF DocInv, UseInv, WithinReturns
    <2>3. Moves(Refunded(r), Refunded(r)', doc.return = r, up, doc.amount)
      BY <1>2
    <2> QED
      BY <1>1, <1>2, <2>1, <2>2, <2>3 DEF Moves, Move
  <1>4. WithinPayments' /\ WithinInvoices' /\ WithinLines' /\ ReturnsStand'
    BY <1>1 DEF UseInv, WithinPayments, WithinInvoices, WithinLines, ReturnsStand, Posted, Drawn, Settled,
                Applied, Back, Entitled
  <1>5. DraftStands'
    BY <1>1 DEF UseInv, DraftStands, Back, Entitled, Applied, TakenOff
  <1> QED
    BY <1>3, <1>4, <1>5 DEF UseInv

\* The units, the price and the debt of one line after a return of it.
LEMMA ReturnKeepsLine ==
  ASSUME DocInv, UseInv, NEW r, NEW doc, NEW up, ReturnTurned(r, doc, up), NEW s \in Sale
  PROVE  /\ Back(s)' <= Quantity[s] /\ Entitled(s)' <= Total[s]
         /\ Back(s)' = Quantity[s] => Entitled(s)' = Total[s]
         /\ doc.refundable <= doc.entitlement
         /\ s \in CreditSale /\ TakenOff(s)' > TakenOff(s) => Applied(s)' + TakenOff(s)' <= Total[s]
         /\ ~up => /\ Back(s)' <= Back(s) /\ Entitled(s)' <= Entitled(s) /\ TakenOff(s)' <= TakenOff(s)
                   /\ Back(s)' = Back(s) => Entitled(s)' = Entitled(s)
         /\ Back(s)' \in Int /\ Entitled(s)' \in Int /\ TakenOff(s)' \in Int
  <1>1. /\ up \in BOOLEAN /\ doc.sale \in Sale /\ doc.quantity \in Nat /\ doc.quantity > 0
        /\ doc.entitlement \in Nat /\ doc.refundable \in Nat
        /\ Moves(Back(s), Back(s)', doc.sale = s, up, doc.quantity)
        /\ Moves(Entitled(s), Entitled(s)', doc.sale = s, up, doc.entitlement)
        /\ Moves(TakenOff(s), TakenOff(s)', doc.sale = s, up, doc.entitlement - doc.refundable)
    BY ReturnMoves
  <1>2. /\ Total[s] \in Nat /\ Quantity[s] \in Nat /\ Back(s) \in Nat /\ Entitled(s) \in Nat /\ Applied(s) \in Nat
        /\ TakenOff(s) \in Int
    BY Numbers, UsesTyped, TakenOffIs DEF DocInv
  <1>3. /\ Back(s) <= Quantity[s] /\ Entitled(s) <= Total[s]
        /\ Back(s) = Quantity[s] => Entitled(s) = Total[s]
    BY DEF UseInv, WithinLines
  <1>4. Applied(s)' = Applied(s)
    BY DEF ReturnTurned, Applied
  <1>5. CASE up
    <2>1. /\ draft # None /\ doc.sale = draft.sale /\ doc.quantity = draft.quantity
          /\ doc.entitlement = draft.entitlement /\ doc.refundable = draft.refundable
      BY <1>5 DEF ReturnTurned
    <2>2. /\ doc.refundable <= doc.entitlement
          /\ doc.sale = s => /\ doc.quantity <= Quantity[s] - Back(s)
                             /\ doc.entitlement <= Total[s] - Entitled(s)
                             /\ doc.quantity = Quantity[s] - Back(s) => doc.entitlement = Total[s] - Entitled(s)
                             /\ s \in CreditSale /\ doc.refundable < doc.entitlement =>
                                  Applied(s) + TakenOff(s) + (doc.entitlement - doc.refundable) <= Total[s]
      BY <2>1 DEF UseInv, DraftStands
    <2> QED
      BY <1>1, <1>2, <1>3, <1>4, <1>5, <2>2 DEF Moves, Move
  <1>6. CASE ~up
    <2>1. returns[r] = doc /\ r \in Posted(returns)
      BY <1>6, OthersStay DEF ReturnTurned, Posted
    <2>2. doc.refundable <= doc.entitlement
      BY <2>1 DEF UseInv, ReturnsStand
    <2> QED
      BY <1>1, <1>2, <1>3, <1>4, <1>6, <2>2 DEF Moves, Move
  <1> QED
    BY <1>1, <1>5, <1>6

LEMMA ReturnKeepsUse ==
  ASSUME DocInv, UseInv, NEW r, NEW doc, NEW up, ReturnTurned(r, doc, up)
  PROVE  UseInv'
  <1>1. /\ r \in Return /\ doc \in ReturnRow /\ up \in BOOLEAN
        /\ DOMAIN returns = Return /\ DOMAIN returns' = Return
        /\ \A q \in Return \ {r} : returns'[q] = returns[q]
        /\ up => returns'[r] = doc
        /\ ~up => returns'[r].status # "POSTED"
    BY OthersStay DEF ReturnTurned
  <1>2. /\ payments' = payments /\ allocations' = allocations /\ refunds' = refunds
        /\ RefundsOf(r) = {} /\ (up => draft' = None) /\ (~up => draft' = draft)
    BY DEF ReturnTurned
  <1>3. WithinLines'
    BY ReturnKeepsLine DEF WithinLines
  <1>4. doc.refundable <= doc.entitlement /\ doc.refundable \in Nat
    <2>1. doc.sale \in Sale /\ doc.refundable \in Nat
      BY ReturnMoves
    <2> QED
      BY <2>1, ReturnKeepsLine
  <1>5. Refunded(r) = 0
    <2>1. Chosen(refunds, RefundRows(r)) = {}
      BY <1>2 DEF Chosen, RefundRows, RefundsOf
    <2> QED
      BY <2>1, OverEmpty DEF Refunded
  <1>6. WithinReturns' /\ ReturnsStand'
    <2>1. ASSUME NEW q \in Posted(returns')
          PROVE  Refunded(q) <= returns'[q].refundable /\ returns'[q].refundable <= returns'[q].entitlement
      <3>1. CASE q = r
        BY <1>1, <1>4, <1>5, <3>1 DEF Posted
      <3>2. CASE q # r
        BY <1>1, <3>2 DEF Posted, UseInv, WithinReturns, ReturnsStand
      <3> QED
        BY <3>1, <3>2
    <2>2. \A q : Refunded(q)' = Refunded(q)
      BY <1>2 DEF Refunded
    <2> QED
      BY <2>1, <2>2 DEF WithinReturns, ReturnsStand
  <1>7. WithinPayments' /\ WithinInvoices'
    BY <1>2 DEF UseInv, WithinPayments, WithinInvoices, Drawn, Settled, Applied
  <1>8. DraftStands'
    <2>1. CASE up
      BY <1>2, <2>1 DEF DraftStands
    <2>2. CASE ~up /\ draft = None
      BY <1>2, <2>2 DEF DraftStands
    <2>3. CASE ~up /\ draft # None
      <3>1. draft \in [sale: Sale, quantity: Nat \ {0}, entitlement: Nat \ {0}, refundable: Nat]
        BY <2>3 DEF DocInv, TypeOK
      <3>2. PICK s \in Sale : s = draft.sale /\ draft.quantity \in Nat /\ draft.entitlement \in Nat
                               /\ draft.refundable \in Nat
        BY <3>1
      <3>3. /\ Total[s] \in Nat /\ Quantity[s] \in Nat /\ Back(s) \in Nat /\ Entitled(s) \in Nat
            /\ Applied(s) \in Nat /\ TakenOff(s) \in Int /\ Applied(s)' = Applied(s)
        BY <1>2, <3>2, Numbers, UsesTyped, TakenOffIs DEF DocInv, Applied
      <3>4. /\ Back(s)' <= Back(s) /\ Entitled(s)' <= Entitled(s) /\ TakenOff(s)' <= TakenOff(s)
            /\ Back(s)' = Back(s) => Entitled(s)' = Entitled(s)
            /\ Back(s)' \in Int /\ Entitled(s)' \in Int /\ TakenOff(s)' \in Int
        BY <2>3, <3>2, ReturnKeepsLine
      <3>5. /\ draft.refundable <= draft.entitlement
            /\ draft.quantity <= Quantity[s] - Back(s)
            /\ draft.entitlement <= Total[s] - Entitled(s)
            /\ draft.quantity = Quantity[s] - Back(s) => draft.entitlement = Total[s] - Entitled(s)
            /\ s \in CreditSale /\ draft.refundable < draft.entitlement =>
                 Applied(s) + TakenOff(s) + (draft.entitlement - draft.refundable) <= Total[s]
        BY <2>3, <3>2 DEF UseInv, DraftStands
      <3>6. /\ draft.quantity <= Quantity[s] - Back(s)'
            /\ draft.entitlement <= Total[s] - Entitled(s)'
            /\ draft.quantity = Quantity[s] - Back(s)' => draft.entitlement = Total[s] - Entitled(s)'
            /\ s \in CreditSale /\ draft.refundable < draft.entitlement =>
                 Applied(s)' + TakenOff(s)' + (draft.entitlement - draft.refundable) <= Total[s]
        BY <3>2, <3>3, <3>4, <3>5
      <3> QED
        BY <1>2, <2>3, <3>2, <3>5, <3>6 DEF DraftStands
    <2> QED
      BY <1>1, <2>1, <2>2, <2>3
  <1> QED
    BY <1>3, <1>6, <1>7, <1>8 DEF UseInv

LEMMA DraftKeepsUse ==
  ASSUME UseInv, (\E d : DraftTaken(d)) \/ DraftDropped
  PROVE  UseInv'
  <1>1. payments' = payments /\ allocations' = allocations /\ returns' = returns /\ refunds' = refunds
    BY DEF DraftTaken, DraftDropped
  <1>2. \A s : Applied(s)' = Applied(s) /\ Back(s)' = Back(s) /\ Entitled(s)' = Entitled(s) /\ TakenOff(s)' = TakenOff(s)
    BY <1>1 DEF Applied, Back, Entitled, TakenOff
  <1>3. WithinPayments' /\ WithinInvoices' /\ WithinLines' /\ WithinReturns' /\ ReturnsStand'
    BY <1>1, <1>2 DEF UseInv, WithinPayments, WithinInvoices, WithinLines, WithinReturns, ReturnsStand, Posted,
                      Drawn, Settled, Refunded
  <1>4. DraftStands'
    <2>1. CASE \E d : DraftTaken(d)
      BY <1>2, <2>1 DEF DraftTaken, DraftStands
    <2>2. CASE DraftDropped
      BY <1>2, <2>2 DEF DraftDropped, UseInv, DraftStands
    <2> QED
      BY <2>1, <2>2
  <1> QED
    BY <1>3, <1>4 DEF UseInv

LEMMA UseAgain ==
  ASSUME DocInv, UseInv, [Next]_vars
  PROVE  UseInv'
  BY StepIs, PaymentKeepsUse, AllocationKeepsUse, ReturnKeepsUse, RefundKeepsUse, DraftKeepsUse

Readings == \A s : ReturnedReceivable(s) = TakenOff(s) /\ Allocated(s) = Applied(s)

LEMMA ReadingsAre == TypeOK => Readings
  BY ReturnedIs, AllocatedIs DEF Readings

LEMMA ReadingsNext == TypeOK' => Readings'
  BY ReadingsAre, PTL

\* Only a return that commits takes anything off an invoice.
LEMMA ReturnsTake ==
  ASSUME DocInv, UseInv, [Next]_vars, DocInv', NEW s \in CreditSale,
         ReturnedReceivable(s)' > ReturnedReceivable(s)
  PROVE  Allocated(s)' + ReturnedReceivable(s)' <= Total[s]
  <1>1. s \in Sale
    BY Numbers
  <1>2. TypeOK /\ TypeOK'
    BY DEF DocInv
  <1>3. /\ ReturnedReceivable(s) = TakenOff(s)
        /\ Allocated(s) = Applied(s)
    BY <1>2, ReadingsAre DEF Readings
  <1>5. /\ ReturnedReceivable(s)' = TakenOff(s)'
        /\ Allocated(s)' = Applied(s)'
    BY <1>2, ReadingsNext DEF Readings
  <1>6. TakenOff(s) \in Int /\ TakenOff(s)' > TakenOff(s)
    BY <1>3, <1>5, TakenOffIs DEF DocInv
  <1>7. returns' # returns
    BY <1>6 DEF TakenOff
  <1>8. PICK r, doc, up : ReturnTurned(r, doc, up)
    BY <1>7, StepIs DEF PaymentTurned, AllocationTurned, RefundTurned, DraftTaken, DraftDropped
  <1> QED
    BY <1>1, <1>5, <1>6, <1>8, ReturnKeepsLine
-----------------------------------------------------------------------------
(* The invariant holds from the start. *)
LEMMA BilledTyped ==
  ASSUME NEW S \in SUBSET Sale, NEW c
  PROVE  BilledOf(S, c) \in Nat
  <1> DEFINE T == InCurrency(S, c)
             f == [s \in T |-> Total[s]]
  <1>1. IsFiniteSet(T) /\ \A s \in T : f[s] \in Nat
    BY Numbers, FS_Subset DEF InCurrency
  <1> HIDE DEF T, f
  <1>2. SumFunctionOnSet(f, T) \in Nat
    BY <1>1, SumNat
  <1> QED
    BY <1>2 DEF BilledOf, T, f

Opening ==
  [k \in Account \X Currency |->
     CASE k[1] = Receivable -> BilledOf(CreditSale, k[2])
       [] k[1] = Cash -> BilledOf(Sale \ CreditSale, k[2])
       [] k[1] = Revenue -> -BilledOf(Sale, k[2])
       [] OTHER -> 0]

LEMMA OpeningIs == Init => gl = Opening
  BY DEF Init, Opening, Invoiced, Sum, BilledOf, InCurrency

LEMMA OpeningTyped == Opening \in [Account \X Currency -> Int]
  <1> SUFFICES ASSUME NEW k \in Account \X Currency PROVE Opening[k] \in Int
    BY DEF Opening
  <1>1. /\ BilledOf(CreditSale, k[2]) \in Int /\ BilledOf(Sale \ CreditSale, k[2]) \in Int
        /\ BilledOf(Sale, k[2]) \in Int /\ -BilledOf(Sale, k[2]) \in Int
    BY BilledTyped, Numbers
  <1> QED
    BY <1>1 DEF Opening

LEMMA DocUseInit == Init => DocInv /\ UseInv
  <1> SUFFICES ASSUME Init PROVE DocInv /\ UseInv
    OBVIOUS
  <1>1. /\ payments = [p \in Payment |-> Absent] /\ allocations = [x \in Allocation |-> Absent]
        /\ returns = [r \in Return |-> Absent] /\ refunds = [f \in Refund |-> Absent] /\ draft = None
    BY DEF Init
  <1>2. Filled(payments) = {} /\ Filled(allocations) = {} /\ Filled(returns) = {} /\ Filled(refunds) = {}
    BY <1>1 DEF Filled
  <1>3. Posted(allocations) = {} /\ Posted(returns) = {} /\ Posted(refunds) = {}
    BY <1>1 DEF Posted, Absent
  <1>4. FiniteRows
    BY <1>2, FS_EmptySet DEF FiniteRows
  <1>5. TypeOK
    <2>1. gl = Opening
      BY OpeningIs
    <2>2. gl \in [Account \X Currency -> Int]
      BY <2>1, OpeningTyped
    <2> QED
      BY <1>1, <2>2 DEF TypeOK
  <1>6. DocInv
    BY <1>1, <1>3, <1>4, <1>5, BackedInit DEF DocInv, AllocationsStand, SettlementsStand
  <1>7. \A Q : Chosen(allocations, Q) = {} /\ Chosen(returns, Q) = {} /\ Chosen(refunds, Q) = {}
    BY <1>3 DEF Chosen
  <1>8. /\ \A s : Applied(s) = 0 /\ Back(s) = 0 /\ Entitled(s) = 0
    BY <1>7, OverEmpty DEF Applied, Back, Entitled
  <1>9. WithinPayments /\ WithinReturns /\ ReturnsStand /\ DraftStands
    BY <1>1, <1>3 DEF WithinPayments, WithinReturns, ReturnsStand, DraftStands
  <1>10. WithinInvoices /\ WithinLines
    BY <1>8, Numbers DEF WithinInvoices, WithinLines
  <1> QED
    BY <1>6, <1>9, <1>10 DEF UseInv
-----------------------------------------------------------------------------
(* The ledger follows the documents. *)
LEMMA OverInt ==
  ASSUME NEW X, NEW ids, NEW T, Table(X, ids, T), IsFiniteSet(Filled(X)), NEW v \in [T -> Int]
  PROVE  \A Q : Over(X, Q, v) \in Int
  <1> SUFFICES ASSUME NEW Q PROVE Over(X, Q, v) \in Int
    OBVIOUS
  <1> DEFINE S == Chosen(X, Q)
             f == [j \in S |-> v[X[j]]]
  <1>1. IsFiniteSet(S) /\ IntOn(f, S)
    BY ChosenFinite, PostedRows DEF Chosen, IntOn
  <1> HIDE DEF S, f
  <1>2. SumFunctionOnSet(f, S) \in Int
    BY <1>1, SumInt
  <1> QED
    BY <1>2 DEF Over, S, f

LEMMA ValuesInt ==
  /\ AppliedOf \in [AllocationRow -> Int] /\ DrawnOf \in [AllocationRow -> Int] /\ CreditOf \in [AllocationRow -> Int]
  /\ RefundableOf \in [ReturnRow -> Int] /\ TakenOffOf \in [ReturnRow -> Int] /\ RefundedOf \in [RefundRow -> Int]
  /\ PaidOf \in [PaymentRow -> Int] /\ DebtOf \in [PaymentRow -> Int]
  BY ValuesTyped

\* The amounts that move the two accounts are numbers.
FlatTyped(c) ==
  /\ CreditPaid(c) \in Int /\ OpenPaid(c) \in Int /\ DebtPaid(c) \in Int
  /\ CreditGiven(c) \in Int /\ CreditUsed(c) \in Int /\ CreditBack(c) \in Int
  /\ DebtBack(c) \in Int /\ CreditOut(c) \in Int /\ Billed(c) \in Int

LEMMA FlatInt ==
  ASSUME TypeOK, FiniteRows, NEW c
  PROVE  FlatTyped(c)
  <1>1. /\ Table(payments, Payment, PaymentRow) /\ IsFiniteSet(Filled(payments))
        /\ Table(allocations, Allocation, AllocationRow) /\ IsFiniteSet(Filled(allocations))
        /\ Table(returns, Return, ReturnRow) /\ IsFiniteSet(Filled(returns))
        /\ Table(refunds, Refund, RefundRow) /\ IsFiniteSet(Filled(refunds))
    BY TablesAre DEF FiniteRows, Typed
  <1>2. \A Q : Over(payments, Q, PaidOf) \in Int /\ Over(payments, Q, DebtOf) \in Int
    BY <1>1, ValuesInt, OverInt
  <1>3. \A Q : Over(allocations, Q, CreditOf) \in Int /\ Over(allocations, Q, AppliedOf) \in Int
    BY <1>1, ValuesInt, OverInt
  <1>4. \A Q : Over(returns, Q, RefundableOf) \in Int /\ Over(returns, Q, TakenOffOf) \in Int
    BY <1>1, ValuesInt, OverInt
  <1>5. \A Q : Over(refunds, Q, RefundedOf) \in Int
    BY <1>1, ValuesInt, OverInt
  <1>6. CreditPaid(c) \in Int /\ OpenPaid(c) \in Int /\ DebtPaid(c) \in Int
    BY <1>2 DEF CreditPaid, OpenPaid, DebtPaid
  <1>7. CreditGiven(c) \in Int /\ CreditUsed(c) \in Int
    BY <1>3 DEF CreditGiven, CreditUsed
  <1>8. CreditBack(c) \in Int /\ DebtBack(c) \in Int /\ CreditOut(c) \in Int
    BY <1>4, <1>5 DEF CreditBack, DebtBack, CreditOut
  <1>9. Billed(c) \in Int
    BY BilledTyped, Numbers DEF Billed
  <1> QED
    BY <1>6, <1>7, <1>8, <1>9 DEF FlatTyped

\* What a journal does to the two accounts of one currency.
Effect(j, c, onReceivable, onCredit) ==
  j[<<Receivable, c>>] = onReceivable /\ j[<<CustomerCredit, c>>] = -onCredit

LEMMA SidesAt ==
  ASSUME NEW c \in Currency, NEW x, NEW n \in Int
  PROVE  LET m == IF c = x THEN n ELSE 0
         IN /\ Effect(Journal(Cash, Receivable, x, n), c, -m, 0)
            /\ Effect(Journal(Cash, CustomerCredit, x, n), c, 0, m)
            /\ Effect(Journal(Cash, Clearing, x, n), c, 0, 0)
            /\ Effect(Journal(Clearing, Cash, x, n), c, 0, 0)
            /\ Effect(Journal(Clearing, Receivable, x, n), c, -m, 0)
            /\ Effect(Journal(CustomerCredit, Receivable, x, n), c, -m, -m)
            /\ Effect(Journal(Receivable, CustomerCredit, x, n), c, m, m)
            /\ Effect(Journal(SalesReturns, Receivable, x, n), c, -m, 0)
            /\ Effect(Journal(SalesReturns, CustomerCredit, x, n), c, 0, m)
            /\ Effect(Journal(CustomerCredit, Cash, x, n), c, 0, -m)
            /\ Effect(Journal(CustomerCredit, Clearing, x, n), c, 0, -m)
  <1>1. \A debit, credit : debit # credit =>
          /\ Journal(debit, credit, x, n)[<<Receivable, c>>] = IF c = x THEN Side(Receivable, debit, credit, n) ELSE 0
          /\ Journal(debit, credit, x, n)[<<CustomerCredit, c>>] = IF c = x THEN Side(CustomerCredit, debit, credit, n) ELSE 0
    BY JournalAt, Accounts
  <1> USE Accounts DEF Effect, Side
  <1>2. /\ Effect(Journal(Cash, Receivable, x, n), c, -(IF c = x THEN n ELSE 0), 0)
        /\ Effect(Journal(Clearing, Receivable, x, n), c, -(IF c = x THEN n ELSE 0), 0)
        /\ Effect(Journal(SalesReturns, Receivable, x, n), c, -(IF c = x THEN n ELSE 0), 0)
    BY <1>1
  <1>3. /\ Effect(Journal(Cash, CustomerCredit, x, n), c, 0, IF c = x THEN n ELSE 0)
        /\ Effect(Journal(SalesReturns, CustomerCredit, x, n), c, 0, IF c = x THEN n ELSE 0)
    BY <1>1
  <1>4. Effect(Journal(Cash, Clearing, x, n), c, 0, 0) /\ Effect(Journal(Clearing, Cash, x, n), c, 0, 0)
    BY <1>1
  <1>5. /\ Effect(Journal(CustomerCredit, Receivable, x, n), c, -(IF c = x THEN n ELSE 0), -(IF c = x THEN n ELSE 0))
        /\ Effect(Journal(Receivable, CustomerCredit, x, n), c, IF c = x THEN n ELSE 0, IF c = x THEN n ELSE 0)
    BY <1>1
  <1>6. /\ Effect(Journal(CustomerCredit, Cash, x, n), c, 0, -(IF c = x THEN n ELSE 0))
        /\ Effect(Journal(CustomerCredit, Clearing, x, n), c, 0, -(IF c = x THEN n ELSE 0))
    BY <1>1
  <1> QED
    BY <1>2, <1>3, <1>4, <1>5, <1>6

LEMMA EffectPlus ==
  ASSUME NEW f \in [Keys -> Int], NEW g \in [Keys -> Int], NEW c \in Currency,
         NEW a \in Int, NEW b \in Int, NEW d \in Int, NEW e \in Int, Effect(f, c, a, b), Effect(g, c, d, e)
  PROVE  Effect(Plus(f, g), c, a + d, b + e)
  <1>1. <<Receivable, c>> \in Keys /\ <<CustomerCredit, c>> \in Keys
    BY Accounts DEF Keys
  <1>2. /\ Plus(f, g)[<<Receivable, c>>] = f[<<Receivable, c>>] + g[<<Receivable, c>>]
        /\ Plus(f, g)[<<CustomerCredit, c>>] = f[<<CustomerCredit, c>>] + g[<<CustomerCredit, c>>]
    BY <1>1, PlusTyped
  <1> QED
    BY <1>2 DEF Effect

\* A booked journal moves the two accounts by its effect.
LEMMA BookedAt ==
  ASSUME TypeOK, NEW j, NEW up \in BOOLEAN, Booked(up, j), NEW c \in Currency, NEW a \in Int, NEW b \in Int,
         Effect(j, c, a, b)
  PROVE  /\ gl[<<Receivable, c>>] \in Int /\ gl[<<CustomerCredit, c>>] \in Int
         /\ gl[<<Receivable, c>>]' = gl[<<Receivable, c>>] + Move(up, a)
         /\ -gl[<<CustomerCredit, c>>]' = -gl[<<CustomerCredit, c>>] + Move(up, b)
  <1>1. <<Receivable, c>> \in Keys /\ <<CustomerCredit, c>> \in Keys
    BY Accounts DEF Keys
  <1>2. /\ gl[<<Receivable, c>>] \in Int /\ gl[<<CustomerCredit, c>>] \in Int
    BY <1>1 DEF TypeOK, Keys
  <1>3. /\ gl'[<<Receivable, c>>] = gl[<<Receivable, c>>] + Move(up, a)
        /\ gl'[<<CustomerCredit, c>>] = gl[<<CustomerCredit, c>>] + Move(up, -b)
    BY <1>1 DEF Booked, Effect
  <1> QED
    BY <1>2, <1>3 DEF Move
\* The sums at c after the step, when each has moved as given.
Moved(c, up, cp, op, dp, cg, cu, cb, db, co) ==
  /\ CreditPaid(c)' = CreditPaid(c) + Move(up, cp) /\ OpenPaid(c)' = OpenPaid(c) + Move(up, op)
  /\ DebtPaid(c)' = DebtPaid(c) + Move(up, dp) /\ CreditGiven(c)' = CreditGiven(c) + Move(up, cg)
  /\ CreditUsed(c)' = CreditUsed(c) + Move(up, cu) /\ CreditBack(c)' = CreditBack(c) + Move(up, cb)
  /\ DebtBack(c)' = DebtBack(c) + Move(up, db) /\ CreditOut(c)' = CreditOut(c) + Move(up, co)

GlMoved(c, up, a, b) ==
  /\ gl[<<Receivable, c>>] \in Int /\ gl[<<CustomerCredit, c>>] \in Int
  /\ gl[<<Receivable, c>>]' = gl[<<Receivable, c>>] + Move(up, a)
  /\ -gl[<<CustomerCredit, c>>]' = -gl[<<CustomerCredit, c>>] + Move(up, b)

LEMMA TiesMove ==
  ASSUME NEW c \in Currency, FlatTyped(c), TiesAt(c), NEW up \in BOOLEAN,
         NEW cp \in Int, NEW op \in Int, NEW dp \in Int, NEW cg \in Int, NEW cu \in Int,
         NEW cb \in Int, NEW db \in Int, NEW co \in Int,
         Moved(c, up, cp, op, dp, cg, cu, cb, db, co),
         NEW a, NEW b, GlMoved(c, up, a, b), a = cg - op - dp - cu - db, b = cp - cu + cg + cb - co
  PROVE  TiesAt(c)'
  <1>1. Billed(c)' = Billed(c)
    BY DEF Billed, BilledOf, InCurrency
  <1>2. CASE up
    BY <1>1, <1>2 DEF TiesAt, FlatTyped, Move, Moved, GlMoved
  <1>3. CASE ~up
    BY <1>1, <1>3 DEF TiesAt, FlatTyped, Move, Moved, GlMoved
  <1> QED
    BY <1>2, <1>3

LEMMA PaymentLedger ==
  ASSUME DocInv, NEW p, NEW doc, NEW up, PaymentTurned(p, doc, up), NEW c \in Currency, TiesAt(c)
  PROVE  TiesAt(c)'
  <1>1. /\ Turned(payments, payments', Payment, PaymentRow, p, doc, up)
        /\ p \in Payment /\ doc \in PaymentRow /\ up \in BOOLEAN
        /\ \A q \in Payment \ {p} : payments'[q] = payments[q]
        /\ ~up => payments[p] = doc
    BY OthersStay DEF PaymentTurned
  <1>2. /\ up => payments[p] = Absent
        /\ ~up => payments'[p].purpose = doc.purpose
        /\ doc.settlement # NoSettlement => doc.purpose = "RECEIVABLE"
        /\ allocations' = allocations /\ returns' = returns /\ refunds' = refunds
        /\ Booked(up, PaymentJournal(doc))
    BY DEF PaymentTurned
  <1>3. doc.amount \in Int /\ doc.settlement.debt \in Int /\ doc.purpose \in {"RECEIVABLE", "CUSTOMER_CREDIT"}
    BY <1>1 DEF PaymentRow, NoSettlement
  <1> DEFINE cp == IF doc \in CreditPays(c) THEN PaidOf[doc] ELSE 0
             op == IF doc \in OpenPays(c) THEN PaidOf[doc] ELSE 0
             dp == IF doc \in SettlingPays(c) THEN DebtOf[doc] ELSE 0
  <1>4. PaidOf[doc] = doc.amount /\ DebtOf[doc] = doc.settlement.debt
    BY <1>1 DEF PaidOf, DebtOf
  <1>5. cp \in Int /\ op \in Int /\ dp \in Int
    BY <1>3, <1>4
  <1>6. Effect(PaymentJournal(doc), c, -op - dp, cp)
    <2>1. /\ doc \in CreditPays(c) <=> doc.purpose = "CUSTOMER_CREDIT" /\ doc.currency = c
          /\ doc \in OpenPays(c) <=> doc.purpose = "RECEIVABLE" /\ doc.settlement = NoSettlement /\ doc.currency = c
          /\ doc \in SettlingPays(c) <=> doc.settlement # NoSettlement /\ doc.settlement.currency = c
      BY <1>1 DEF CreditPays, OpenPays, SettlingPays
    <2>2. CASE doc.settlement = NoSettlement /\ doc.purpose = "RECEIVABLE"
      <3>1. PaymentJournal(doc) = Journal(Cash, Receivable, doc.currency, doc.amount)
        BY <2>2 DEF PaymentJournal, ObligationOf
      <3>2. Effect(PaymentJournal(doc), c, -(IF c = doc.currency THEN doc.amount ELSE 0), 0)
        BY <1>3, <3>1, SidesAt
      <3> QED
        BY <1>3, <1>4, <2>1, <2>2, <3>2 DEF Effect
    <2>3. CASE doc.settlement = NoSettlement /\ doc.purpose = "CUSTOMER_CREDIT"
      <3>1. PaymentJournal(doc) = Journal(Cash, CustomerCredit, doc.currency, doc.amount)
        BY <2>3 DEF PaymentJournal, ObligationOf
      <3>2. Effect(PaymentJournal(doc), c, 0, IF c = doc.currency THEN doc.amount ELSE 0)
        BY <1>3, <3>1, SidesAt
      <3>3. op = 0 /\ dp = 0 /\ cp = IF c = doc.currency THEN doc.amount ELSE 0
        BY <1>4, <2>1, <2>3
      <3> HIDE DEF cp, op, dp
      <3>4. -op - dp = 0
        BY <3>3
      <3> QED
        BY <3>2, <3>3, <3>4
    <2>4. CASE doc.settlement # NoSettlement
      <3> DEFINE f == Journal(Cash, Clearing, doc.currency, doc.amount)
                 g == Journal(Clearing, Receivable, doc.settlement.currency, doc.settlement.debt)
                 m == IF c = doc.settlement.currency THEN doc.settlement.debt ELSE 0
      <3>1. PaymentJournal(doc) = Plus(f, g)
        BY <2>4 DEF PaymentJournal, SettlementJournals
      <3>2. f \in [Keys -> Int] /\ g \in [Keys -> Int]
        BY <1>3, JournalTyped
      <3>3. Effect(f, c, 0, 0) /\ Effect(g, c, -m, 0) /\ m \in Int
        BY <1>3, SidesAt
      <3>4. -dp = 0 + (-m) /\ op = 0 /\ cp = 0 /\ -op - dp = -dp
        BY <1>2, <1>3, <1>4, <2>1, <2>4
      <3> HIDE DEF f, g, m, cp, op, dp
      <3>5. -m \in Int
        BY <3>3
      <3>6. Effect(Plus(f, g), c, 0 + (-m), 0 + 0)
        BY <3>2, <3>3, <3>5, EffectPlus
      <3> QED
        BY <3>1, <3>4, <3>6
    <2> QED
      BY <1>3, <2>2, <2>3, <2>4
  <1>7. /\ CreditPaid(c)' = CreditPaid(c) + (IF doc \in CreditPays(c) THEN Move(up, PaidOf[doc]) ELSE 0)
        /\ OpenPaid(c)' = OpenPaid(c) + (IF doc \in OpenPays(c) THEN Move(up, PaidOf[doc]) ELSE 0)
        /\ DebtPaid(c)' = DebtPaid(c) + (IF doc \in SettlingPays(c) THEN Move(up, DebtOf[doc]) ELSE 0)
    <2>1. PaidOf \in [PaymentRow -> Int] /\ DebtOf \in [PaymentRow -> Int]
      BY ValuesInt
    <2>2. /\ Over(payments', CreditPays(c), PaidOf) = Over(payments, CreditPays(c), PaidOf)
               + (IF doc \in CreditPays(c) THEN Move(up, PaidOf[doc]) ELSE 0)
          /\ Over(payments', OpenPays(c), PaidOf) = Over(payments, OpenPays(c), PaidOf)
               + (IF doc \in OpenPays(c) THEN Move(up, PaidOf[doc]) ELSE 0)
          /\ Over(payments', SettlingPays(c), DebtOf) = Over(payments, SettlingPays(c), DebtOf)
               + (IF doc \in SettlingPays(c) THEN Move(up, DebtOf[doc]) ELSE 0)
      BY <1>1, <2>1, OverTurned
    <2> QED
      BY <2>2 DEF CreditPaid, OpenPaid, DebtPaid
  <1>8. /\ CreditPaid(c)' = CreditPaid(c) + Move(up, cp) /\ OpenPaid(c)' = OpenPaid(c) + Move(up, op)
        /\ DebtPaid(c)' = DebtPaid(c) + Move(up, dp)
    BY <1>1, <1>7 DEF Move
  <1>9. /\ CreditGiven(c)' = CreditGiven(c) /\ CreditBack(c)' = CreditBack(c) /\ DebtBack(c)' = DebtBack(c)
        /\ CreditOut(c)' = CreditOut(c)
    BY <1>2 DEF CreditGiven, CreditBack, DebtBack, CreditOut, RefundsIn
  <1>10. CreditUsed(c)' = CreditUsed(c)
    <2>1. \A x \in Posted(allocations) : /\ payments[allocations[x].payment] # Absent
                                         /\ allocations[x].payment \in Payment
      <3>1. \A x \in Posted(allocations) : allocations[x] \in AllocationRow
        BY TablesAre, PostedRows DEF DocInv, Typed
      <3> QED
        BY <3>1 DEF DocInv, AllocationsStand, Stands, AllocationRow
    <2>2. \A x \in Posted(allocations) :
            payments'[allocations[x].payment].purpose = payments[allocations[x].payment].purpose
      BY <1>1, <1>2, <2>1
    <2>3. Chosen(allocations, CreditRows(c)) = Chosen(allocations', CreditRows(c)')
      BY <1>2, <2>2 DEF Chosen, CreditRows, Posted
    <2>4. Over(allocations, CreditRows(c), AppliedOf) = Over(allocations', CreditRows(c)', AppliedOf)
      BY <1>2, <2>3, OverSame
    <2> QED
      BY <2>4 DEF CreditUsed
  <1> HIDE DEF cp, op, dp
  <1>11. FlatTyped(c) /\ TypeOK
    BY FlatInt DEF DocInv
  <1>12. -op - dp \in Int
    BY <1>5
  <1>13. GlMoved(c, up, -op - dp, cp)
    BY <1>1, <1>2, <1>5, <1>6, <1>11, <1>12, BookedAt DEF GlMoved
  <1>14. PICK rr : rr = -op - dp /\ rr = 0 - op - dp - 0 - 0 /\ cp = cp - 0 + 0 + 0 - 0
    BY <1>5
  <1>15. /\ CreditGiven(c)' = CreditGiven(c) + Move(up, 0) /\ CreditBack(c)' = CreditBack(c) + Move(up, 0)
         /\ DebtBack(c)' = DebtBack(c) + Move(up, 0) /\ CreditOut(c)' = CreditOut(c) + Move(up, 0)
         /\ CreditUsed(c)' = CreditUsed(c) + Move(up, 0)
    BY <1>9, <1>10, <1>11 DEF FlatTyped, Move
  <1>16. Moved(c, up, cp, op, dp, 0, 0, 0, 0, 0)
    BY <1>8, <1>15 DEF Moved
  <1>17. GlMoved(c, up, rr, cp)
    BY <1>13, <1>14
  <1> QED
    BY <1>1, <1>5, <1>11, <1>14, <1>16, <1>17, TiesMove

LEMMA AllocationLedger ==
  ASSUME DocInv, NEW x, NEW doc, NEW up, AllocationTurned(x, doc, up), NEW c \in Currency, TiesAt(c)
  PROVE  TiesAt(c)'
  <1>1. /\ Turned(allocations, allocations', Allocation, AllocationRow, x, doc, up)
        /\ doc \in AllocationRow /\ up \in BOOLEAN
    BY OthersStay DEF AllocationTurned
  <1>2. /\ payments' = payments /\ returns' = returns /\ refunds' = refunds
        /\ Stands(doc, payments[doc.payment]) /\ Booked(up, ReclassOf(doc))
    BY DEF AllocationTurned
  <1>3. doc.amount \in Int /\ doc.credit \in Int /\ doc.payment \in Payment
    BY <1>1 DEF AllocationRow
  <1> DEFINE cg == IF doc \in InvoiceRows(c) THEN CreditOf[doc] ELSE 0
             cu == IF doc \in CreditRows(c) THEN AppliedOf[doc] ELSE 0
  <1>4. CreditOf[doc] = doc.credit /\ AppliedOf[doc] = doc.amount
    BY <1>1 DEF CreditOf, AppliedOf
  <1>5. cg \in Int /\ cu \in Int
    BY <1>3, <1>4
  <1>6. Effect(ReclassOf(doc), c, cg - cu, cg - cu)
    <2>1. PICK pay : pay = payments[doc.payment]
      OBVIOUS
    <2>2. /\ doc \in InvoiceRows(c) <=> SaleCurrency[doc.sale] = c
          /\ doc \in CreditRows(c) <=> SaleCurrency[doc.sale] = c /\ pay.purpose = "CUSTOMER_CREDIT"
      BY <1>1, <2>1 DEF InvoiceRows, CreditRows
    <2>3. /\ doc.settled \/ pay.currency = SaleCurrency[doc.sale]
          /\ doc.settled => doc.credit = 0
          /\ doc.settled => pay.purpose = "RECEIVABLE"
          /\ pay.purpose = "CUSTOMER_CREDIT" => doc.credit = 0
      BY <1>2, <1>3, <2>1 DEF Stands, DocInv, SettlementsStand
    <2>4. CASE pay.purpose = "CUSTOMER_CREDIT"
      <3>1. ReclassOf(doc) = Journal(CustomerCredit, Receivable, pay.currency, doc.amount)
        BY <2>1, <2>4 DEF ReclassOf
      <3>2. Effect(ReclassOf(doc), c, -(IF c = pay.currency THEN doc.amount ELSE 0),
                   -(IF c = pay.currency THEN doc.amount ELSE 0))
        BY <1>3, <3>1, SidesAt
      <3>3. cg - cu = -(IF c = pay.currency THEN doc.amount ELSE 0)
        BY <1>3, <1>4, <2>2, <2>3, <2>4
      <3> HIDE DEF cg, cu
      <3> QED
        BY <3>2, <3>3
    <2>5. CASE pay.purpose # "CUSTOMER_CREDIT"
      <3>1. ReclassOf(doc) = Journal(Receivable, CustomerCredit, pay.currency, doc.credit)
        BY <2>1, <2>5 DEF ReclassOf
      <3>2. Effect(ReclassOf(doc), c, IF c = pay.currency THEN doc.credit ELSE 0,
                   IF c = pay.currency THEN doc.credit ELSE 0)
        BY <1>3, <3>1, SidesAt
      <3>3. cg - cu = IF c = pay.currency THEN doc.credit ELSE 0
        BY <1>3, <1>4, <2>2, <2>3, <2>5
      <3> HIDE DEF cg, cu
      <3> QED
        BY <3>2, <3>3
    <2> QED
      BY <2>4, <2>5
  <1>7. CreditRows(c)' = CreditRows(c)
    BY <1>2 DEF CreditRows
  <1>8. /\ CreditGiven(c)' = CreditGiven(c) + (IF doc \in InvoiceRows(c) THEN Move(up, CreditOf[doc]) ELSE 0)
        /\ CreditUsed(c)' = CreditUsed(c) + (IF doc \in CreditRows(c) THEN Move(up, AppliedOf[doc]) ELSE 0)
    <2>1. CreditOf \in [AllocationRow -> Int] /\ AppliedOf \in [AllocationRow -> Int]
      BY ValuesInt
    <2>2. /\ Over(allocations', InvoiceRows(c), CreditOf) = Over(allocations, InvoiceRows(c), CreditOf)
               + (IF doc \in InvoiceRows(c) THEN Move(up, CreditOf[doc]) ELSE 0)
          /\ Over(allocations', CreditRows(c), AppliedOf) = Over(allocations, CreditRows(c), AppliedOf)
               + (IF doc \in CreditRows(c) THEN Move(up, AppliedOf[doc]) ELSE 0)
      BY <1>1, <2>1, OverTurned
    <2> QED
      BY <1>7, <2>2 DEF CreditGiven, CreditUsed
  <1>9. CreditGiven(c)' = CreditGiven(c) + Move(up, cg) /\ CreditUsed(c)' = CreditUsed(c) + Move(up, cu)
    BY <1>1, <1>8 DEF Move
  <1> HIDE DEF cg, cu
  <1>10. FlatTyped(c) /\ TypeOK
    BY FlatInt DEF DocInv
  <1>11. /\ CreditPaid(c)' = CreditPaid(c) /\ OpenPaid(c)' = OpenPaid(c) /\ DebtPaid(c)' = DebtPaid(c)
         /\ CreditBack(c)' = CreditBack(c) /\ DebtBack(c)' = DebtBack(c) /\ CreditOut(c)' = CreditOut(c)
    BY <1>2 DEF CreditPaid, OpenPaid, DebtPaid, CreditBack, DebtBack, CreditOut, RefundsIn
  <1>12. /\ CreditPaid(c)' = CreditPaid(c) + Move(up, 0) /\ OpenPaid(c)' = OpenPaid(c) + Move(up, 0)
         /\ DebtPaid(c)' = DebtPaid(c) + Move(up, 0) /\ CreditBack(c)' = CreditBack(c) + Move(up, 0)
         /\ DebtBack(c)' = DebtBack(c) + Move(up, 0) /\ CreditOut(c)' = CreditOut(c) + Move(up, 0)
    BY <1>10, <1>11 DEF FlatTyped, Move
  <1>13. cg - cu \in Int /\ cg - cu = cg - 0 - 0 - cu - 0 /\ cg - cu = 0 - cu + cg + 0 - 0
    BY <1>5
  <1>14. GlMoved(c, up, cg - cu, cg - cu)
    BY <1>1, <1>2, <1>6, <1>10, <1>13, BookedAt DEF GlMoved
  <1>15. Moved(c, up, 0, 0, 0, cg, cu, 0, 0, 0)
    BY <1>9, <1>12 DEF Moved
  <1> QED
    BY <1>1, <1>5, <1>10, <1>13, <1>14, <1>15, TiesMove

LEMMA ReturnLedger ==
  ASSUME DocInv, NEW r, NEW doc, NEW up, ReturnTurned(r, doc, up), NEW c \in Currency, TiesAt(c)
  PROVE  TiesAt(c)'
  <1>1. /\ Turned(returns, returns', Return, ReturnRow, r, doc, up)
        /\ doc \in ReturnRow /\ up \in BOOLEAN
        /\ \A q \in Return \ {r} : returns'[q] = returns[q]
    BY OthersStay DEF ReturnTurned
  <1>2. /\ payments' = payments /\ allocations' = allocations /\ refunds' = refunds
        /\ RefundsOf(r) = {} /\ Booked(up, ReturnJournal(doc))
    BY DEF ReturnTurned
  <1> DEFINE cb == IF doc \in ReturnsIn(c) THEN RefundableOf[doc] ELSE 0
             db == IF doc \in ReturnsIn(c) THEN TakenOffOf[doc] ELSE 0
             x == SaleCurrency[doc.sale]
             n == doc.entitlement - doc.refundable
             m == doc.refundable
  <1>3. n \in Int /\ m \in Int
    BY <1>1 DEF ReturnRow
  <1>4. /\ db = IF c = x THEN n ELSE 0
        /\ cb = IF c = x THEN m ELSE 0
    BY <1>1 DEF ReturnsIn, RefundableOf, TakenOffOf
  <1>5. cb \in Int /\ db \in Int
    BY <1>3, <1>4
  <1>6. Effect(ReturnJournal(doc), c, -db, cb)
    <2>1. ReturnJournal(doc) = Plus(Journal(SalesReturns, Receivable, x, n), Journal(SalesReturns, CustomerCredit, x, m))
      BY DEF ReturnJournal
    <2> HIDE DEF n, m, x
    <2>2. /\ Journal(SalesReturns, Receivable, x, n) \in [Keys -> Int]
          /\ Journal(SalesReturns, CustomerCredit, x, m) \in [Keys -> Int]
      BY <1>3, JournalTyped
    <2>3. /\ Effect(Journal(SalesReturns, Receivable, x, n), c, -db, 0)
          /\ Effect(Journal(SalesReturns, CustomerCredit, x, m), c, 0, cb)
      BY <1>3, <1>4, SidesAt
    <2> HIDE DEF db, cb
    <2>4. -db \in Int /\ -db + 0 = -db /\ 0 + cb = cb
      BY <1>5
    <2>5. Effect(ReturnJournal(doc), c, -db + 0, 0 + cb)
      BY <1>5, <2>1, <2>2, <2>3, <2>4, EffectPlus
    <2> QED
      BY <2>4, <2>5
  <1>7. /\ CreditBack(c)' = CreditBack(c) + (IF doc \in ReturnsIn(c) THEN Move(up, RefundableOf[doc]) ELSE 0)
        /\ DebtBack(c)' = DebtBack(c) + (IF doc \in ReturnsIn(c) THEN Move(up, TakenOffOf[doc]) ELSE 0)
    <2>1. RefundableOf \in [ReturnRow -> Int] /\ TakenOffOf \in [ReturnRow -> Int]
      BY ValuesInt
    <2>2. /\ Over(returns', ReturnsIn(c), RefundableOf) = Over(returns, ReturnsIn(c), RefundableOf)
               + (IF doc \in ReturnsIn(c) THEN Move(up, RefundableOf[doc]) ELSE 0)
          /\ Over(returns', ReturnsIn(c), TakenOffOf) = Over(returns, ReturnsIn(c), TakenOffOf)
               + (IF doc \in ReturnsIn(c) THEN Move(up, TakenOffOf[doc]) ELSE 0)
      BY <1>1, <2>1, OverTurned
    <2> QED
      BY <2>2 DEF CreditBack, DebtBack
  <1>8. CreditBack(c)' = CreditBack(c) + Move(up, cb) /\ DebtBack(c)' = DebtBack(c) + Move(up, db)
    BY <1>1, <1>7 DEF Move
  <1> HIDE DEF cb, db
  <1>9. FlatTyped(c) /\ TypeOK
    BY FlatInt DEF DocInv
  <1>10. CreditOut(c)' = CreditOut(c)
    <2>1. \A f \in Posted(refunds) : refunds[f].return \in Return /\ refunds[f].return # r
      BY <1>2 DEF DocInv, BackedInv, RefundsOf
    <2>2. \A f \in Posted(refunds) : returns'[refunds[f].return] = returns[refunds[f].return]
      BY <1>1, <2>1
    <2>3. Chosen(refunds, RefundsIn(c)) = Chosen(refunds', RefundsIn(c)')
      BY <1>2, <2>2 DEF Chosen, RefundsIn
    <2>4. Over(refunds, RefundsIn(c), RefundedOf) = Over(refunds', RefundsIn(c)', RefundedOf)
      BY <1>2, <2>3, OverSame
    <2> QED
      BY <2>4 DEF CreditOut
  <1>11. /\ CreditPaid(c)' = CreditPaid(c) /\ OpenPaid(c)' = OpenPaid(c) /\ DebtPaid(c)' = DebtPaid(c)
         /\ CreditGiven(c)' = CreditGiven(c) /\ CreditUsed(c)' = CreditUsed(c)
    BY <1>2 DEF CreditPaid, OpenPaid, DebtPaid, CreditGiven, CreditUsed, CreditRows
  <1>12. /\ CreditPaid(c)' = CreditPaid(c) + Move(up, 0) /\ OpenPaid(c)' = OpenPaid(c) + Move(up, 0)
         /\ DebtPaid(c)' = DebtPaid(c) + Move(up, 0) /\ CreditGiven(c)' = CreditGiven(c) + Move(up, 0)
         /\ CreditUsed(c)' = CreditUsed(c) + Move(up, 0) /\ CreditOut(c)' = CreditOut(c) + Move(up, 0)
    BY <1>9, <1>10, <1>11 DEF FlatTyped, Move
  <1>13. -db \in Int /\ -db = 0 - 0 - 0 - 0 - db /\ cb = 0 - 0 + 0 + cb - 0
    BY <1>5
  <1>14. GlMoved(c, up, -db, cb)
    BY <1>1, <1>2, <1>5, <1>6, <1>9, <1>13, BookedAt DEF GlMoved
  <1>15. Moved(c, up, 0, 0, 0, 0, 0, cb, db, 0)
    BY <1>8, <1>12 DEF Moved
  <1> QED
    BY <1>1, <1>5, <1>9, <1>13, <1>14, <1>15, TiesMove

LEMMA RefundLedger ==
  ASSUME DocInv, NEW f, NEW doc, NEW up, RefundTurned(f, doc, up), NEW c \in Currency, TiesAt(c)
  PROVE  TiesAt(c)'
  <1> DEFINE x == SaleCurrency[returns[doc.return].sale]
  <1>1. /\ Turned(refunds, refunds', Refund, RefundRow, f, doc, up)
        /\ doc \in RefundRow /\ up \in BOOLEAN
    BY OthersStay DEF RefundTurned
  <1>2. /\ payments' = payments /\ allocations' = allocations /\ returns' = returns
        /\ Booked(up, RefundJournals(x, doc.amount, doc.currency, doc.paid))
    BY DEF RefundTurned
  <1> DEFINE co == IF doc \in RefundsIn(c) THEN RefundedOf[doc] ELSE 0
  <1>3. doc.amount \in Int /\ doc.paid \in Int
    BY <1>1 DEF RefundRow
  <1>4. co = IF c = x THEN doc.amount ELSE 0
    BY <1>1 DEF RefundsIn, RefundedOf
  <1>5. co \in Int /\ -co \in Int
    BY <1>3, <1>4
  <1>6. Effect(RefundJournals(x, doc.amount, doc.currency, doc.paid), c, 0, -co)
    <2> HIDE DEF x
    <2>1. CASE x = doc.currency
      <3>1. RefundJournals(x, doc.amount, doc.currency, doc.paid) = Journal(CustomerCredit, Cash, x, doc.amount)
        BY <2>1 DEF RefundJournals
      <3>2. Effect(Journal(CustomerCredit, Cash, x, doc.amount), c, 0, -co)
        BY <1>3, <1>4, SidesAt
      <3> QED
        BY <3>1, <3>2
    <2>2. CASE x # doc.currency
      <3> DEFINE g == Journal(CustomerCredit, Clearing, x, doc.amount)
                 h == Journal(Clearing, Cash, doc.currency, doc.paid)
      <3>1. RefundJournals(x, doc.amount, doc.currency, doc.paid) = Plus(g, h)
        BY <2>2 DEF RefundJournals
      <3>2. g \in [Keys -> Int] /\ h \in [Keys -> Int]
        BY <1>3, JournalTyped
      <3>3. Effect(g, c, 0, -co) /\ Effect(h, c, 0, 0)
        BY <1>3, <1>4, SidesAt
      <3> HIDE DEF g, h, co
      <3>4. Effect(Plus(g, h), c, 0 + 0, -co + 0)
        BY <1>5, <3>2, <3>3, EffectPlus
      <3>5. -co + 0 = -co
        BY <1>5
      <3> QED
        BY <3>1, <3>4, <3>5
    <2> QED
      BY <2>1, <2>2
  <1>7. CreditOut(c)' = CreditOut(c) + (IF doc \in RefundsIn(c) THEN Move(up, RefundedOf[doc]) ELSE 0)
    <2>1. RefundedOf \in [RefundRow -> Int]
      BY ValuesInt
    <2>2. Over(refunds', RefundsIn(c), RefundedOf) = Over(refunds, RefundsIn(c), RefundedOf)
               + (IF doc \in RefundsIn(c) THEN Move(up, RefundedOf[doc]) ELSE 0)
      BY <1>1, <2>1, OverTurned
    <2>3. RefundsIn(c)' = RefundsIn(c)
      BY <1>2 DEF RefundsIn
    <2> QED
      BY <2>2, <2>3 DEF CreditOut
  <1>8. CreditOut(c)' = CreditOut(c) + Move(up, co)
    BY <1>1, <1>7 DEF Move
  <1> HIDE DEF co, x
  <1>9. FlatTyped(c) /\ TypeOK
    BY FlatInt DEF DocInv
  <1>10. /\ CreditPaid(c)' = CreditPaid(c) /\ OpenPaid(c)' = OpenPaid(c) /\ DebtPaid(c)' = DebtPaid(c)
         /\ CreditGiven(c)' = CreditGiven(c) /\ CreditUsed(c)' = CreditUsed(c)
         /\ CreditBack(c)' = CreditBack(c) /\ DebtBack(c)' = DebtBack(c)
    BY <1>2 DEF CreditPaid, OpenPaid, DebtPaid, CreditGiven, CreditUsed, CreditRows, CreditBack, DebtBack
  <1>11. /\ CreditPaid(c)' = CreditPaid(c) + Move(up, 0) /\ OpenPaid(c)' = OpenPaid(c) + Move(up, 0)
         /\ DebtPaid(c)' = DebtPaid(c) + Move(up, 0) /\ CreditGiven(c)' = CreditGiven(c) + Move(up, 0)
         /\ CreditUsed(c)' = CreditUsed(c) + Move(up, 0) /\ CreditBack(c)' = CreditBack(c) + Move(up, 0)
         /\ DebtBack(c)' = DebtBack(c) + Move(up, 0)
    BY <1>9, <1>10 DEF FlatTyped, Move
  <1>12. 0 = 0 - 0 - 0 - 0 - 0 /\ -co = 0 - 0 + 0 + 0 - co
    BY <1>5
  <1>13. GlMoved(c, up, 0, -co)
    <2>1. PICK j : j = RefundJournals(x, doc.amount, doc.currency, doc.paid)
      OBVIOUS
    <2>2. Booked(up, j) /\ Effect(j, c, 0, -co)
      BY <1>2, <1>6, <2>1
    <2> QED
      BY <1>1, <1>5, <1>9, <2>2, BookedAt DEF GlMoved
  <1>14. Moved(c, up, 0, 0, 0, 0, 0, 0, 0, co)
    BY <1>8, <1>11 DEF Moved
  <1> QED
    BY <1>1, <1>5, <1>9, <1>12, <1>13, <1>14, TiesMove

LEMMA LedgerAgain ==
  ASSUME DocInv, UseInv, LedgerInv, [Next]_vars
  PROVE  LedgerInv'
  <1> SUFFICES ASSUME NEW c \in Currency PROVE TiesAt(c)'
    BY DEF LedgerInv
  <1>1. TiesAt(c)
    BY DEF LedgerInv
  <1>2. CASE (\E d : DraftTaken(d)) \/ DraftDropped
    <2>1. gl' = gl /\ payments' = payments /\ allocations' = allocations /\ returns' = returns /\ refunds' = refunds
      BY <1>2 DEF DraftTaken, DraftDropped
    <2>2. /\ CreditPaid(c)' = CreditPaid(c) /\ OpenPaid(c)' = OpenPaid(c) /\ DebtPaid(c)' = DebtPaid(c)
          /\ CreditGiven(c)' = CreditGiven(c) /\ CreditUsed(c)' = CreditUsed(c)
          /\ CreditBack(c)' = CreditBack(c) /\ DebtBack(c)' = DebtBack(c) /\ CreditOut(c)' = CreditOut(c)
          /\ Billed(c)' = Billed(c)
      BY <2>1 DEF CreditPaid, OpenPaid, DebtPaid, CreditGiven, CreditUsed, CreditRows, CreditBack, DebtBack,
                  CreditOut, RefundsIn, Billed, BilledOf, InCurrency
    <2> QED
      BY <1>1, <2>1, <2>2 DEF TiesAt
  <1> QED
    BY <1>1, <1>2, StepIs, PaymentLedger, AllocationLedger, ReturnLedger, RefundLedger

LEMMA LedgerInit == Init => LedgerInv
  <1> SUFFICES ASSUME Init, NEW c \in Currency PROVE TiesAt(c)
    BY DEF LedgerInv
  <1>1. gl[<<Receivable, c>>] = Billed(c) /\ gl[<<CustomerCredit, c>>] = 0
    <2>1. gl = Opening
      BY OpeningIs
    <2>2. Opening[<<Receivable, c>>] = BilledOf(CreditSale, c) /\ Opening[<<CustomerCredit, c>>] = 0
      BY DEF Opening, Account, Cash, Receivable, Clearing, CustomerCredit, Revenue, SalesReturns
    <2> QED
      BY <2>1, <2>2 DEF Billed
  <1>2. Posted(payments) = {} /\ Posted(allocations) = {} /\ Posted(returns) = {} /\ Posted(refunds) = {}
    BY DEF Init, Posted, Absent
  <1>3. \A Q : /\ Chosen(payments, Q) = {} /\ Chosen(allocations, Q) = {} /\ Chosen(returns, Q) = {}
               /\ Chosen(refunds, Q) = {}
    BY <1>2 DEF Chosen
  <1>4. /\ CreditPaid(c) = 0 /\ OpenPaid(c) = 0 /\ DebtPaid(c) = 0 /\ CreditGiven(c) = 0 /\ CreditUsed(c) = 0
        /\ CreditBack(c) = 0 /\ DebtBack(c) = 0 /\ CreditOut(c) = 0
    BY <1>3, OverEmpty DEF CreditPaid, OpenPaid, DebtPaid, CreditGiven, CreditUsed, CreditBack, DebtBack, CreditOut
  <1>5. Billed(c) \in Int
    BY BilledTyped, Numbers DEF Billed
  <1>6. -gl[<<CustomerCredit, c>>] = 0
    <2>1. PICK z \in Int : z = gl[<<CustomerCredit, c>>] /\ z <= 0 /\ z >= 0
      BY <1>1
    <2>2. -z = 0
      BY ONLY z \in Int, <2>1
    <2> QED
      BY ONLY <2>1, <2>2
  <1>7. 0 - 0 + 0 + 0 - 0 = 0
    OBVIOUS
  <1>8. Billed(c) - 0 - 0 + 0 - 0 - 0 = Billed(c)
    BY <1>5
  <1> QED
    BY <1>1, <1>4, <1>6, <1>7, <1>8 DEF TiesAt
-----------------------------------------------------------------------------
(* The sums the ties name, from the sums the ledger follows. *)
LEMMA OverSplit ==
  ASSUME NEW X, NEW ids, NEW T, Table(X, ids, T), IsFiniteSet(Filled(X)), NEW v \in [T -> Int],
         NEW Q, NEW P, NEW R, Chosen(X, Q) = Chosen(X, P) \cup Chosen(X, R),
         Chosen(X, P) \cap Chosen(X, R) = {}
  PROVE  Over(X, Q, v) = Over(X, P, v) + Over(X, R, v)
  <1> DEFINE A == Chosen(X, P)
             B == Chosen(X, R)
             f == [j \in A |-> v[X[j]]]
             g == [j \in B |-> v[X[j]]]
             h == [j \in A \cup B |-> v[X[j]]]
  <1>1. IsFiniteSet(A) /\ IsFiniteSet(B) /\ A \cap B = {}
    BY ChosenFinite
  <1>2. \A j \in A \cup B : v[X[j]] \in Int
    BY PostedRows DEF Chosen
  <1>3. IntOn(h, A) /\ IntOn(h, B) /\ (\A j \in A : f[j] = h[j]) /\ (\A j \in B : g[j] = h[j])
    BY <1>2 DEF IntOn
  <1>4. /\ Over(X, Q, v) = SumFunctionOnSet(h, A \cup B)
        /\ Over(X, P, v) = SumFunctionOnSet(f, A) /\ Over(X, R, v) = SumFunctionOnSet(g, B)
    BY DEF Over
  <1> HIDE DEF A, B, f, g, h
  <1>5. SumFunctionOnSet(h, A \cup B) = SumFunctionOnSet(h, A) + SumFunctionOnSet(h, B)
    BY <1>1, <1>3, SumUnion
  <1>6. SumFunctionOnSet(f, A) = SumFunctionOnSet(h, A) /\ SumFunctionOnSet(g, B) = SumFunctionOnSet(h, B)
    BY <1>1, <1>3, SumAgree
  <1> QED
    BY <1>4, <1>5, <1>6

LEMMA OverPlus ==
  ASSUME NEW X, NEW ids, NEW T, Table(X, ids, T), IsFiniteSet(Filled(X)),
         NEW u \in [T -> Int], NEW v \in [T -> Int], NEW w, NEW Q, \A row \in T : w[row] = u[row] + v[row]
  PROVE  Over(X, Q, w) = Over(X, Q, u) + Over(X, Q, v)
  <1> DEFINE A == Chosen(X, Q)
             f == [j \in A |-> u[X[j]]]
             g == [j \in A |-> v[X[j]]]
             h == [j \in A |-> w[X[j]]]
  <1>0. \A j \in Posted(X) : X[j] \in T
    BY PostedRows
  <1>1. IsFiniteSet(A) /\ \A j \in A : X[j] \in T
    BY <1>0, ChosenFinite DEF Chosen
  <1>2. IntOn(f, A) /\ IntOn(g, A) /\ \A j \in A : h[j] = f[j] + g[j]
    BY <1>1 DEF IntOn
  <1>3. /\ Over(X, Q, w) = SumFunctionOnSet(h, A)
        /\ Over(X, Q, u) = SumFunctionOnSet(f, A) /\ Over(X, Q, v) = SumFunctionOnSet(g, A)
    BY DEF Over
  <1> HIDE DEF A, f, g, h
  <1> QED
    BY <1>1, <1>2, <1>3, SumPlus

\* The same rows, valued alike.
LEMMA OverAgree ==
  ASSUME NEW X, NEW P, NEW Q, NEW u, NEW v, Chosen(X, P) = Chosen(X, Q),
         \A j \in Chosen(X, P) : u[X[j]] = v[X[j]]
  PROVE  Over(X, P, u) = Over(X, Q, v)
  BY DEF Over

\* The rows in Q fall under the members of W by key; at[w] sums those of w.
Keyed(X, Q, v, W, key, rows, at) ==
  /\ IsFiniteSet(W)
  /\ \A j \in Chosen(X, Q) : key[X[j]] \in W
  /\ \A w \in W : Chosen(X, rows[w]) = {j \in Chosen(X, Q) : key[X[j]] = w}
  /\ \A w \in W : at[w] = Over(X, rows[w], v)

LEMMA OverByKey ==
  ASSUME NEW X, NEW ids, NEW T, Table(X, ids, T), IsFiniteSet(Filled(X)), NEW v \in [T -> Int],
         NEW Q, NEW W, NEW key, NEW rows, NEW at, Keyed(X, Q, v, W, key, rows, at)
  PROVE  Over(X, Q, v) = SumFunctionOnSet(at, W)
  <1> DEFINE S == Chosen(X, Q)
             f == [j \in S |-> v[X[j]]]
             k == [j \in S |-> key[X[j]]]
  <1>1. IsFiniteSet(S) /\ IntOn(f, S)
    BY ChosenFinite, PostedRows DEF Chosen, IntOn
  <1>2. IsFiniteSet(W) /\ \A j \in S : k[j] \in W
    BY DEF Keyed
  <1>3. ASSUME NEW w \in W PROVE at[w] = SumFunctionOnSet(f, {j \in S : k[j] = w})
    <2> DEFINE A == {j \in S : k[j] = w}
               g == [j \in A |-> v[X[j]]]
    <2>1. Chosen(X, rows[w]) = A /\ at[w] = Over(X, rows[w], v)
      BY DEF Keyed
    <2>2. at[w] = SumFunctionOnSet(g, A)
      BY <2>1 DEF Over
    <2>3. IsFiniteSet(A) /\ \A j \in A : g[j] = f[j]
      BY <1>1, FS_Subset
    <2> HIDE DEF A, g
    <2>4. SumFunctionOnSet(g, A) = SumFunctionOnSet(f, A)
      BY <2>3, SumAgree
    <2> QED
      BY <2>2, <2>4 DEF A
  <1>4. Over(X, Q, v) = SumFunctionOnSet(f, S)
    BY DEF Over
  <1> HIDE DEF S, f, k
  <1>5. \A w \in W : at[w] = SumFunctionOnSet(f, {j \in S : k[j] = w})
    BY <1>3
  <1>6. SumFunctionOnSet(f, S) = SumFunctionOnSet(at, W)
    <2>1. ByKey(f, S, k, W, at)
      BY <1>1, <1>2, <1>5 DEF ByKey
    <2> QED
      BY <2>1, SumByKey
  <1> QED
    BY <1>4, <1>6

\* What is left of the rows chosen, when at[j] of each is used.
LEMMA LeftOver ==
  ASSUME NEW X, NEW ids, NEW T, Table(X, ids, T), IsFiniteSet(Filled(X)), NEW v \in [T -> Int], NEW Q,
         NEW at, NEW left,
         \A j \in Chosen(X, Q) : at[j] \in Int /\ left[j] = v[X[j]] - at[j]
  PROVE  /\ SumFunctionOnSet(at, Chosen(X, Q)) \in Int
         /\ SumFunctionOnSet(left, Chosen(X, Q)) = Over(X, Q, v) - SumFunctionOnSet(at, Chosen(X, Q))
  <1> DEFINE A == Chosen(X, Q)
             f == [j \in A |-> v[X[j]]]
  <1>0. \A j \in Posted(X) : X[j] \in T
    BY PostedRows
  <1>1. IsFiniteSet(A) /\ \A j \in A : v[X[j]] \in Int
    BY <1>0, ChosenFinite DEF Chosen
  <1>2. IntOn(left, A) /\ IntOn(at, A) /\ \A j \in A : f[j] = left[j] + at[j]
    BY <1>1 DEF IntOn
  <1>3. Over(X, Q, v) = SumFunctionOnSet(f, A)
    BY DEF Over
  <1> HIDE DEF A, f
  <1>4. /\ SumFunctionOnSet(f, A) = SumFunctionOnSet(left, A) + SumFunctionOnSet(at, A)
        /\ SumFunctionOnSet(left, A) \in Int /\ SumFunctionOnSet(at, A) \in Int
    BY <1>1, <1>2, SumPlus, SumInt
  <1> QED
    BY <1>3, <1>4 DEF A
-----------------------------------------------------------------------------
(* The credit account. *)
OverdrawnRows(c) ==
  {row \in AllocationRow : /\ payments[row.payment].purpose = "CUSTOMER_CREDIT"
                           /\ payments[row.payment].status = "REVERSED"
                           /\ payments[row.payment].currency = c}
\* The allocations of the payments chosen.
Using(Q) == {row \in AllocationRow : row.payment \in Chosen(payments, Q)}

LEMMA Tables ==
  ASSUME DocInv
  PROVE  /\ Table(payments, Payment, PaymentRow) /\ IsFiniteSet(Filled(payments))
         /\ Table(allocations, Allocation, AllocationRow) /\ IsFiniteSet(Filled(allocations))
         /\ Table(returns, Return, ReturnRow) /\ IsFiniteSet(Filled(returns))
         /\ Table(refunds, Refund, RefundRow) /\ IsFiniteSet(Filled(refunds))
  BY TablesAre DEF DocInv, FiniteRows, Typed

\* What stands about a posted allocation and its payment.
LEMMA PostedAllocation ==
  ASSUME DocInv, NEW x \in Posted(allocations)
  PROVE  /\ allocations[x] \in AllocationRow /\ allocations[x].payment \in Payment
         /\ payments[allocations[x].payment] \in PaymentRow
         /\ Stands(allocations[x], payments[allocations[x].payment])
         /\ payments[allocations[x].payment].settlement # NoSettlement =>
              payments[allocations[x].payment].purpose = "RECEIVABLE"
  <1>1. allocations[x] \in AllocationRow
    BY Tables, PostedRows
  <1>2. allocations[x].payment \in Payment
    BY <1>1 DEF AllocationRow
  <1>3. Stands(allocations[x], payments[allocations[x].payment])
    BY DEF DocInv, AllocationsStand
  <1>4. payments[allocations[x].payment] # Absent
    BY <1>3 DEF Stands
  <1>5. payments[allocations[x].payment] \in PaymentRow
    BY <1>2, <1>4, Tables DEF Table
  <1> QED
    BY <1>1, <1>2, <1>3, <1>4, <1>5 DEF DocInv, SettlementsStand

LEMMA GivenIs ==
  ASSUME DocInv, NEW c
  PROVE  Sum({x \in Posted(allocations) : SaleCurrency[allocations[x].sale] = c},
             LAMBDA x : allocations[x].credit) = CreditGiven(c)
  <1> DEFINE S == {x \in Posted(allocations) : SaleCurrency[allocations[x].sale] = c}
  <1>1. S = Chosen(allocations, InvoiceRows(c))
    BY PostedAllocation DEF Chosen, InvoiceRows
  <1>2. [x \in S |-> allocations[x].credit] = [x \in Chosen(allocations, InvoiceRows(c)) |-> CreditOf[allocations[x]]]
    BY <1>1, PostedAllocation DEF CreditOf
  <1> HIDE DEF S
  <1>3. CreditGiven(c) = SumFunctionOnSet([x \in S |-> allocations[x].credit], S)
    BY <1>1, <1>2 DEF CreditGiven, Over
  <1> QED
    BY <1>3 DEF S, Sum

LEMMA OverdrawnIs ==
  ASSUME DocInv, NEW c
  PROVE  Overdrawn(c) = Over(allocations, OverdrawnRows(c), AppliedOf)
  <1> DEFINE S == {x \in Posted(allocations) :
                     LET p == payments[allocations[x].payment]
                     IN p.purpose = "CUSTOMER_CREDIT" /\ p.status = "REVERSED" /\ p.currency = c}
  <1>1. S = Chosen(allocations, OverdrawnRows(c))
    BY PostedAllocation DEF Chosen, OverdrawnRows
  <1>2. [x \in S |-> allocations[x].amount] = [x \in Chosen(allocations, OverdrawnRows(c)) |-> AppliedOf[allocations[x]]]
    BY <1>1, PostedAllocation DEF AppliedOf
  <1> HIDE DEF S
  <1>3. Over(allocations, OverdrawnRows(c), AppliedOf) = SumFunctionOnSet([x \in S |-> allocations[x].amount], S)
    BY <1>1, <1>2 DEF Over
  <1> QED
    BY <1>3 DEF S, Sum, Overdrawn

\* The credit a customer has used came from posted payments or was overdrawn.
LEMMA UsedIs ==
  ASSUME DocInv, NEW c
  PROVE  CreditUsed(c) = Over(allocations, Using(CreditPays(c)), DrawnOf) + Overdrawn(c)
  <1>1. \A x \in Posted(allocations) :
          /\ allocations[x] \in CreditRows(c) <=> allocations[x] \in Using(CreditPays(c)) \/ allocations[x] \in OverdrawnRows(c)
          /\ ~(allocations[x] \in Using(CreditPays(c)) /\ allocations[x] \in OverdrawnRows(c))
          /\ allocations[x] \in Using(CreditPays(c)) => AppliedOf[allocations[x]] = DrawnOf[allocations[x]]
    <2> SUFFICES ASSUME NEW x \in Posted(allocations)
                 PROVE  /\ allocations[x] \in CreditRows(c) <=> allocations[x] \in Using(CreditPays(c)) \/ allocations[x] \in OverdrawnRows(c)
                        /\ ~(allocations[x] \in Using(CreditPays(c)) /\ allocations[x] \in OverdrawnRows(c))
                        /\ allocations[x] \in Using(CreditPays(c)) => AppliedOf[allocations[x]] = DrawnOf[allocations[x]]
      OBVIOUS
    <2>1. PICK row \in AllocationRow : row = allocations[x]
      BY PostedAllocation
    <2>2. PICK pay \in PaymentRow : pay = payments[row.payment]
      BY <2>1, PostedAllocation
    <2>3. /\ Stands(row, pay) /\ (pay.settlement # NoSettlement => pay.purpose = "RECEIVABLE")
          /\ row.payment \in Payment /\ DOMAIN payments = Payment
      BY <2>1, <2>2, PostedAllocation, Tables DEF Table
    <2>4. /\ row \in CreditRows(c) <=> SaleCurrency[row.sale] = c /\ pay.purpose = "CUSTOMER_CREDIT"
          /\ row \in Using(CreditPays(c)) <=> pay.status = "POSTED" /\ pay.purpose = "CUSTOMER_CREDIT" /\ pay.currency = c
          /\ row \in OverdrawnRows(c) <=> pay.status = "REVERSED" /\ pay.purpose = "CUSTOMER_CREDIT" /\ pay.currency = c
      BY <2>2, <2>3 DEF CreditRows, InvoiceRows, Using, OverdrawnRows, Chosen, Posted, CreditPays
    <2>5. pay.status \in {"POSTED", "REVERSED"}
      BY DEF PaymentRow
    <2>6. pay.purpose = "CUSTOMER_CREDIT" => ~row.settled /\ SaleCurrency[row.sale] = pay.currency
                                             /\ row.paid = row.amount /\ row.credit = 0
      BY <2>3 DEF Stands
    <2>7. AppliedOf[row] = row.amount /\ DrawnOf[row] = row.paid + row.credit /\ row.amount \in Int
      BY DEF AppliedOf, DrawnOf, AllocationRow
    <2>8. row \in Using(CreditPays(c)) => AppliedOf[row] = DrawnOf[row]
      BY <2>4, <2>6, <2>7
    <2>9. /\ row \in CreditRows(c) <=> row \in Using(CreditPays(c)) \/ row \in OverdrawnRows(c)
          /\ ~(row \in Using(CreditPays(c)) /\ row \in OverdrawnRows(c))
      BY <2>4, <2>5, <2>6
    <2> QED
      BY <2>1, <2>8, <2>9
  <1>2. /\ Chosen(allocations, CreditRows(c)) = Chosen(allocations, Using(CreditPays(c))) \cup Chosen(allocations, OverdrawnRows(c))
        /\ Chosen(allocations, Using(CreditPays(c))) \cap Chosen(allocations, OverdrawnRows(c)) = {}
        /\ \A x \in Chosen(allocations, Using(CreditPays(c))) : AppliedOf[allocations[x]] = DrawnOf[allocations[x]]
    BY <1>1 DEF Chosen
  <1>3. Over(allocations, CreditRows(c), AppliedOf) =
          Over(allocations, Using(CreditPays(c)), AppliedOf) + Over(allocations, OverdrawnRows(c), AppliedOf)
    BY <1>2, Tables, ValuesInt, OverSplit
  <1>4. Over(allocations, Using(CreditPays(c)), AppliedOf) = Over(allocations, Using(CreditPays(c)), DrawnOf)
    BY <1>2, OverAgree
  <1> QED
    BY <1>3, <1>4, OverdrawnIs DEF CreditUsed

\* What is left of the payments chosen.
LEMMA PaymentsLeft ==
  ASSUME DocInv, NEW Q
  PROVE  /\ Over(allocations, Using(Q), DrawnOf) \in Int
         /\ SumFunctionOnSet([p \in Chosen(payments, Q) |-> Available(p)], Chosen(payments, Q)) =
              Over(payments, Q, PaidOf) - Over(allocations, Using(Q), DrawnOf)
  <1> DEFINE W == Chosen(payments, Q)
             at == [p \in W |-> Drawn(p)]
             left == [p \in W |-> Available(p)]
             key == [row \in AllocationRow |-> row.payment]
             rows == [p \in W |-> OfRows(p)]
  <1>1. IsFiniteSet(W)
    BY Tables, ChosenFinite
  <1>2. ASSUME NEW x \in Posted(allocations) PROVE allocations[x] \in AllocationRow
    BY PostedAllocation
  <1>3. Keyed(allocations, Using(Q), DrawnOf, W, key, rows, at)
    <2>1. \A x \in Chosen(allocations, Using(Q)) : key[allocations[x]] \in W
      BY DEF Chosen, Using
    <2>2. \A p \in W : Chosen(allocations, rows[p]) = {x \in Chosen(allocations, Using(Q)) : key[allocations[x]] = p}
      <3> SUFFICES ASSUME NEW p \in W, NEW x \in Posted(allocations)
                   PROVE  allocations[x] \in OfRows(p) <=> allocations[x] \in Using(Q) /\ key[allocations[x]] = p
        BY DEF Chosen
      <3> QED
        BY <1>2 DEF OfRows, Using
    <2>3. \A p \in W : at[p] = Over(allocations, rows[p], DrawnOf)
      BY DEF Drawn
    <2> HIDE DEF W, at, key, rows
    <2> QED
      BY <1>1, <2>1, <2>2, <2>3 DEF Keyed
  <1>4. \A p \in W : at[p] \in Int /\ left[p] = PaidOf[payments[p]] - at[p]
    <2>1. \A p \in W : payments[p] \in PaymentRow
      BY Tables, PostedRows DEF Chosen
    <2>2. \A p \in W : PaidOf[payments[p]] = payments[p].amount
      BY <2>1 DEF PaidOf
    <2>3. \A p \in W : Available(p) = payments[p].amount - Drawn(p) /\ Drawn(p) \in Int
      BY AvailableIs, UsesTyped DEF DocInv
    <2> HIDE DEF W
    <2> QED
      BY <2>2, <2>3
  <1> HIDE DEF at, left, key, rows
  <1>5. Over(allocations, Using(Q), DrawnOf) = SumFunctionOnSet(at, W)
    <2> HIDE DEF W
    <2>1. Table(allocations, Allocation, AllocationRow) /\ IsFiniteSet(Filled(allocations))
          /\ DrawnOf \in [AllocationRow -> Int]
      BY Tables, ValuesInt
    <2> QED
      BY <1>3, <2>1, OverByKey
  <1>6. /\ SumFunctionOnSet(at, W) \in Int
        /\ SumFunctionOnSet(left, W) = Over(payments, Q, PaidOf) - SumFunctionOnSet(at, W)
    <2>1. Table(payments, Payment, PaymentRow) /\ IsFiniteSet(Filled(payments)) /\ PaidOf \in [PaymentRow -> Int]
      BY Tables, ValuesInt
    <2> QED
      BY <1>4, <2>1, LeftOver
  <1> QED
    BY <1>5, <1>6 DEF left, W

\* What is left of the debts the payments chosen settle.
SettledUsing(Q) == {row \in AllocationRow : row.settled /\ row.payment \in Chosen(payments, Q)}

LEMMA DebtsLeft ==
  ASSUME DocInv, NEW Q
  PROVE  /\ Over(allocations, SettledUsing(Q), AppliedOf) \in Int
         /\ SumFunctionOnSet([p \in Chosen(payments, Q) |-> DebtLeft(p)], Chosen(payments, Q)) =
              Over(payments, Q, DebtOf) - Over(allocations, SettledUsing(Q), AppliedOf)
  <1> DEFINE W == Chosen(payments, Q)
             at == [p \in W |-> Settled(p)]
             left == [p \in W |-> DebtLeft(p)]
             key == [row \in AllocationRow |-> row.payment]
             rows == [p \in W |-> SettledRows(p)]
  <1>1. IsFiniteSet(W)
    BY Tables, ChosenFinite
  <1>2. ASSUME NEW x \in Posted(allocations) PROVE allocations[x] \in AllocationRow
    BY PostedAllocation
  <1>3. Keyed(allocations, SettledUsing(Q), AppliedOf, W, key, rows, at)
    <2>1. \A x \in Chosen(allocations, SettledUsing(Q)) : key[allocations[x]] \in W
      BY DEF Chosen, SettledUsing
    <2>2. \A p \in W : Chosen(allocations, rows[p]) = {x \in Chosen(allocations, SettledUsing(Q)) : key[allocations[x]] = p}
      <3> SUFFICES ASSUME NEW p \in W, NEW x \in Posted(allocations)
                   PROVE  allocations[x] \in SettledRows(p) <=> allocations[x] \in SettledUsing(Q) /\ key[allocations[x]] = p
        BY DEF Chosen
      <3> QED
        BY <1>2 DEF SettledRows, SettledUsing
    <2>3. \A p \in W : at[p] = Over(allocations, rows[p], AppliedOf)
      BY DEF Settled
    <2> HIDE DEF W, at, key, rows
    <2> QED
      BY <1>1, <2>1, <2>2, <2>3 DEF Keyed
  <1>4. \A p \in W : at[p] \in Int /\ left[p] = DebtOf[payments[p]] - at[p]
    <2>1. \A p \in W : payments[p] \in PaymentRow
      BY Tables, PostedRows DEF Chosen
    <2>2. \A p \in W : DebtOf[payments[p]] = payments[p].settlement.debt
      BY <2>1 DEF DebtOf
    <2>3. \A p \in W : DebtLeft(p) = payments[p].settlement.debt - Settled(p) /\ Settled(p) \in Int
      BY DebtLeftIs, UsesTyped DEF DocInv
    <2> HIDE DEF W
    <2> QED
      BY <2>2, <2>3
  <1> HIDE DEF at, left, key, rows
  <1>5. Over(allocations, SettledUsing(Q), AppliedOf) = SumFunctionOnSet(at, W)
    <2> HIDE DEF W
    <2>1. Table(allocations, Allocation, AllocationRow) /\ IsFiniteSet(Filled(allocations))
          /\ AppliedOf \in [AllocationRow -> Int]
      BY Tables, ValuesInt
    <2> QED
      BY <1>3, <2>1, OverByKey
  <1>6. /\ SumFunctionOnSet(at, W) \in Int
        /\ SumFunctionOnSet(left, W) = Over(payments, Q, DebtOf) - SumFunctionOnSet(at, W)
    <2>1. Table(payments, Payment, PaymentRow) /\ IsFiniteSet(Filled(payments)) /\ DebtOf \in [PaymentRow -> Int]
      BY Tables, ValuesInt
    <2> QED
      BY <1>4, <2>1, LeftOver
  <1> QED
    BY <1>5, <1>6 DEF left, W

\* What is left of the returns in one currency.
LEMMA ReturnsLeft ==
  ASSUME DocInv, NEW c
  PROVE  Sum({r \in Posted(returns) : SaleCurrency[returns[r].sale] = c}, Refundable) = CreditBack(c) - CreditOut(c)
  <1> DEFINE W == Chosen(returns, ReturnsIn(c))
             at == [r \in W |-> Refunded(r)]
             left == [r \in W |-> Refundable(r)]
             key == [row \in RefundRow |-> row.return]
             rows == [r \in W |-> RefundRows(r)]
  <1>1. IsFiniteSet(W) /\ \A r \in Posted(returns) : returns[r] \in ReturnRow
    BY Tables, ChosenFinite, PostedRows
  <1>2. \A f \in Posted(refunds) : refunds[f] \in RefundRow
    BY Tables, PostedRows
  <1>3. \A f \in Posted(refunds) : refunds[f].return \in Posted(returns)
    BY Tables DEF DocInv, BackedInv, RefundsAreBacked, Posted, Table
  <1>4. Keyed(refunds, RefundsIn(c), RefundedOf, W, key, rows, at)
    <2>1. \A f \in Chosen(refunds, RefundsIn(c)) : key[refunds[f]] \in W
      BY <1>1, <1>2, <1>3 DEF Chosen, RefundsIn, ReturnsIn
    <2>2. \A r \in W : Chosen(refunds, rows[r]) = {f \in Chosen(refunds, RefundsIn(c)) : key[refunds[f]] = r}
      <3> SUFFICES ASSUME NEW r \in W, NEW f \in Posted(refunds)
                   PROVE  refunds[f] \in RefundRows(r) <=> refunds[f] \in RefundsIn(c) /\ key[refunds[f]] = r
        BY DEF Chosen
      <3>1. SaleCurrency[returns[r].sale] = c
        BY DEF Chosen, ReturnsIn
      <3> QED
        BY <1>2, <3>1 DEF RefundRows, RefundsIn
    <2>3. \A r \in W : at[r] = Over(refunds, rows[r], RefundedOf)
      BY DEF Refunded
    <2> HIDE DEF W, at, key, rows
    <2> QED
      BY <1>1, <2>1, <2>2, <2>3 DEF Keyed
  <1>5. \A r \in W : at[r] \in Int /\ left[r] = RefundableOf[returns[r]] - at[r]
    <2>1. \A r \in W : RefundableOf[returns[r]] = returns[r].refundable
      BY DEF RefundableOf, Chosen, ReturnsIn
    <2>2. \A r \in W : Refundable(r) = returns[r].refundable - Refunded(r) /\ Refunded(r) \in Int
      BY RefundableIs, UsesTyped DEF DocInv
    <2> HIDE DEF W
    <2> QED
      BY <2>1, <2>2
  <1>6. Sum({r \in Posted(returns) : SaleCurrency[returns[r].sale] = c}, Refundable) = SumFunctionOnSet(left, W)
    <2>1. W = {r \in Posted(returns) : SaleCurrency[returns[r].sale] = c}
      BY <1>1 DEF Chosen, ReturnsIn
    <2> HIDE DEF W
    <2> QED
      BY <2>1 DEF Sum
  <1> HIDE DEF at, left, key, rows
  <1>7. CreditOut(c) = SumFunctionOnSet(at, W)
    <2> HIDE DEF W
    <2>1. Table(refunds, Refund, RefundRow) /\ IsFiniteSet(Filled(refunds)) /\ RefundedOf \in [RefundRow -> Int]
      BY Tables, ValuesInt
    <2> QED
      BY <1>4, <2>1, OverByKey DEF CreditOut
  <1>8. SumFunctionOnSet(left, W) = Over(returns, ReturnsIn(c), RefundableOf) - SumFunctionOnSet(at, W)
    <2>1. Table(returns, Return, ReturnRow) /\ IsFiniteSet(Filled(returns)) /\ RefundableOf \in [ReturnRow -> Int]
      BY Tables, ValuesInt
    <2> QED
      BY <1>5, <2>1, LeftOver
  <1> QED
    BY <1>6, <1>7, <1>8 DEF CreditBack

LEMMA CreditTie ==
  ASSUME DocInv, LedgerInv
  PROVE  CreditTies
  <1> SUFFICES ASSUME NEW c \in Currency
               PROVE  -gl[<<CustomerCredit, c>>] =
                        Sum({p \in Posted(payments) : /\ payments[p].purpose = "CUSTOMER_CREDIT"
                                                      /\ payments[p].currency = c}, Available)
                        + Sum({x \in Posted(allocations) : SaleCurrency[allocations[x].sale] = c},
                              LAMBDA x : allocations[x].credit)
                        + Sum({r \in Posted(returns) : SaleCurrency[returns[r].sale] = c}, Refundable)
                        - Overdrawn(c)
    BY DEF CreditTies
  <1> DEFINE S == {p \in Posted(payments) : /\ payments[p].purpose = "CUSTOMER_CREDIT"
                                            /\ payments[p].currency = c}
             used == Over(allocations, Using(CreditPays(c)), DrawnOf)
  <1>1. Sum(S, Available) = CreditPaid(c) - used /\ used \in Int
    <2>1. S = Chosen(payments, CreditPays(c))
      <3>1. \A p \in Posted(payments) : payments[p] \in PaymentRow
        BY Tables, PostedRows
      <3> QED
        BY <3>1 DEF Chosen, CreditPays
    <2> HIDE DEF S
    <2>2. Sum(S, Available) = SumFunctionOnSet([p \in S |-> Available(p)], S)
      BY DEF Sum
    <2> QED
      BY <2>1, <2>2, PaymentsLeft DEF CreditPaid
  <1> HIDE DEF S, used
  <1>2. CreditUsed(c) = used + Overdrawn(c)
    BY UsedIs DEF used
  <1>3. FlatTyped(c)
    BY FlatInt DEF DocInv
  <1>4. Overdrawn(c) \in Int
    BY Tables, ValuesInt, OverInt, OverdrawnIs
  <1>5. -gl[<<CustomerCredit, c>>] = Sum(S, Available) + CreditGiven(c) + (CreditBack(c) - CreditOut(c)) - Overdrawn(c)
    <2>1. TiesAt(c)
      BY DEF LedgerInv
    <2>2. -gl[<<CustomerCredit, c>>] =
            CreditPaid(c) - CreditUsed(c) + CreditGiven(c) + CreditBack(c) - CreditOut(c)
      BY <2>1 DEF TiesAt
    <2>3. CreditPaid(c) - CreditUsed(c) + CreditGiven(c) + CreditBack(c) - CreditOut(c) =
            Sum(S, Available) + CreditGiven(c) + (CreditBack(c) - CreditOut(c)) - Overdrawn(c)
      BY <1>1, <1>2, <1>3, <1>4 DEF FlatTyped
    <2> QED
      BY <2>2, <2>3
  <1> QED
    BY <1>5, GivenIs, ReturnsLeft DEF S
-----------------------------------------------------------------------------
(* The receivable account. *)
BothOf == [row \in AllocationRow |-> row.amount + row.credit]

\* The allocations of receivable payments: those of open payments, those that
\* settle a debt, and the strays.
OpenUses(c) == Using(OpenPays(c))
SettledUses(c) == SettledUsing(SettlingPays(c))
StrayRows(c) ==
  {row \in InvoiceRows(c) :
     LET p == payments[row.payment]
     IN /\ p.purpose = "RECEIVABLE"
        /\ p.status = "REVERSED" \/ (p.settlement # NoSettlement /\ ~row.settled)}

LEMMA UnbackedIs ==
  ASSUME DocInv, NEW c
  PROVE  Unbacked(c) = Over(allocations, StrayRows(c), BothOf)
  <1> DEFINE S == {x \in Strays : SaleCurrency[allocations[x].sale] = c}
  <1>1. S = Chosen(allocations, StrayRows(c))
    BY PostedAllocation DEF Chosen, StrayRows, InvoiceRows, Strays
  <1>2. \A x \in S : BothOf[allocations[x]] = allocations[x].amount + allocations[x].credit
    BY PostedAllocation DEF BothOf, Strays
  <1>3. Unbacked(c) = SumFunctionOnSet([x \in S |-> allocations[x].amount + allocations[x].credit], S)
    BY DEF Unbacked, Sum
  <1> HIDE DEF S
  <1>4. [x \in S |-> allocations[x].amount + allocations[x].credit] = [x \in S |-> BothOf[allocations[x]]]
    BY <1>2
  <1> QED
    BY <1>1, <1>3, <1>4 DEF Over

\* An allocation to an invoice of c is of exactly one of four kinds.
Kinds(row, c) ==
  /\ row \in InvoiceRows(c) <=> \/ row \in CreditRows(c) \/ row \in OpenUses(c)
                                \/ row \in SettledUses(c) \/ row \in StrayRows(c)
  /\ ~(row \in CreditRows(c) /\ row \in OpenUses(c)) /\ ~(row \in CreditRows(c) /\ row \in SettledUses(c))
  /\ ~(row \in CreditRows(c) /\ row \in StrayRows(c)) /\ ~(row \in OpenUses(c) /\ row \in SettledUses(c))
  /\ ~(row \in OpenUses(c) /\ row \in StrayRows(c)) /\ ~(row \in SettledUses(c) /\ row \in StrayRows(c))
  /\ row \in CreditRows(c) => BothOf[row] = AppliedOf[row]
  /\ row \in OpenUses(c) => BothOf[row] = DrawnOf[row]
  /\ row \in SettledUses(c) => BothOf[row] = AppliedOf[row]

LEMMA KindsAre ==
  ASSUME DocInv, NEW c, NEW x \in Posted(allocations)
  PROVE  Kinds(allocations[x], c)
  <1>1. PICK row \in AllocationRow : row = allocations[x]
    BY PostedAllocation
  <1>2. PICK pay \in PaymentRow : pay = payments[row.payment]
    BY <1>1, PostedAllocation
  <1>3. /\ Stands(row, pay) /\ (pay.settlement # NoSettlement => pay.purpose = "RECEIVABLE")
        /\ row.payment \in Payment /\ DOMAIN payments = Payment
    BY <1>1, <1>2, PostedAllocation, Tables DEF Table
  <1> DEFINE isIn == SaleCurrency[row.sale] = c
             isCredit == pay.purpose = "CUSTOMER_CREDIT"
             isPosted == pay.status = "POSTED"
             isSettling == pay.settlement # NoSettlement
  <1>4. /\ row \in InvoiceRows(c) <=> isIn
        /\ row \in CreditRows(c) <=> isIn /\ isCredit
        /\ row \in OpenUses(c) <=> isPosted /\ ~isCredit /\ ~isSettling /\ pay.currency = c
        /\ row \in SettledUses(c) <=> row.settled /\ isPosted /\ isSettling /\ pay.settlement.currency = c
        /\ row \in StrayRows(c) <=> isIn /\ ~isCredit /\ (~isPosted \/ (isSettling /\ ~row.settled))
    <2>1. pay.purpose \in {"RECEIVABLE", "CUSTOMER_CREDIT"} /\ pay.status \in {"POSTED", "REVERSED"}
      BY DEF PaymentRow
    <2>2. row \in InvoiceRows(c) <=> isIn
      BY DEF InvoiceRows
    <2>3. row \in CreditRows(c) <=> isIn /\ isCredit
      BY <1>2, <2>2 DEF CreditRows
    <2>4. row \in OpenUses(c) <=> isPosted /\ ~isCredit /\ ~isSettling /\ pay.currency = c
      BY <1>2, <1>3, <2>1 DEF OpenUses, Using, Chosen, Posted, OpenPays
    <2>5. row \in SettledUses(c) <=> row.settled /\ isPosted /\ isSettling /\ pay.settlement.currency = c
      BY <1>2, <1>3 DEF SettledUses, SettledUsing, Chosen, Posted, SettlingPays
    <2>6. row \in StrayRows(c) <=> isIn /\ ~isCredit /\ (~isPosted \/ (isSettling /\ ~row.settled))
      BY <1>2, <2>1, <2>2 DEF StrayRows
    <2> QED
      BY <2>2, <2>3, <2>4, <2>5, <2>6
  <1>5. /\ row.settled => isSettling /\ isPosted /\ row.credit = 0 /\ SaleCurrency[row.sale] = pay.settlement.currency
        /\ ~row.settled => row.paid = row.amount /\ SaleCurrency[row.sale] = pay.currency
        /\ isCredit => row.credit = 0 /\ ~isSettling
        /\ row.settled \in BOOLEAN
    BY <1>3 DEF Stands, AllocationRow
  <1>6. /\ BothOf[row] = row.amount + row.credit /\ AppliedOf[row] = row.amount
        /\ DrawnOf[row] = row.paid + row.credit /\ row.amount \in Int
    BY DEF BothOf, AppliedOf, DrawnOf, AllocationRow
  <1> HIDE DEF isIn, isCredit, isPosted, isSettling
  <1>7. /\ isCredit \/ isSettling => (row \in OpenUses(c) <=> FALSE)
        /\ row.settled /\ row \in OpenUses(c) => FALSE
    BY <1>4, <1>5
  <1>8. /\ row \in CreditRows(c) => BothOf[row] = AppliedOf[row]
        /\ row \in OpenUses(c) => BothOf[row] = DrawnOf[row]
        /\ row \in SettledUses(c) => BothOf[row] = AppliedOf[row]
    BY <1>4, <1>5, <1>6
  <1>9. /\ row \in InvoiceRows(c) <=> \/ row \in CreditRows(c) \/ row \in OpenUses(c)
                                      \/ row \in SettledUses(c) \/ row \in StrayRows(c)
        /\ ~(row \in CreditRows(c) /\ row \in OpenUses(c)) /\ ~(row \in CreditRows(c) /\ row \in SettledUses(c))
        /\ ~(row \in CreditRows(c) /\ row \in StrayRows(c)) /\ ~(row \in OpenUses(c) /\ row \in SettledUses(c))
        /\ ~(row \in OpenUses(c) /\ row \in StrayRows(c)) /\ ~(row \in SettledUses(c) /\ row \in StrayRows(c))
    BY <1>4, <1>5 DEF isIn
  <1> QED
    BY <1>1, <1>8, <1>9 DEF Kinds

LEMMA BothTyped == BothOf \in [AllocationRow -> Int]
  <1>1. \A row \in AllocationRow : row.amount + row.credit \in Int
    BY DEF AllocationRow
  <1> QED
    BY <1>1 DEF BothOf

LEMMA BothSplits ==
  ASSUME DocInv, NEW Q, NEW P, NEW R,
         /\ Chosen(allocations, Q) = Chosen(allocations, P) \cup Chosen(allocations, R)
         /\ Chosen(allocations, P) \cap Chosen(allocations, R) = {}
  PROVE  Over(allocations, Q, BothOf) = Over(allocations, P, BothOf) + Over(allocations, R, BothOf)
  <1>1. PICK X, ids, T, v :
          /\ X = allocations /\ ids = Allocation /\ T = AllocationRow /\ v = BothOf
    OBVIOUS
  <1>2. Table(X, ids, T) /\ IsFiniteSet(Filled(X)) /\ v \in [T -> Int]
    BY <1>1, Tables, BothTyped
  <1>3. Chosen(X, Q) = Chosen(X, P) \cup Chosen(X, R) /\ Chosen(X, P) \cap Chosen(X, R) = {}
    BY <1>1
  <1>4. Over(X, Q, v) = Over(X, P, v) + Over(X, R, v)
    BY ONLY <1>2, <1>3, OverSplit
  <1> QED
    BY <1>1, <1>4

\* What allocations take off the invoices of c, with the credit they leave.
LEMMA InvoicesTake ==
  ASSUME DocInv, NEW c
  PROVE  Over(allocations, InvoiceRows(c), AppliedOf) + CreditGiven(c) =
           CreditUsed(c) + Over(allocations, OpenUses(c), DrawnOf)
             + Over(allocations, SettledUses(c), AppliedOf) + Unbacked(c)
  <1> DEFINE later == SettledUses(c) \cup StrayRows(c)
             rest == OpenUses(c) \cup later
  <1>1. \A x \in Posted(allocations) : Kinds(allocations[x], c)
    BY KindsAre
  <1>2. /\ Chosen(allocations, InvoiceRows(c)) = Chosen(allocations, CreditRows(c)) \cup Chosen(allocations, rest)
        /\ Chosen(allocations, CreditRows(c)) \cap Chosen(allocations, rest) = {}
    BY <1>1 DEF Chosen, Kinds
  <1>3. /\ Chosen(allocations, rest) = Chosen(allocations, OpenUses(c)) \cup Chosen(allocations, later)
        /\ Chosen(allocations, OpenUses(c)) \cap Chosen(allocations, later) = {}
    BY <1>1 DEF Chosen, Kinds
  <1>4. /\ Chosen(allocations, later) = Chosen(allocations, SettledUses(c)) \cup Chosen(allocations, StrayRows(c))
        /\ Chosen(allocations, SettledUses(c)) \cap Chosen(allocations, StrayRows(c)) = {}
    BY <1>1 DEF Chosen, Kinds
  <1>5. /\ Table(allocations, Allocation, AllocationRow) /\ IsFiniteSet(Filled(allocations))
        /\ AppliedOf \in [AllocationRow -> Int] /\ CreditOf \in [AllocationRow -> Int]
        /\ DrawnOf \in [AllocationRow -> Int]
    BY Tables, ValuesInt
  <1>6. /\ \A row \in AllocationRow : BothOf[row] = AppliedOf[row] + CreditOf[row]
        /\ BothOf \in [AllocationRow -> Int]
    <2>1. \A row \in AllocationRow : BothOf[row] = AppliedOf[row] + CreditOf[row]
      BY DEF BothOf, AppliedOf, CreditOf
    <2> QED
      BY <2>1, BothTyped
  <1> HIDE DEF rest, later
  <1>7. Over(allocations, InvoiceRows(c), BothOf) = Over(allocations, CreditRows(c), BothOf) + Over(allocations, rest, BothOf)
    BY <1>2, BothSplits
  <1>8. Over(allocations, rest, BothOf) = Over(allocations, OpenUses(c), BothOf) + Over(allocations, later, BothOf)
    BY <1>3, BothSplits
  <1>9. Over(allocations, later, BothOf) = Over(allocations, SettledUses(c), BothOf) + Over(allocations, StrayRows(c), BothOf)
    BY <1>4, BothSplits
  <1>10. Over(allocations, InvoiceRows(c), BothOf) =
           Over(allocations, InvoiceRows(c), AppliedOf) + Over(allocations, InvoiceRows(c), CreditOf)
    BY <1>5, <1>6, OverPlus
  <1>11. /\ \A x \in Chosen(allocations, CreditRows(c)) : BothOf[allocations[x]] = AppliedOf[allocations[x]]
         /\ \A x \in Chosen(allocations, OpenUses(c)) : BothOf[allocations[x]] = DrawnOf[allocations[x]]
         /\ \A x \in Chosen(allocations, SettledUses(c)) : BothOf[allocations[x]] = AppliedOf[allocations[x]]
    BY <1>1 DEF Chosen, Kinds
  <1>12. Over(allocations, CreditRows(c), BothOf) = Over(allocations, CreditRows(c), AppliedOf)
    BY <1>11, OverAgree
  <1>13. Over(allocations, OpenUses(c), BothOf) = Over(allocations, OpenUses(c), DrawnOf)
    BY <1>11, OverAgree
  <1>14. Over(allocations, SettledUses(c), BothOf) = Over(allocations, SettledUses(c), AppliedOf)
    BY <1>11, OverAgree
  <1>15. Over(allocations, StrayRows(c), BothOf) = Unbacked(c)
    BY UnbackedIs
  <1>16. \A Q : Over(allocations, Q, AppliedOf) \in Int /\ Over(allocations, Q, DrawnOf) \in Int
                /\ Over(allocations, Q, BothOf) \in Int
    BY <1>5, <1>6, OverInt
  <1>17. Over(allocations, InvoiceRows(c), AppliedOf) + Over(allocations, InvoiceRows(c), CreditOf) =
           Over(allocations, CreditRows(c), AppliedOf) + Over(allocations, OpenUses(c), DrawnOf)
             + Over(allocations, SettledUses(c), AppliedOf) + Unbacked(c)
    BY <1>7, <1>8, <1>9, <1>10, <1>12, <1>13, <1>14, <1>15, <1>16
  <1> QED
    BY <1>17 DEF CreditGiven, CreditUsed

\* What the invoices of c show outstanding.
LEMMA OutstandingIs ==
  ASSUME DocInv, NEW c
  PROVE  Sum(InCurrency(CreditSale, c), Outstanding) = Billed(c) - Over(allocations, InvoiceRows(c), AppliedOf)
  <1> DEFINE W == InCurrency(CreditSale, c)
             at == [s \in W |-> Applied(s)]
             left == [s \in W |-> Outstanding(s)]
             total == [s \in W |-> Total[s]]
             key == [row \in AllocationRow |-> row.sale]
             rows == [s \in W |-> ToRows(s)]
  <1>1. IsFiniteSet(W) /\ W \subseteq CreditSale
    BY Numbers, FS_Subset DEF InCurrency
  <1>2. \A x \in Posted(allocations) : allocations[x] \in AllocationRow /\ allocations[x].sale \in CreditSale
    BY PostedAllocation DEF Stands
  <1>3. Keyed(allocations, InvoiceRows(c), AppliedOf, W, key, rows, at)
    <2>1. \A x \in Chosen(allocations, InvoiceRows(c)) : key[allocations[x]] \in W
      BY <1>2 DEF Chosen, InvoiceRows, InCurrency
    <2>2. \A s \in W : Chosen(allocations, rows[s]) = {x \in Chosen(allocations, InvoiceRows(c)) : key[allocations[x]] = s}
      <3> SUFFICES ASSUME NEW s \in W, NEW x \in Posted(allocations)
                   PROVE  allocations[x] \in ToRows(s) <=> allocations[x] \in InvoiceRows(c) /\ key[allocations[x]] = s
        BY DEF Chosen
      <3>1. SaleCurrency[s] = c
        BY DEF InCurrency
      <3> QED
        BY <1>2, <3>1 DEF ToRows, InvoiceRows
    <2>3. \A s \in W : at[s] = Over(allocations, rows[s], AppliedOf)
      BY DEF Applied
    <2> HIDE DEF W, at, key, rows
    <2> QED
      BY <1>1, <2>1, <2>2, <2>3 DEF Keyed
  <1>4. \A s \in W : left[s] \in Int /\ at[s] \in Int /\ total[s] = left[s] + at[s]
    <2>1. \A s \in W : s \in CreditSale
      BY <1>1
    <2> HIDE DEF W
    <2>2. ASSUME NEW s \in W
          PROVE  Outstanding(s) = Total[s] - Applied(s) /\ Total[s] \in Int /\ Applied(s) \in Int
      <3>1. s \in CreditSale /\ Total[s] \in Int
        BY <2>1, Numbers
      <3>2. Applied(s) \in Int /\ Allocated(s) = Applied(s)
        BY UsesTyped, AllocatedIs DEF DocInv
      <3> QED
        BY <3>1, <3>2 DEF Outstanding
    <2> QED
      BY <2>2
  <1>5. /\ Sum(W, Outstanding) = SumFunctionOnSet(left, W)
        /\ Billed(c) = SumFunctionOnSet(total, W)
    BY DEF Sum, Billed, BilledOf
  <1> HIDE DEF W, at, left, total, key, rows
  <1>6. Over(allocations, InvoiceRows(c), AppliedOf) = SumFunctionOnSet(at, W)
    <2>1. Table(allocations, Allocation, AllocationRow) /\ IsFiniteSet(Filled(allocations))
          /\ AppliedOf \in [AllocationRow -> Int]
      BY Tables, ValuesInt
    <2> QED
      BY <1>3, <2>1, OverByKey
  <1>7. IntOn(left, W) /\ IntOn(at, W) /\ \A s \in W : total[s] = left[s] + at[s]
    BY <1>4 DEF IntOn
  <1>8. /\ SumFunctionOnSet(total, W) = SumFunctionOnSet(left, W) + SumFunctionOnSet(at, W)
        /\ SumFunctionOnSet(left, W) \in Int /\ SumFunctionOnSet(at, W) \in Int
    BY <1>1, <1>7, SumPlus, SumInt
  <1>9. Sum(W, Outstanding) = Billed(c) - Over(allocations, InvoiceRows(c), AppliedOf)
    BY <1>5, <1>6, <1>8
  <1> QED
    BY <1>9 DEF W

\* What returns have taken off the invoices of c.
LEMMA TakenOffInIs ==
  ASSUME DocInv, NEW c
  PROVE  Sum(InCurrency(Sale, c), ReturnedReceivable) = DebtBack(c)
  <1> DEFINE W == InCurrency(Sale, c)
             at == [s \in W |-> ReturnedReceivable(s)]
             key == [row \in ReturnRow |-> row.sale]
             rows == [s \in W |-> ReturnRows(s)]
  <1>1. IsFiniteSet(W)
    BY Numbers, FS_Subset DEF InCurrency
  <1>2. \A r \in Posted(returns) : returns[r] \in ReturnRow /\ returns[r].sale \in Sale
    <2>1. \A r \in Posted(returns) : returns[r] \in ReturnRow
      BY Tables, PostedRows
    <2> QED
      BY <2>1 DEF ReturnRow
  <1>3. Keyed(returns, ReturnsIn(c), TakenOffOf, W, key, rows, at)
    <2>1. \A r \in Chosen(returns, ReturnsIn(c)) : key[returns[r]] \in W
      BY <1>2 DEF Chosen, ReturnsIn, InCurrency
    <2>2. \A s \in W : Chosen(returns, rows[s]) = {r \in Chosen(returns, ReturnsIn(c)) : key[returns[r]] = s}
      <3> SUFFICES ASSUME NEW s \in W, NEW r \in Posted(returns)
                   PROVE  returns[r] \in ReturnRows(s) <=> returns[r] \in ReturnsIn(c) /\ key[returns[r]] = s
        BY DEF Chosen
      <3>1. SaleCurrency[s] = c
        BY DEF InCurrency
      <3> QED
        BY <1>2, <3>1 DEF ReturnRows, ReturnsIn
    <2>3. \A s \in W : at[s] = Over(returns, rows[s], TakenOffOf)
      BY ReturnedIs DEF TakenOff, DocInv
    <2> HIDE DEF W, at, key, rows
    <2> QED
      BY <1>1, <2>1, <2>2, <2>3 DEF Keyed
  <1>4. Sum(W, ReturnedReceivable) = SumFunctionOnSet(at, W)
    BY DEF Sum
  <1> HIDE DEF W, at, key, rows
  <1>5. Over(returns, ReturnsIn(c), TakenOffOf) = SumFunctionOnSet(at, W)
    <2>1. Table(returns, Return, ReturnRow) /\ IsFiniteSet(Filled(returns)) /\ TakenOffOf \in [ReturnRow -> Int]
      BY Tables, ValuesInt
    <2> QED
      BY <1>3, <2>1, OverByKey
  <1> QED
    BY <1>4, <1>5 DEF DebtBack, W

\* What payments have taken off the account and not off an invoice.
LEMMA UnappliedIs ==
  ASSUME DocInv, NEW c
  PROVE  Unapplied(c) = (OpenPaid(c) - Over(allocations, OpenUses(c), DrawnOf))
                        + (DebtPaid(c) - Over(allocations, SettledUses(c), AppliedOf))
  <1> DEFINE S == {p \in Posted(payments) : /\ payments[p].purpose = "RECEIVABLE"
                                            /\ payments[p].settlement = NoSettlement
                                            /\ payments[p].currency = c}
             R == {p \in Posted(payments) : /\ payments[p].settlement # NoSettlement
                                            /\ payments[p].settlement.currency = c}
  <1>1. S = Chosen(payments, OpenPays(c)) /\ R = Chosen(payments, SettlingPays(c))
    <2>1. \A p \in Posted(payments) : payments[p] \in PaymentRow
      BY Tables, PostedRows
    <2> QED
      BY <2>1 DEF Chosen, OpenPays, SettlingPays
  <1>2. Unapplied(c) = Sum(S, Available) + Sum(R, DebtLeft)
    BY DEF Unapplied
  <1> HIDE DEF S, R
  <1>3. /\ Sum(S, Available) = SumFunctionOnSet([p \in S |-> Available(p)], S)
        /\ Sum(R, DebtLeft) = SumFunctionOnSet([p \in R |-> DebtLeft(p)], R)
    BY DEF Sum
  <1>4. Sum(S, Available) = OpenPaid(c) - Over(allocations, OpenUses(c), DrawnOf)
    BY <1>1, <1>3, PaymentsLeft DEF OpenPaid, OpenUses
  <1>5. Sum(R, DebtLeft) = DebtPaid(c) - Over(allocations, SettledUses(c), AppliedOf)
    BY <1>1, <1>3, DebtsLeft DEF DebtPaid, SettledUses
  <1> QED
    BY <1>2, <1>4, <1>5

LEMMA ReceivableTie ==
  ASSUME DocInv, LedgerInv
  PROVE  ReceivableTies
  <1> SUFFICES ASSUME NEW c \in Currency
               PROVE  gl[<<Receivable, c>>] =
                        Sum(InCurrency(CreditSale, c), Outstanding) - Unapplied(c)
                        - Sum(InCurrency(Sale, c), ReturnedReceivable) + Unbacked(c)
    BY DEF ReceivableTies
  <1> DEFINE applied == Over(allocations, InvoiceRows(c), AppliedOf)
             open == Over(allocations, OpenUses(c), DrawnOf)
             settled == Over(allocations, SettledUses(c), AppliedOf)
  <1>1. applied \in Int /\ open \in Int /\ settled \in Int
    BY Tables, ValuesInt, OverInt
  <1>2. Unbacked(c) \in Int
    BY BothTyped, Tables, OverInt, UnbackedIs
  <1>3. FlatTyped(c)
    BY FlatInt DEF DocInv
  <1>4. applied + CreditGiven(c) = CreditUsed(c) + open + settled + Unbacked(c)
    BY InvoicesTake
  <1>5. Sum(InCurrency(CreditSale, c), Outstanding) = Billed(c) - applied
    BY OutstandingIs
  <1>6. Unapplied(c) = (OpenPaid(c) - open) + (DebtPaid(c) - settled)
    BY UnappliedIs
  <1>7. Sum(InCurrency(Sale, c), ReturnedReceivable) = DebtBack(c)
    BY TakenOffInIs
  <1>8. gl[<<Receivable, c>>] =
          Billed(c) - OpenPaid(c) - DebtPaid(c) + CreditGiven(c) - CreditUsed(c) - DebtBack(c)
    <2>1. TiesAt(c)
      BY DEF LedgerInv
    <2> QED
      BY <2>1 DEF TiesAt
  <1> HIDE DEF applied, open, settled
  <1>9. PICK billed \in Int, opened \in Int, debt \in Int, given \in Int, used \in Int, back \in Int, stray \in Int,
          a \in Int, o \in Int, d \in Int :
          /\ billed = Billed(c) /\ opened = OpenPaid(c) /\ debt = DebtPaid(c) /\ given = CreditGiven(c)
          /\ used = CreditUsed(c) /\ back = DebtBack(c) /\ stray = Unbacked(c)
          /\ a = applied /\ o = open /\ d = settled
    BY <1>1, <1>2, <1>3 DEF FlatTyped
  <1>10. a + given = used + o + d + stray
    BY <1>4, <1>9
  <1>11. billed - opened - debt + given - used - back =
           (billed - a) - ((opened - o) + (debt - d)) - back + stray
    BY ONLY <1>10
  <1>12. gl[<<Receivable, c>>] = billed - opened - debt + given - used - back
    BY <1>8, <1>9
  <1>13. /\ Sum(InCurrency(CreditSale, c), Outstanding) = billed - a
         /\ Unapplied(c) = (opened - o) + (debt - d)
         /\ Sum(InCurrency(Sale, c), ReturnedReceivable) = back
    BY <1>5, <1>6, <1>7, <1>9
  <1> QED
    BY <1>9, <1>11, <1>12, <1>13
-----------------------------------------------------------------------------
(* The theorems. *)

\* The inductive invariant: the rows are well formed, nothing is drawn on
\* twice, and the two accounts are the sums of the documents behind them.
AccountInv == DocInv /\ UseInv /\ LedgerInv

LEMMA AccountStep == AccountInv /\ [Next]_vars => AccountInv'
  BY DocAgain, UseAgain, LedgerAgain DEF AccountInv

LEMMA AccountInvHolds == Spec => []AccountInv
  <1>1. Init => AccountInv
    BY DocUseInit, LedgerInit DEF AccountInv
  <1> QED
    BY <1>1, AccountStep, PTL DEF Spec

\* Every row and balance is of its type: no amount the services compute is
\* zero, negative or fractional where the tables require otherwise.
THEOREM CustomerTypeCorrect == Spec => []TypeOK
  <1>1. AccountInv => TypeOK
    BY DEF AccountInv, DocInv
  <1> QED
    BY <1>1, AccountInvHolds, PTL

\* However payments, allocations, returns and refunds are made, reversed and
\* made again, no payment, debt, invoice, line or credit is used beyond what it
\* is (allocations/services.py allocate_payment, sales/returns_services.py
\* create_sales_return, create_refund).
THEOREM NothingIsUsedTwice == Spec => []NeverOverdrawn
  <1>1. AccountInv => NeverOverdrawn
    BY NothingOverdrawn DEF AccountInv
  <1> QED
    BY <1>1, AccountInvHolds, PTL

\* When every unit of a line is back, the returns give back its price to the
\* cent, in whatever portions and order (sales/returns_services.py
\* create_sales_return gives the last return what is left).
THEOREM ReturnsGiveThePriceBack == Spec => []EntitlementIsExact
  <1>1. AccountInv => EntitlementIsExact
    BY NothingOverdrawn DEF AccountInv
  <1> QED
    BY <1>1, AccountInvHolds, PTL

\* Account 2200 is the credit the documents show, less what allocations of
\* reversed credit payments still hold.
THEOREM CreditAccountTies == Spec => []CreditTies
  <1>1. AccountInv => CreditTies
    BY CreditTie DEF AccountInv
  <1> QED
    BY <1>1, AccountInvHolds, PTL

\* Account 1310 is what the documents show owed, plus what allocations no
\* journal stands behind take off the invoices.
THEOREM ReceivableAccountTies == Spec => []ReceivableTies
  <1>1. AccountInv => ReceivableTies
    BY ReceivableTie DEF AccountInv
  <1> QED
    BY <1>1, AccountInvHolds, PTL

\* A return commits against the invoice as it stands, though payments may be
\* reversed while it is prepared (sales/returns_services.py create_sales_return).
THEOREM ReturnsRespectTheDebt == Spec => ReturnsTakeOnlyWhatIsOwed
  <1>1. AccountInv /\ AccountInv' /\ [Next]_vars =>
          [\A s \in CreditSale :
             ReturnedReceivable(s)' > ReturnedReceivable(s) =>
               Allocated(s)' + ReturnedReceivable(s)' <= Total[s]]_vars
    BY ReturnsTake DEF AccountInv
  <1> QED
    BY <1>1, AccountInvHolds, PTL DEF Spec, ReturnsTakeOnlyWhatIsOwed
=============================================================================
