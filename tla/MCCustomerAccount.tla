-------------------------- MODULE MCCustomerAccount --------------------------
(* Instances of CustomerAccount for TLC. *)
EXTENDS CustomerAccountProperties, TLC

CONSTANTS s0, s1, s2, s3, p1, p2, x1, x2, r1, r2, r3, f1, f2

\* s0 is an invoice in USD for 3 units, whose 4 cents do not divide by them, s1
\* one of 2 cents in USD, s2 one of 3 cents in AFN and s3 a cash sale of one cent.
MCCurrencies == (s0 :> "USD") @@ (s1 :> "USD") @@ (s2 :> "AFN") @@ (s3 :> "AFN")
MCTotals == (s0 :> 4) @@ (s1 :> 2) @@ (s2 :> 3) @@ (s3 :> 1)
MCUnits == (s0 :> 3) @@ (s1 :> 1) @@ (s2 :> 1) @@ (s3 :> 1)

\* At 5/2 a settlement of one cent is paid with 2, and applied it takes 3.
MCRate == {<<5, 2>>}

Used(rows) == {i \in DOMAIN rows : rows[i] # Absent}

\* A behaviour is about the allocations of two payments to s1 and s2, with one
\* return, or about the returns and refunds of s0: three returns with a refund or
\* two with two, created in order, next to one payment of 3 cents.
OfAllocations ==
  /\ Used(returns) \subseteq {r1}
  /\ refunds[f1] = Absent /\ refunds[f2] = Absent
  /\ draft # None => draft.sale # s0 /\ r1 \notin Used(returns)
  /\ \A x \in Used(allocations) : allocations[x].sale # s0
  /\ \A r \in Used(returns) : returns[r].sale # s0

OfReturns ==
  /\ Cardinality(Used(payments)) <= 1
  /\ \A p \in Used(payments) :
       /\ payments[p].currency = "USD" /\ payments[p].amount = 3
       /\ payments[p].settlement = NoSettlement
  /\ Cardinality(Used(allocations)) <= 1
  /\ r3 \in Used(returns) => r2 \in Used(returns)
  /\ ~(r3 \in Used(returns) /\ f2 \in Used(refunds))
  /\ r2 \in Used(returns) => r1 \in Used(returns)
  /\ f2 \in Used(refunds) => f1 \in Used(refunds)
  /\ draft # None => draft.sale = s0
  /\ \A x \in Used(allocations) : allocations[x].sale = s0
  /\ \A r \in Used(returns) : returns[r].sale = s0

MCSpec == Init /\ [][Next /\ (OfAllocations' \/ OfReturns')]_vars

Symmetry == Permutations(Payment) \cup Permutations(Allocation)
=============================================================================
