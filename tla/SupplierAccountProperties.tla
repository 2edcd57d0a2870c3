----------------------- MODULE SupplierAccountProperties -----------------------
(* What the documents of a supplier and the accounts promise each other. *)
EXTENDS SupplierAccount

\* A posted document stands on posted documents: no allocation outlives its
\* advance, no refund its claim, no claim or allocation lacks its purchase, and
\* advances settle purchases of their own supplier and currency
\* (reverse_supplier_advance, reverse_purchase_return and the guards of
\* allocate_supplier_advance and create_supplier_refund together).
NothingOutlivesItsSource ==
  /\ \A x \in Posted(allocations) :
       LET a == allocations[x].advance
           p == allocations[x].purchase
       IN /\ IsPosted(advances, a)
          /\ IsPosted(purchases, p)
          /\ advances[a].supplier = purchases[p].supplier
          /\ advances[a].currency = purchases[p].currency
  /\ \A f \in Posted(refunds) : IsPosted(claims, refunds[f].claim)
  /\ \A r \in Posted(claims) : IsPosted(purchases, claims[r].purchase)

\* No advance pays more than it holds, no purchase takes more than its total,
\* and no claim is refunded beyond its amount, whatever was reversed in between
\* (advance_available, purchase_advance_allocated and _remaining_claim).
NeverOvercommitted ==
  /\ \A a \in Posted(advances) : Available(a) >= 0
  /\ \A p \in Posted(purchases) : Unallocated(p) >= 0
  /\ \A r \in Posted(claims) : Remaining(r) >= 0

\* Rounded claims on one line exceed its cost by half a cent each at most, and
\* half a step per unit (post_purchase_return, post_transit_purchase_return).
ClaimsWithinCost ==
  \A p \in Posted(purchases) : \A i \in DOMAIN purchases[p].lines :
    LET standing == ClaimsOn(p, i) \cap Posted(claims)
    IN 2 * Cent * Sum(standing, LAMBDA r : claims[r].amount)
         <= 2 * Cent * LineCost(purchases[p], i) + purchases[p].lines[i].quantity + Cent * Cardinality(standing)

\* A line's share of the discount is the proportional one to half a cent, but
\* the last's, which answers for the rounding of the others
\* (purchases/services.py:_allocate).
DiscountIsFair ==
  \A p \in Purchase : ~Free(purchases, p) =>
    LET lines == purchases[p].lines
        n == Len(lines)
        off(i) == 2 * (DiscountShares(lines, purchases[p].discount)[i] * Gross(lines)
                       - purchases[p].discount * lines[i].gross)
    IN \A i \in 1 .. n :
         LET limit == Gross(lines) * (IF i < n THEN 1 ELSE n - 1)
         IN off(i) \in (-limit) .. limit
-----------------------------------------------------------------------------
Owned(rows, s, c) == {i \in Posted(rows) : rows[i].supplier = s /\ rows[i].currency = c}

ClaimsOf(s, c) ==
  {r \in Posted(claims) : claims[r].purchase \in Owned(purchases, s, c)}

SameCurrency(f) == refunds[f].currency = ClaimCurrency(refunds[f].claim)

\* What the documents say is prepaid to a supplier.
PrepaidTo(s, c) == Sum(Owned(advances, s, c), Available)

\* What they say is owed: purchases less what advances paid and what is claimed
\* back and not refunded yet.
OwedTo(s, c) ==
  Sum(Owned(purchases, s, c), Unallocated) - Sum(ClaimsOf(s, c), Remaining)

\* 1500 and 2110 are, supplier by supplier and currency by currency, what the
\* open documents add up to, and 1910 holds the two sides of the refunds in
\* another currency, through every reversal; refunds in the claim's own
\* currency aside (the journals of both service modules).
SupplierLedgerTies ==
  \A s \in Supplier, c \in Currency :
    LET paid == {f \in Posted(refunds) : refunds[f].claim \in ClaimsOf(s, c)}
        bridged == {f \in paid : ~SameCurrency(f)}
        received == {f \in Posted(refunds) :
                       /\ refunds[f].currency = c
                       /\ ~SameCurrency(f)
                       /\ purchases[claims[refunds[f].claim].purchase].supplier = s}
    IN /\ gl[<<Prepaid, s, c>>] = PrepaidTo(s, c)
       /\ paid = bridged => gl[<<Payable, s, c>>] = -OwedTo(s, c)
       /\ gl[<<Clearing, s, c>>] =
            Sum(bridged, LAMBDA f : refunds[f].amount) - Sum(received, LAMBDA f : refunds[f].paid)

\* purchases/supplier_refund_services.py:3 "A PurchaseReturn creates the supplier
\* claim (Dr 2110 / Cr inventory). A SupplierRefund settles part or all of that
\* claim.": what is owed to a supplier is the open documents, refunds or not.
RefundsSettleClaims ==
  \A s \in Supplier, c \in Currency : gl[<<Payable, s, c>>] = -OwedTo(s, c)
=============================================================================
