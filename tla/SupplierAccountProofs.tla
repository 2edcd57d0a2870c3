-------------------------- MODULE SupplierAccountProofs --------------------------
(***************************************************************************)
(* Proofs about SupplierAccount.  First what a posted document stands on   *)
(* (SourceInv); then the types of the rows with what _totals and a return  *)
(* record in them (DocInv); then the sums: what is left of a document, the *)
(* claims on a line, and the ledger against the documents.  Each step is   *)
(* read as one document turned, posted or reversed (StepIs).               *)
(***************************************************************************)
EXTENDS SupplierAccountProperties, SumTheorems, SequenceTheorems, TLAPS

\* A row is absent or a record of its fields; amounts are left open.
Shaped(rows, ids, fields) ==
  /\ DOMAIN rows = ids
  /\ rows = [i \in ids |-> rows[i]]
  /\ \A i \in ids : rows[i] = Absent \/ DOMAIN rows[i] = fields

PurchaseFields == {"status", "supplier", "currency", "mode", "lines", "discount", "freight"}
AdvanceFields == {"status", "supplier", "currency", "amount"}
AllocationFields == {"status", "advance", "purchase", "amount"}
ClaimFields == {"status", "purchase", "line", "quantity", "amount"}
RefundFields == {"status", "claim", "amount", "currency", "paid"}

Rows ==
  /\ Shaped(purchases, Purchase, PurchaseFields)
  /\ Shaped(advances, Advance, AdvanceFields)
  /\ Shaped(allocations, Allocation, AllocationFields)
  /\ Shaped(claims, Claim, ClaimFields)
  /\ Shaped(refunds, Refund, RefundFields)

\* What a posted row refers to is a row.
References ==
  /\ \A x \in Posted(allocations) : allocations[x].advance \in Advance /\ allocations[x].purchase \in Purchase
  /\ \A r \in Posted(claims) : claims[r].purchase \in Purchase
  /\ \A f \in Posted(refunds) : refunds[f].claim \in Claim

SourceInv == Rows /\ References /\ NothingOutlivesItsSource
-----------------------------------------------------------------------------
\* Filling a row keeps the shape of a table.
LEMMA FilledRow ==
  ASSUME NEW rows, NEW ids, NEW fields, Shaped(rows, ids, fields),
         NEW i \in ids, NEW row, DOMAIN row = fields
  PROVE  Shaped([rows EXCEPT ![i] = row], ids, fields)
  BY DEF Shaped

\* The empty tables.
LEMMA SourceInvInit == Init => SourceInv
  BY DEF Init, SourceInv, Rows, Shaped, References, NothingOutlivesItsSource, Posted, IsPosted, Absent

\* Saving a draft: no posted row refers to a purchase that is not posted.
LEMMA SavePurchaseKeeps ==
  ASSUME SourceInv, NEW p \in Purchase, NEW row, DOMAIN row = PurchaseFields, row.status = "DRAFT",
         SavePurchase(p, row)
  PROVE  SourceInv'
  <1>1. purchases' = [purchases EXCEPT ![p] = row] /\ UNCHANGED <<advances, allocations, claims, refunds>>
    BY DEF SavePurchase
  <1>2. Rows'
    BY <1>1, FilledRow DEF SourceInv, Rows
  <1>3. ~IsPosted(purchases, p)
    BY DEF SavePurchase, IsPosted
  <1>4. \A q \in Purchase \ {p} : purchases'[q] = purchases[q]
    BY <1>1 DEF SourceInv, Rows, Shaped
  <1>5. References'
    BY <1>1 DEF SourceInv, References, Posted, IsPosted
  <1>6. NothingOutlivesItsSource'
    BY <1>1, <1>3, <1>4 DEF SourceInv, References, NothingOutlivesItsSource, Posted, IsPosted
  <1> QED
    BY <1>2, <1>5, <1>6 DEF SourceInv

\* Posting a purchase keeps its supplier and currency.
LEMMA PostPurchaseKeeps ==
  ASSUME SourceInv, NEW p \in Purchase, PostPurchase(p)
  PROVE  SourceInv'
  <1>1. purchases' = [purchases EXCEPT ![p].status = "POSTED"]
        /\ UNCHANGED <<advances, allocations, claims, refunds>>
    BY DEF PostPurchase
  <1>2. ~Free(purchases, p)
    BY DEF PostPurchase, Free
  <1>3. /\ Shaped(purchases', Purchase, PurchaseFields)
        /\ purchases'[p].status = "POSTED"
        /\ \A q \in Purchase \ {p} : purchases'[q] = purchases[q]
        /\ purchases'[p].supplier = purchases[p].supplier
        /\ purchases'[p].currency = purchases[p].currency
    <2>1. Shaped(purchases, Purchase, PurchaseFields)
      BY DEF SourceInv, Rows
    <2>2. DOMAIN purchases[p] = PurchaseFields
      BY <1>2, <2>1 DEF Shaped, Free, Absent
    <2> QED
      BY <1>1, <2>1, <2>2 DEF Shaped, PurchaseFields
  <1>4. Rows'
    BY <1>1, <1>3 DEF SourceInv, Rows
  <1>5. References'
    BY <1>1 DEF SourceInv, References, Posted, IsPosted
  <1>6. NothingOutlivesItsSource'
    BY <1>1, <1>3 DEF SourceInv, References, NothingOutlivesItsSource, Posted, IsPosted
  <1> QED
    BY <1>4, <1>5, <1>6 DEF SourceInv

\* A new advance has no allocations yet.
LEMMA CreateAdvanceKeeps ==
  ASSUME SourceInv, NEW a \in Advance, NEW s \in Supplier, NEW c \in Currency, NEW n \in Amount,
         CreateSupplierAdvance(a, s, c, n)
  PROVE  SourceInv'
  <1> DEFINE row == [status |-> "POSTED", supplier |-> s, currency |-> c, amount |-> n]
  <1>1. advances' = [advances EXCEPT ![a] = row] /\ UNCHANGED <<purchases, allocations, claims, refunds>>
    BY DEF CreateSupplierAdvance
  <1>2. DOMAIN row = AdvanceFields
    BY DEF AdvanceFields
  <1>3. Rows'
    BY <1>1, <1>2, FilledRow DEF SourceInv, Rows
  <1>4. ~IsPosted(advances, a)
    BY DEF CreateSupplierAdvance, Free, IsPosted
  <1>5. \A b \in Advance \ {a} : advances'[b] = advances[b]
    BY <1>1 DEF SourceInv, Rows, Shaped
  <1>6. References'
    BY <1>1 DEF SourceInv, References, Posted, IsPosted
  <1>7. NothingOutlivesItsSource'
    BY <1>1, <1>4, <1>5 DEF SourceInv, References, NothingOutlivesItsSource, Posted, IsPosted
  <1> QED
    BY <1>3, <1>6, <1>7 DEF SourceInv

\* An allocation is made of a posted advance to a posted purchase of its supplier.
LEMMA AllocateKeeps ==
  ASSUME SourceInv, NEW x \in Allocation, NEW a \in Advance, NEW p \in Purchase, NEW n \in Amount,
         AllocateSupplierAdvance(x, a, p, n)
  PROVE  SourceInv'
  <1> DEFINE row == [status |-> "POSTED", advance |-> a, purchase |-> p, amount |-> n]
  <1>1. allocations' = [allocations EXCEPT ![x] = row] /\ UNCHANGED <<purchases, advances, claims, refunds>>
    BY DEF AllocateSupplierAdvance
  <1>2. /\ IsPosted(advances, a) /\ IsPosted(purchases, p)
        /\ advances[a].supplier = purchases[p].supplier
        /\ advances[a].currency = purchases[p].currency
    BY DEF AllocateSupplierAdvance
  <1>3. DOMAIN row = AllocationFields
    BY DEF AllocationFields
  <1>4. Rows'
    BY <1>1, <1>3, FilledRow DEF SourceInv, Rows
  <1>5. /\ allocations'[x] = row
        /\ \A y \in Allocation \ {x} : allocations'[y] = allocations[y]
        /\ DOMAIN allocations = Allocation /\ DOMAIN allocations' = Allocation
    BY <1>1 DEF SourceInv, Rows, Shaped
  <1>6. References'
    BY <1>1, <1>5 DEF SourceInv, References, Posted, IsPosted
  <1>7. NothingOutlivesItsSource'
    BY <1>1, <1>2, <1>5 DEF SourceInv, References, NothingOutlivesItsSource, Posted, IsPosted
  <1> QED
    BY <1>4, <1>6, <1>7 DEF SourceInv

\* Fewer allocations are posted after the reversal of one.
LEMMA ReverseAllocationKeeps ==
  ASSUME SourceInv, NEW x \in Allocation, ReverseSupplierAdvanceAllocation(x)
  PROVE  SourceInv'
  <1>1. allocations' = [allocations EXCEPT ![x].status = "REVERSED"]
        /\ UNCHANGED <<purchases, advances, claims, refunds>>
    BY DEF ReverseSupplierAdvanceAllocation
  <1>2. ~Free(allocations, x)
    BY DEF ReverseSupplierAdvanceAllocation, IsPosted, Free
  <1>3. /\ Shaped(allocations', Allocation, AllocationFields)
        /\ allocations'[x].status = "REVERSED"
        /\ \A y \in Allocation \ {x} : allocations'[y] = allocations[y]
    <2>1. Shaped(allocations, Allocation, AllocationFields)
      BY DEF SourceInv, Rows
    <2>2. DOMAIN allocations[x] = AllocationFields
      BY <1>2, <2>1 DEF Shaped, Free, Absent
    <2> QED
      BY <1>1, <2>1, <2>2 DEF Shaped, AllocationFields
  <1>4. DOMAIN allocations = Allocation /\ DOMAIN allocations' = Allocation
    BY <1>3 DEF SourceInv, Rows, Shaped
  <1>5. Rows'
    BY <1>1, <1>3 DEF SourceInv, Rows
  <1>6. References'
    BY <1>1, <1>3, <1>4 DEF SourceInv, References, Posted, IsPosted
  <1>7. NothingOutlivesItsSource'
    BY <1>1, <1>3, <1>4 DEF SourceInv, References, NothingOutlivesItsSource, Posted, IsPosted
  <1> QED
    BY <1>5, <1>6, <1>7 DEF SourceInv

\* No posted allocation is left when its advance is reversed.
LEMMA ReverseAdvanceKeeps ==
  ASSUME SourceInv, NEW a \in Advance, ReverseSupplierAdvance(a)
  PROVE  SourceInv'
  <1>1. advances' = [advances EXCEPT ![a].status = "REVERSED"]
        /\ UNCHANGED <<purchases, allocations, claims, refunds>>
    BY DEF ReverseSupplierAdvance
  <1>2. ~Free(advances, a)
    BY DEF ReverseSupplierAdvance, IsPosted, Free
  <1>3. /\ Shaped(advances', Advance, AdvanceFields)
        /\ \A b \in Advance \ {a} : advances'[b] = advances[b]
    <2>1. Shaped(advances, Advance, AdvanceFields)
      BY DEF SourceInv, Rows
    <2>2. DOMAIN advances[a] = AdvanceFields
      BY <1>2, <2>1 DEF Shaped, Free, Absent
    <2> QED
      BY <1>1, <2>1, <2>2 DEF Shaped, AdvanceFields
  <1>4. \A x \in Posted(allocations) : allocations[x].advance # a
    BY DEF ReverseSupplierAdvance, AllocationsOf
  <1>5. Rows'
    BY <1>1, <1>3 DEF SourceInv, Rows
  <1>6. References'
    BY <1>1 DEF SourceInv, References, Posted, IsPosted
  <1>7. NothingOutlivesItsSource'
    BY <1>1, <1>3, <1>4 DEF SourceInv, References, NothingOutlivesItsSource, Posted, IsPosted
  <1> QED
    BY <1>5, <1>6, <1>7 DEF SourceInv

\* A claim is made on a posted purchase.
LEMMA PostReturnKeeps ==
  ASSUME SourceInv, NEW r \in Claim, NEW p \in Purchase, NEW i, NEW q,
         PostPurchaseReturn(r, p, i, q)
  PROVE  SourceInv'
  <1> DEFINE row == [status |-> "POSTED", purchase |-> p, line |-> i, quantity |-> q,
                     amount |-> HalfUp(q * UnitCost(purchases[p], i), Cent)]
  <1>1. claims' = [claims EXCEPT ![r] = row] /\ UNCHANGED <<purchases, advances, allocations, refunds>>
    BY DEF PostPurchaseReturn
  <1>2. IsPosted(purchases, p) /\ ~IsPosted(claims, r)
    BY DEF PostPurchaseReturn, Free, IsPosted
  <1>3. DOMAIN row = ClaimFields
    BY DEF ClaimFields
  <1>4. Rows'
    BY <1>1, <1>3, FilledRow DEF SourceInv, Rows
  <1>5. /\ claims'[r].status = "POSTED" /\ claims'[r].purchase = p
        /\ \A k \in Claim \ {r} : claims'[k] = claims[k]
        /\ DOMAIN claims = Claim /\ DOMAIN claims' = Claim
    BY <1>1 DEF SourceInv, Rows, Shaped
  <1>6. References'
    BY <1>1, <1>5 DEF SourceInv, References, Posted, IsPosted
  <1>7. NothingOutlivesItsSource'
    BY <1>1, <1>2, <1>5 DEF SourceInv, References, NothingOutlivesItsSource, Posted, IsPosted
  <1> QED
    BY <1>4, <1>6, <1>7 DEF SourceInv

\* No posted refund is left when its claim is reversed.
LEMMA ReverseReturnKeeps ==
  ASSUME SourceInv, NEW r \in Claim, ReversePurchaseReturn(r)
  PROVE  SourceInv'
  <1>1. claims' = [claims EXCEPT ![r].status = "REVERSED"]
        /\ UNCHANGED <<purchases, advances, allocations, refunds>>
    BY DEF ReversePurchaseReturn
  <1>2. ~Free(claims, r)
    BY DEF ReversePurchaseReturn, IsPosted, Free
  <1>3. /\ Shaped(claims', Claim, ClaimFields)
        /\ claims'[r].status = "REVERSED"
        /\ \A k \in Claim \ {r} : claims'[k] = claims[k]
    <2>1. Shaped(claims, Claim, ClaimFields)
      BY DEF SourceInv, Rows
    <2>2. DOMAIN claims[r] = ClaimFields
      BY <1>2, <2>1 DEF Shaped, Free, Absent
    <2> QED
      BY <1>1, <2>1, <2>2 DEF Shaped, ClaimFields
  <1>4. DOMAIN claims = Claim /\ DOMAIN claims' = Claim
    BY <1>3 DEF SourceInv, Rows, Shaped
  <1>5. \A f \in Posted(refunds) : refunds[f].claim # r
    BY DEF ReversePurchaseReturn, RefundsOf
  <1>6. Rows'
    BY <1>1, <1>3 DEF SourceInv, Rows
  <1>7. References'
    BY <1>1, <1>3, <1>4 DEF SourceInv, References, Posted, IsPosted
  <1>8. NothingOutlivesItsSource'
    BY <1>1, <1>3, <1>4, <1>5 DEF SourceInv, References, NothingOutlivesItsSource, Posted, IsPosted
  <1> QED
    BY <1>6, <1>7, <1>8 DEF SourceInv

\* A refund is made of a posted claim.
LEMMA CreateRefundKeeps ==
  ASSUME SourceInv, NEW f \in Refund, NEW r \in Claim, NEW c, NEW rate, NEW n,
         CreateSupplierRefund(f, r, c, rate, n)
  PROVE  SourceInv'
  <1> DEFINE row == [status |-> "POSTED", claim |-> r, amount |-> n, currency |-> c,
                     paid |-> PaidIn(r, c, rate, n)]
  <1>1. refunds' = [refunds EXCEPT ![f] = row] /\ UNCHANGED <<purchases, advances, allocations, claims>>
    BY DEF CreateSupplierRefund
  <1>2. IsPosted(claims, r)
    BY DEF CreateSupplierRefund
  <1>3. DOMAIN row = RefundFields
    BY DEF RefundFields
  <1>4. Rows'
    BY <1>1, <1>3, FilledRow DEF SourceInv, Rows
  <1>5. /\ refunds'[f].claim = r
        /\ \A g \in Refund \ {f} : refunds'[g] = refunds[g]
        /\ DOMAIN refunds = Refund /\ DOMAIN refunds' = Refund
    BY <1>1 DEF SourceInv, Rows, Shaped
  <1>6. References'
    BY <1>1, <1>5 DEF SourceInv, References, Posted, IsPosted
  <1>7. NothingOutlivesItsSource'
    BY <1>1, <1>2, <1>5 DEF SourceInv, References, NothingOutlivesItsSource, Posted, IsPosted
  <1> QED
    BY <1>4, <1>6, <1>7 DEF SourceInv

\* Fewer refunds are posted after the reversal of one.
LEMMA ReverseRefundKeeps ==
  ASSUME SourceInv, NEW f \in Refund, ReverseSupplierRefund(f)
  PROVE  SourceInv'
  <1>1. refunds' = [refunds EXCEPT ![f].status = "REVERSED"]
        /\ UNCHANGED <<purchases, advances, allocations, claims>>
    BY DEF ReverseSupplierRefund
  <1>2. ~Free(refunds, f)
    BY DEF ReverseSupplierRefund, IsPosted, Free
  <1>3. /\ Shaped(refunds', Refund, RefundFields)
        /\ refunds'[f].status = "REVERSED"
        /\ \A g \in Refund \ {f} : refunds'[g] = refunds[g]
    <2>1. Shaped(refunds, Refund, RefundFields)
      BY DEF SourceInv, Rows
    <2>2. DOMAIN refunds[f] = RefundFields
      BY <1>2, <2>1 DEF Shaped, Free, Absent
    <2> QED
      BY <1>1, <2>1, <2>2 DEF Shaped, RefundFields
  <1>4. DOMAIN refunds = Refund /\ DOMAIN refunds' = Refund
    BY <1>3 DEF SourceInv, Rows, Shaped
  <1>5. Rows'
    BY <1>1, <1>3 DEF SourceInv, Rows
  <1>6. References'
    BY <1>1, <1>3, <1>4 DEF SourceInv, References, Posted, IsPosted
  <1>7. NothingOutlivesItsSource'
    BY <1>1, <1>3, <1>4 DEF SourceInv, References, NothingOutlivesItsSource, Posted, IsPosted
  <1> QED
    BY <1>5, <1>6, <1>7 DEF SourceInv
-----------------------------------------------------------------------------
\* Every step keeps the invariant.
LEMMA SourceInvStep == SourceInv /\ [Next]_vars => SourceInv'
  <1> SUFFICES ASSUME SourceInv, [Next]_vars PROVE SourceInv'
    OBVIOUS
  <1>1. CASE PurchaseStep
    <2>1. PICK p \in Purchase :
            \/ \E row \in Draft : SavePurchase(p, row)
            \/ PostPurchase(p)
      BY <1>1 DEF PurchaseStep
    <2>2. ASSUME NEW row \in Draft, SavePurchase(p, row) PROVE SourceInv'
      <3>1. DOMAIN row = PurchaseFields /\ row.status = "DRAFT"
        BY DEF Draft, PurchaseFields
      <3> QED
        BY <2>2, <3>1, SavePurchaseKeeps
    <2> QED
      BY <2>1, <2>2, PostPurchaseKeeps
  <1>2. CASE AdvanceStep
    BY <1>2, CreateAdvanceKeeps, ReverseAdvanceKeeps, AllocateKeeps, ReverseAllocationKeeps DEF AdvanceStep
  <1>3. CASE ClaimStep
    <2>1. Posted(purchases) \subseteq Purchase
      BY DEF SourceInv, Rows, Shaped, Posted
    <2> QED
      BY <1>3, <2>1, PostReturnKeeps, ReverseReturnKeeps DEF ClaimStep
  <1>4. CASE RefundStep
    BY <1>4, CreateRefundKeeps, ReverseRefundKeeps DEF RefundStep
  <1>5. CASE UNCHANGED vars
    BY <1>5 DEF vars, SourceInv, Rows, References, NothingOutlivesItsSource, Posted, IsPosted
  <1> QED
    BY <1>1, <1>2, <1>3, <1>4, <1>5 DEF Next

\* However advances, allocations, returns and refunds are made and taken back,
\* a posted document stands on posted documents of its own supplier and
\* currency.
THEOREM SourcesStand == Spec => []NothingOutlivesItsSource
  <1>1. SourceInv => NothingOutlivesItsSource
    BY DEF SourceInv
  <1> QED
    BY <1>1, SourceInvInit, SourceInvStep, PTL DEF Spec
-----------------------------------------------------------------------------
\* Half-up division stays within half a divisor.
LEMMA Division ==
  ASSUME NEW n \in Int, NEW d \in Nat \ {0}
  PROVE  n \div d \in Int /\ d * (n \div d) <= n /\ n < d * (n \div d) + d
  OBVIOUS

LEMMA HalfUpIs ==
  ASSUME NEW n \in Int, NEW d \in Nat \ {0}
  PROVE  /\ HalfUp(n, d) \in Int
         /\ 2 * (d * HalfUp(n, d)) <= 2 * n + d
         /\ 2 * n < 2 * (d * HalfUp(n, d)) + d
  <1> DEFINE N == 2 * n + d
             D == 2 * d
             Q == N \div D
  <1>1. N \in Int /\ D \in Nat \ {0}
    OBVIOUS
  <1>2. Q \in Int /\ D * Q <= N /\ N < D * Q + D
    <2> HIDE DEF N, D
    <2> QED
      BY <1>1, Division
  <1>3. D * Q = 2 * (d * Q)
    <2> HIDE DEF N
    <2> QED
      BY <1>2
  <1> QED
    BY <1>2, <1>3 DEF HalfUp

LEMMA HalfUpNat ==
  ASSUME NEW n \in Nat, NEW d \in Nat \ {0}
  PROVE  HalfUp(n, d) \in Nat
  <1> DEFINE h == HalfUp(n, d)
  <1>1. h \in Int /\ 0 <= 2 * n /\ 2 * n < 2 * (d * h) + d
    BY HalfUpIs
  <1> HIDE DEF h
  <1>2. h < 0 => d * h <= -d
    BY <1>1
  <1> QED
    BY <1>1, <1>2 DEF h

LEMMA MinOfTwo ==
  ASSUME NEW a \in Int, NEW b \in Int
  PROVE  Min({a, b}) = IF a <= b THEN a ELSE b
  BY DEF Min

\* The lines of a draft.
LEMMA LinesTyped ==
  ASSUME NEW lines \in Lines
  PROVE  /\ Len(lines) \in Nat /\ DOMAIN lines = 1 .. Len(lines) /\ IsFiniteSet(DOMAIN lines)
         /\ \A i \in DOMAIN lines : /\ lines[i].gross \in Nat /\ lines[i].weight \in Nat \ {0}
                                    /\ lines[i].quantity \in Nat \ {0}
  <1>1. lines \in Seq([quantity: Nat \ {0}, gross: Nat, weight: Nat \ {0}])
    BY SupplierAssumption
  <1>2. Len(lines) \in Nat /\ DOMAIN lines = 1 .. Len(lines)
    BY <1>1, LenProperties
  <1>3. IsFiniteSet(DOMAIN lines)
    BY <1>2, FS_Interval
  <1>4. \A i \in DOMAIN lines : lines[i] \in [quantity: Nat \ {0}, gross: Nat, weight: Nat \ {0}]
    BY <1>1, ElementOfSeq, <1>2
  <1> QED
    BY <1>2, <1>3, <1>4

LEMMA LineSums ==
  ASSUME NEW lines \in Lines
  PROVE  /\ Gross(lines) \in Nat /\ Weight(lines) \in Nat
         /\ DOMAIN lines # {} => Weight(lines) \in Nat \ {0}
  <1> DEFINE S == DOMAIN lines
             f == [i \in S |-> lines[i].gross]
             g == [i \in S |-> lines[i].weight]
  <1>1. IsFiniteSet(S) /\ (\A i \in S : f[i] \in Nat) /\ \A i \in S : g[i] \in Nat \ {0}
    BY LinesTyped
  <1>2. Gross(lines) = SumFunctionOnSet(f, S) /\ Weight(lines) = SumFunctionOnSet(g, S)
    BY DEF Gross, Weight, Sum
  <1> HIDE DEF S, f, g
  <1>3. SumFunctionOnSet(f, S) \in Nat
    BY <1>1, SumNat
  <1>4. SumFunctionOnSet(g, S) \in Nat
    BY <1>1, SumNat
  <1>5. S # {} => SumFunctionOnSet(g, S) # 0
    <2> SUFFICES ASSUME S # {} PROVE SumFunctionOnSet(g, S) # 0
      OBVIOUS
    <2>1. PICK i \in S : TRUE
      OBVIOUS
    <2>2. g[i] <= SumFunctionOnSet(g, S)
      BY <1>1, SumAtLeast
    <2> QED
      BY <1>1, <1>4, <2>1, <2>2
  <1> QED
    BY <1>2, <1>3, <1>4, <1>5 DEF S
-----------------------------------------------------------------------------
(* What FreightShares has given out up to a line. *)
Rounded(lines, freight, i) == HalfUp(freight * lines[i].weight, Weight(lines))
UpToAt(lines, freight, f, i) ==
  IF i = 0 THEN 0 ELSE Min({f[i - 1] + Rounded(lines, freight, i), freight})

\* The recursion of FreightShares has a solution, whose values are within the freight.
LEMMA UpToExists ==
  ASSUME NEW lines, NEW freight, NEW n \in Nat
  PROVE  \E f : f = [i \in 0 .. n |-> UpToAt(lines, freight, f, i)]
  <1> DEFINE Good(m) == \E g : \A i \in 0 .. m : g[i] = UpToAt(lines, freight, g, i)
             Bad == {m \in Nat : ~Good(m)}
  <1>1. Good(0)
    <2> DEFINE g == [i \in {0} |-> 0]
    <2>1. \A i \in 0 .. 0 : g[i] = UpToAt(lines, freight, g, i)
      BY DEF UpToAt
    <2> HIDE DEF g
    <2> QED
      BY <2>1
  <1>2. ASSUME NEW m \in Nat, Good(m) PROVE Good(m + 1)
    <2>1. PICK g : \A i \in 0 .. m : g[i] = UpToAt(lines, freight, g, i)
      BY <1>2
    <2> DEFINE h == [i \in 0 .. (m + 1) |-> UpToAt(lines, freight, g, i)]
    <2>2. \A i \in 0 .. m : h[i] = g[i]
      BY <2>1
    <2>3. \A i \in 0 .. (m + 1) : h[i] = UpToAt(lines, freight, g, i)
      OBVIOUS
    <2> HIDE DEF h
    <2>4. \A i \in 0 .. (m + 1) : UpToAt(lines, freight, g, i) = UpToAt(lines, freight, h, i)
      <3> SUFFICES ASSUME NEW i \in 0 .. (m + 1), i # 0
                   PROVE  UpToAt(lines, freight, g, i) = UpToAt(lines, freight, h, i)
        BY DEF UpToAt
      <3>1. i - 1 \in 0 .. m
        OBVIOUS
      <3> QED
        BY <2>2, <3>1 DEF UpToAt
    <2> QED
      BY <2>3, <2>4
  <1> HIDE DEF Good
  <1>3. Bad = {}
    <2> SUFFICES ASSUME Bad # {} PROVE FALSE
      OBVIOUS
    <2>1. PICK m \in Bad : \A k \in Bad : m <= k
      BY LeastNatural
    <2>2. m # 0 /\ m - 1 \in Nat /\ ~(m - 1 \in Bad)
      BY <1>1, <2>1
    <2> QED
      BY <1>2, <2>2
  <1>4. Good(n)
    BY <1>3
  <1>5. PICK g : \A i \in 0 .. n : g[i] = UpToAt(lines, freight, g, i)
    BY <1>4 DEF Good
  <1> DEFINE f == [i \in 0 .. n |-> g[i]]
  <1>6. \A i \in 0 .. n : f[i] = g[i]
    OBVIOUS
  <1>7. \A i \in 0 .. n : UpToAt(lines, freight, g, i) = UpToAt(lines, freight, f, i)
    <2> HIDE DEF f
    <2> SUFFICES ASSUME NEW i \in 0 .. n, i # 0
                 PROVE  UpToAt(lines, freight, g, i) = UpToAt(lines, freight, f, i)
      BY DEF UpToAt
    <2>1. i - 1 \in 0 .. n
      OBVIOUS
    <2> QED
      BY <1>6, <2>1 DEF UpToAt
  <1>8. f = [i \in 0 .. n |-> UpToAt(lines, freight, f, i)]
    <2>1. [i \in 0 .. n |-> g[i]] = [i \in 0 .. n |-> UpToAt(lines, freight, f, i)]
      <3> HIDE DEF f
      <3> QED
        BY <1>5, <1>7
    <2> QED
      BY <2>1
  <1> QED
    BY <1>8

\* A line's part of the freight is a number of cents that is not negative.
LEMMA FreightSharesAreNat ==
  ASSUME NEW lines \in Lines, NEW freight \in Nat, NEW i \in DOMAIN lines
  PROVE  FreightShares(lines, freight)[i] \in Nat
  <1> DEFINE n == Len(lines)
             u == CHOOSE f : f = [j \in 0 .. n |-> UpToAt(lines, freight, f, j)]
  <1>1. n \in Nat /\ DOMAIN lines = 1 .. n /\ \A j \in DOMAIN lines : lines[j].weight \in Nat \ {0}
    BY LinesTyped
  <1>2. u = [j \in 0 .. n |-> UpToAt(lines, freight, u, j)]
    <2>0. n \in Nat
      BY <1>1
    <2> HIDE DEF n
    <2>1. \E f : f = [j \in 0 .. n |-> UpToAt(lines, freight, f, j)]
      BY ONLY <2>0, UpToExists, Zenon
    <2> QED
      BY <2>1
  <1>3. FreightShares(lines, freight)
          = [j \in 1 .. n |-> IF j < n THEN u[j] - u[j - 1] ELSE freight - u[n - 1]]
    BY Zenon DEF FreightShares, UpToAt, Rounded
  <1> HIDE DEF n, u
  <1>4. \A j \in 1 .. n : Rounded(lines, freight, j) \in Nat
    <2> SUFFICES ASSUME NEW j \in 1 .. n PROVE Rounded(lines, freight, j) \in Nat
      OBVIOUS
    <2>1. Weight(lines) \in Nat \ {0}
      BY <1>1, LineSums
    <2>2. freight * lines[j].weight \in Nat
      BY <1>1
    <2> QED
      BY <2>1, <2>2, HalfUpNat DEF Rounded
  <1> DEFINE Within(j) == u[j] \in Nat /\ u[j] <= freight
             Bad == {j \in 0 .. n : ~Within(j)}
  <1>5. u[0] = 0 /\ \A j \in 1 .. n : u[j] = Min({u[j - 1] + Rounded(lines, freight, j), freight})
    <2>1. \A j \in 0 .. n : u[j] = UpToAt(lines, freight, u, j)
      BY <1>2
    <2>2. 0 \in 0 .. n /\ \A j \in 1 .. n : j \in 0 .. n /\ j # 0
      BY <1>1
    <2> QED
      BY <2>1, <2>2 DEF UpToAt
  <1>6. \A j \in 1 .. n : Within(j - 1) => Within(j) /\ u[j - 1] <= u[j]
    <2> SUFFICES ASSUME NEW j \in 1 .. n, Within(j - 1) PROVE Within(j) /\ u[j - 1] <= u[j]
      OBVIOUS
    <2> DEFINE r == Rounded(lines, freight, j)
    <2>1. r \in Nat /\ u[j] = Min({u[j - 1] + r, freight})
      BY <1>4, <1>5
    <2> HIDE DEF r
    <2>2. u[j] = IF u[j - 1] + r <= freight THEN u[j - 1] + r ELSE freight
      BY <2>1, MinOfTwo
    <2> QED
      BY <2>1, <2>2
  <1>7. Within(0)
    BY <1>5
  <1> HIDE DEF Within
  <1>8. Bad = {}
    <2> SUFFICES ASSUME Bad # {} PROVE FALSE
      OBVIOUS
    <2>1. PICK m \in Bad : \A k \in Bad : m <= k
      <3>1. Bad \in SUBSET Nat
        BY <1>1
      <3> HIDE DEF Bad
      <3> QED
        BY <3>1, LeastNatural
    <2>2. m # 0 /\ m \in 1 .. n /\ m - 1 \in 0 .. n /\ ~(m - 1 \in Bad)
      BY <1>1, <1>7, <2>1
    <2> QED
      BY <1>6, <2>2
  <1>9. i \in 1 .. n /\ i - 1 \in 0 .. n /\ n - 1 \in 0 .. n
    BY <1>1
  <1>10. Within(i) /\ Within(i - 1) /\ Within(n - 1) /\ u[i - 1] <= u[i]
    BY <1>6, <1>8, <1>9
  <1> QED
    BY SMTT(30), <1>3, <1>9, <1>10 DEF Within
-----------------------------------------------------------------------------
(* The types of the rows, with what a purchase and a claim say of themselves. *)
Filled(rows) == {i \in DOMAIN rows : ~Free(rows, i)}

FiniteRows ==
  /\ IsFiniteSet(Filled(purchases)) /\ IsFiniteSet(Filled(advances))
  /\ IsFiniteSet(Filled(allocations)) /\ IsFiniteSet(Filled(claims)) /\ IsFiniteSet(Filled(refunds))

PurchasesRecordable == \A p \in Purchase : ~Free(purchases, p) => Recordable(purchases[p])

\* A claim, reversed or not, is on a line of a posted purchase, at its unit cost.
ClaimAt(rows, c, p) ==
  /\ IsPosted(rows, p)
  /\ c.line \in DOMAIN rows[p].lines
  /\ c.amount = HalfUp(c.quantity * UnitCost(rows[p], c.line), Cent)

ClaimsStand ==
  \A r \in Claim : ~Free(claims, r) =>
    claims[r].purchase \in Purchase /\ ClaimAt(purchases, claims[r], claims[r].purchase)

DocInv == TypeOK /\ FiniteRows /\ PurchasesRecordable /\ ClaimsStand

Table(rows, ids, T) == rows \in [ids -> T \cup {Absent}]
Written(rows, i, row) == [rows EXCEPT ![i] = row]

Wrote(X, Y, ids, i, row) ==
  /\ DOMAIN X = ids /\ DOMAIN Y = ids
  /\ Y[i] = row /\ \A j \in ids : j # i => Y[j] = X[j]
  /\ Posted(Y) \ {i} = Posted(X) \ {i}

\* One row of a table is written.
LEMMA RowWritten ==
  ASSUME NEW ids, NEW T, NEW X, Table(X, ids, T), NEW i \in ids, NEW row \in T,
         NEW Y, Y = Written(X, i, row)
  PROVE  /\ Table(Y, ids, T)
         /\ Wrote(X, Y, ids, i, row)
         /\ IsFiniteSet(Filled(X)) => IsFiniteSet(Filled(Y))
  <1>1. /\ Table(Y, ids, T)
        /\ DOMAIN X = ids /\ DOMAIN Y = ids
        /\ Y[i] = row /\ \A j \in ids : j # i => Y[j] = X[j]
    BY DEF Written, Table
  <1>2. Posted(Y) \ {i} = Posted(X) \ {i}
    BY <1>1 DEF Posted, IsPosted
  <1>3. Filled(Y) \in SUBSET (Filled(X) \cup {i})
    BY <1>1 DEF Filled, Free
  <1>4. IsFiniteSet(Filled(X)) => IsFiniteSet(Filled(Y))
    BY <1>3, FS_AddElement, FS_Subset
  <1> QED
    BY <1>1, <1>2, <1>4 DEF Wrote

\* A journal is a balance for each account, supplier and currency.
LEMMA JournalTyped ==
  ASSUME NEW debit, NEW credit, NEW s, NEW c, NEW n \in Int
  PROVE  Journal(debit, credit, s, c, n) \in [Account \X Supplier \X Currency -> Int]
  BY DEF Journal

LEMMA BookTyped ==
  ASSUME gl \in [Account \X Supplier \X Currency -> Int],
         NEW f \in [Account \X Supplier \X Currency -> Int], Book(f) \/ Mirror(f)
  PROVE  gl' \in [Account \X Supplier \X Currency -> Int]
  BY DEF Book, Mirror

LEMMA Numbers ==
  /\ \A n \in Amount : n \in Nat /\ n > 0
  /\ \A q \in Quantity : q \in Nat /\ q > 0
  /\ \A rate \in Rate : rate[1] \in Nat \ {0} /\ rate[2] \in Nat \ {0}
  /\ Cent \in Nat \ {0}
  <1>1. Amount \subseteq Nat \ {0} /\ Quantity \subseteq Nat \ {0} /\ Cent \in Nat \ {0}
    BY SupplierAssumption, Zenon
  <1>2. Rate \subseteq (Nat \ {0}) \X (Nat \ {0})
    BY SupplierAssumption, Zenon
  <1>3. \A rate \in Rate : rate[1] \in Nat \ {0} /\ rate[2] \in Nat \ {0}
    BY <1>2
  <1> QED
    BY <1>1, <1>3

\* The amounts of a purchase that can be recorded.
LEMMA TotalIsInt ==
  ASSUME NEW row \in PurchaseRow
  PROVE  TotalOf(row) \in Int
  <1>1. row.lines \in Lines /\ row.discount \in Nat /\ row.freight \in Nat
    BY SupplierAssumption DEF PurchaseRow
  <1> QED
    BY <1>1, LineSums DEF TotalOf

LEMMA CostsAreNat ==
  ASSUME NEW row \in PurchaseRow, Recordable(row), NEW i \in DOMAIN row.lines
  PROVE  /\ LineCost(row, i) \in Nat /\ UnitCost(row, i) \in Nat
         /\ row.lines[i].quantity \in Nat \ {0} /\ i \in Nat \ {0}
  <1>1. row.lines \in Lines /\ row.discount \in Nat /\ row.freight \in Nat
    BY SupplierAssumption DEF PurchaseRow
  <1>2. row.lines[i].gross \in Nat /\ row.lines[i].quantity \in Nat \ {0} /\ i \in Nat \ {0}
    BY <1>1, LinesTyped
  <1>3. DiscountShares(row.lines, row.discount)[i] \in 0 .. row.lines[i].gross
    BY DEF Recordable
  <1>4. FreightShares(row.lines, row.freight)[i] \in Nat
    BY <1>1, FreightSharesAreNat
  <1>5. LineCost(row, i) \in Nat
    BY <1>2, <1>3, <1>4 DEF LineCost
  <1>6. Cent * LineCost(row, i) \in Nat
    BY <1>5, SupplierAssumption
  <1>7. UnitCost(row, i) \in Nat
    BY <1>2, <1>6, HalfUpNat DEF UnitCost
  <1> QED
    BY <1>2, <1>5, <1>7

\* A posted purchase is not rewritten.
LEMMA ClaimsStay ==
  ASSUME ClaimsStand, UNCHANGED claims, \A q \in Posted(purchases) : purchases'[q] = purchases[q],
         DOMAIN purchases = Purchase
  PROVE  ClaimsStand'
  <1> SUFFICES ASSUME NEW r \in Claim, ~Free(claims, r)
               PROVE  claims[r].purchase \in Purchase /\ ClaimAt(purchases', claims[r], claims[r].purchase)
    BY DEF ClaimsStand, Free
  <1>1. claims[r].purchase \in Purchase /\ ClaimAt(purchases, claims[r], claims[r].purchase)
    BY DEF ClaimsStand
  <1>2. claims[r].purchase \in Posted(purchases)
    BY <1>1 DEF ClaimAt, Posted
  <1>3. purchases'[claims[r].purchase] = purchases[claims[r].purchase]
    BY <1>2
  <1> QED
    BY <1>1, <1>3 DEF ClaimAt, IsPosted

LEMMA DocInvInit == Init => DocInv
  <1> SUFFICES ASSUME Init PROVE DocInv
    OBVIOUS
  <1>1. TypeOK
    BY DEF Init, TypeOK
  <1>2. /\ Filled(purchases) = {} /\ Filled(advances) = {} /\ Filled(allocations) = {}
        /\ Filled(claims) = {} /\ Filled(refunds) = {}
    BY DEF Init, Filled, Free, Absent
  <1>3. FiniteRows
    BY <1>2, FS_EmptySet DEF FiniteRows
  <1>4. PurchasesRecordable /\ ClaimsStand
    BY DEF Init, PurchasesRecordable, ClaimsStand, Free, Absent
  <1> QED
    BY <1>1, <1>3, <1>4 DEF DocInv

\* Saving a draft.
LEMMA SaveTyped ==
  ASSUME DocInv, NEW p \in Purchase, NEW row \in PurchaseRow, SavePurchase(p, row)
  PROVE  DocInv' /\ \A q \in Posted(purchases) : purchases'[q] = purchases[q]
  <1>1. purchases' = Written(purchases, p, row) /\ Recordable(row)
        /\ UNCHANGED <<gl, advances, allocations, claims, refunds>> /\ ~IsPosted(purchases, p)
    BY DEF SavePurchase, IsPosted, Written
  <1>2. /\ Table(purchases, Purchase, PurchaseRow)
        /\ IsFiniteSet(Filled(purchases))
    BY DEF DocInv, TypeOK, FiniteRows, Table
  <1>3. /\ Table(purchases', Purchase, PurchaseRow) /\ DOMAIN purchases = Purchase
        /\ purchases'[p] = row /\ \A q \in Purchase : q # p => purchases'[q] = purchases[q]
        /\ IsFiniteSet(Filled(purchases'))
    BY <1>1, <1>2, RowWritten DEF Wrote
  <1>4. \A q \in Posted(purchases) : purchases'[q] = purchases[q]
    BY <1>1, <1>3 DEF Posted, IsPosted
  <1>5. TypeOK' /\ FiniteRows'
    BY <1>1, <1>3 DEF DocInv, TypeOK, FiniteRows, Table
  <1>6. PurchasesRecordable'
    BY <1>1, <1>3 DEF DocInv, PurchasesRecordable, Free
  <1>7. ClaimsStand'
    BY <1>1, <1>3, <1>4, ClaimsStay DEF DocInv
  <1> QED
    BY <1>4, <1>5, <1>6, <1>7 DEF DocInv

\* Posting a purchase.
LEMMA PostTyped ==
  ASSUME DocInv, NEW p \in Purchase, PostPurchase(p)
  PROVE  /\ DocInv' /\ \A q \in Posted(purchases) : purchases'[q] = purchases[q]
         /\ purchases[p] \in PurchaseRow
         /\ purchases'[p] = [purchases[p] EXCEPT !.status = "POSTED"]
         /\ purchases'[p] \in PurchaseRow /\ purchases'[p].status = "POSTED"
         /\ purchases'[p].supplier = purchases[p].supplier /\ purchases'[p].currency = purchases[p].currency
         /\ TotalOf(purchases'[p]) = TotalOf(purchases[p])
         /\ \A q \in Purchase : q # p => purchases'[q] = purchases[q]
         /\ DOMAIN purchases = Purchase /\ DOMAIN purchases' = Purchase
  <1> DEFINE row == [purchases[p] EXCEPT !.status = "POSTED"]
  <1>1. /\ purchases' = Written(purchases, p, row) /\ purchases[p].status = "DRAFT"
        /\ UNCHANGED <<advances, allocations, claims, refunds>> /\ Total(p) > 0
        /\ Book(PurchaseJournal(purchases[p]))
    BY DEF PostPurchase, Written
  <1>2. /\ Table(purchases, Purchase, PurchaseRow)
        /\ IsFiniteSet(Filled(purchases)) /\ gl \in [Account \X Supplier \X Currency -> Int]
    BY DEF DocInv, TypeOK, FiniteRows, Table
  <1>3. purchases[p] \in PurchaseRow
    BY <1>1, <1>2 DEF Absent, Table
  <1>4. /\ row \in PurchaseRow /\ row.status = "POSTED" /\ row.lines = purchases[p].lines
        /\ row.discount = purchases[p].discount /\ row.freight = purchases[p].freight
        /\ row.supplier = purchases[p].supplier /\ row.currency = purchases[p].currency
    BY <1>3 DEF PurchaseRow
  <1> HIDE DEF row
  <1>5. /\ Table(purchases', Purchase, PurchaseRow)
        /\ DOMAIN purchases = Purchase /\ DOMAIN purchases' = Purchase
        /\ purchases'[p] = row /\ \A q \in Purchase : q # p => purchases'[q] = purchases[q]
        /\ IsFiniteSet(Filled(purchases'))
    BY <1>1, <1>2, <1>4, RowWritten DEF Wrote
  <1>6. \A q \in Posted(purchases) : purchases'[q] = purchases[q]
    BY <1>1, <1>5 DEF Posted, IsPosted
  <1>7. gl' \in [Account \X Supplier \X Currency -> Int]
    <2>1. PurchaseJournal(purchases[p]) \in [Account \X Supplier \X Currency -> Int]
      BY <1>3, TotalIsInt, JournalTyped DEF PurchaseJournal
    <2> QED
      BY <1>1, <1>2, <2>1, BookTyped
  <1>8. TypeOK' /\ FiniteRows'
    BY <1>1, <1>5, <1>7 DEF DocInv, TypeOK, FiniteRows, Table
  <1>9. PurchasesRecordable'
    <2>1. Recordable(purchases[p])
      BY <1>1 DEF DocInv, PurchasesRecordable, Free
    <2>2. Recordable(row)
      BY <1>4, <2>1 DEF Recordable
    <2> QED
      BY <1>5, <2>2 DEF DocInv, PurchasesRecordable, Free
  <1>10. ClaimsStand'
    BY <1>1, <1>5, <1>6, ClaimsStay DEF DocInv
  <1>11. TotalOf(row) = TotalOf(purchases[p])
    BY <1>4 DEF TotalOf
  <1> QED
    BY <1>3, <1>4, <1>5, <1>6, <1>8, <1>9, <1>10, <1>11 DEF DocInv, row

\* Advances and their allocations.
LEMMA AdvanceTyped ==
  ASSUME DocInv, NEW a \in Advance, NEW row \in AdvanceRow,
         advances' = Written(advances, a, row), Book(AdvanceJournal(row)) \/ Mirror(AdvanceJournal(row)),
         UNCHANGED <<purchases, allocations, claims, refunds>>
  PROVE  DocInv' /\ Wrote(advances, advances', Advance, a, row)
  <1>1. /\ Table(advances, Advance, AdvanceRow) /\ IsFiniteSet(Filled(advances))
        /\ gl \in [Account \X Supplier \X Currency -> Int] /\ DOMAIN purchases = Purchase
    BY DEF DocInv, TypeOK, FiniteRows, Table
  <1>2. /\ Table(advances', Advance, AdvanceRow) /\ IsFiniteSet(Filled(advances'))
        /\ Wrote(advances, advances', Advance, a, row)
    BY <1>1, RowWritten
  <1>3. row.amount \in Int
    <2>1. row.amount \in Amount
      BY DEF AdvanceRow
    <2> QED
      BY <2>1, Numbers
  <1>4. gl' \in [Account \X Supplier \X Currency -> Int]
    <2>1. AdvanceJournal(row) \in [Account \X Supplier \X Currency -> Int]
      BY <1>3, JournalTyped DEF AdvanceJournal
    <2> QED
      BY <1>1, <2>1, BookTyped
  <1>5. TypeOK' /\ FiniteRows' /\ PurchasesRecordable'
    BY <1>2, <1>4 DEF DocInv, TypeOK, FiniteRows, PurchasesRecordable, Table
  <1>6. ClaimsStand'
    BY <1>1, ClaimsStay DEF DocInv
  <1> QED
    BY <1>2, <1>5, <1>6 DEF DocInv

LEMMA AllocationTyped ==
  ASSUME DocInv, NEW x \in Allocation, NEW row \in AllocationRow,
         allocations' = Written(allocations, x, row),
         Book(AllocationJournal(row)) \/ Mirror(AllocationJournal(row)),
         UNCHANGED <<purchases, advances, claims, refunds>>
  PROVE  DocInv' /\ Wrote(allocations, allocations', Allocation, x, row)
  <1>1. /\ Table(allocations, Allocation, AllocationRow) /\ IsFiniteSet(Filled(allocations))
        /\ gl \in [Account \X Supplier \X Currency -> Int] /\ DOMAIN purchases = Purchase
    BY DEF DocInv, TypeOK, FiniteRows, Table
  <1>2. /\ Table(allocations', Allocation, AllocationRow) /\ IsFiniteSet(Filled(allocations'))
        /\ Wrote(allocations, allocations', Allocation, x, row)
    BY <1>1, RowWritten
  <1>3. row.amount \in Int
    <2>1. row.amount \in Amount
      BY DEF AllocationRow
    <2> QED
      BY <2>1, Numbers
  <1>4. gl' \in [Account \X Supplier \X Currency -> Int]
    <2>1. AllocationJournal(row) \in [Account \X Supplier \X Currency -> Int]
      BY <1>3, JournalTyped DEF AllocationJournal
    <2> QED
      BY <1>1, <2>1, BookTyped
  <1>5. TypeOK' /\ FiniteRows' /\ PurchasesRecordable'
    BY <1>2, <1>4 DEF DocInv, TypeOK, FiniteRows, PurchasesRecordable, Table
  <1>6. ClaimsStand'
    BY <1>1, ClaimsStay DEF DocInv
  <1> QED
    BY <1>2, <1>5, <1>6 DEF DocInv

\* Claims and their refunds.
LEMMA ClaimTyped ==
  ASSUME DocInv, NEW r \in Claim, NEW row \in ClaimRow,
         claims' = Written(claims, r, row), Book(ClaimJournal(row)) \/ Mirror(ClaimJournal(row)),
         row.purchase \in Purchase, ClaimAt(purchases, row, row.purchase),
         UNCHANGED <<purchases, advances, allocations, refunds>>
  PROVE  DocInv' /\ Wrote(claims, claims', Claim, r, row)
  <1>1. /\ Table(claims, Claim, ClaimRow) /\ IsFiniteSet(Filled(claims))
        /\ gl \in [Account \X Supplier \X Currency -> Int]
    BY DEF DocInv, TypeOK, FiniteRows, Table
  <1>2. /\ Table(claims', Claim, ClaimRow) /\ IsFiniteSet(Filled(claims'))
        /\ Wrote(claims, claims', Claim, r, row)
    BY <1>1, RowWritten
  <1>3. row.amount \in Int
    BY DEF ClaimRow
  <1>4. gl' \in [Account \X Supplier \X Currency -> Int]
    <2>1. ClaimJournal(row) \in [Account \X Supplier \X Currency -> Int]
      BY <1>3, JournalTyped DEF ClaimJournal
    <2> QED
      BY <1>1, <2>1, BookTyped
  <1>5. TypeOK' /\ FiniteRows' /\ PurchasesRecordable'
    BY <1>2, <1>4 DEF DocInv, TypeOK, FiniteRows, PurchasesRecordable, Table
  <1>6. ClaimsStand'
    <2> SUFFICES ASSUME NEW k \in Claim, ~Free(claims', k)
                 PROVE  claims'[k].purchase \in Purchase /\ ClaimAt(purchases, claims'[k], claims'[k].purchase)
      BY DEF ClaimsStand, Free
    <2>2. CASE k = r
      BY <1>2, <2>2 DEF Wrote
    <2>3. CASE k # r
      BY <1>2, <2>3 DEF Wrote, DocInv, ClaimsStand, Free
    <2> QED
      BY <2>2, <2>3
  <1> QED
    BY <1>2, <1>5, <1>6 DEF DocInv

LEMMA RefundTyped ==
  ASSUME DocInv, NEW f \in Refund, NEW row \in RefundRow,
         refunds' = Written(refunds, f, row), Book(RefundJournal(row)) \/ Mirror(RefundJournal(row)),
         UNCHANGED <<purchases, advances, allocations, claims>>
  PROVE  DocInv' /\ Wrote(refunds, refunds', Refund, f, row)
  <1>1. /\ Table(refunds, Refund, RefundRow) /\ IsFiniteSet(Filled(refunds))
        /\ gl \in [Account \X Supplier \X Currency -> Int] /\ DOMAIN purchases = Purchase
    BY DEF DocInv, TypeOK, FiniteRows, Table
  <1>2. /\ Table(refunds', Refund, RefundRow) /\ IsFiniteSet(Filled(refunds'))
        /\ Wrote(refunds, refunds', Refund, f, row)
    BY <1>1, RowWritten
  <1>3. row.amount \in Int /\ row.paid \in Int
    <2>1. row.amount \in Amount /\ row.paid \in Nat
      BY DEF RefundRow
    <2> QED
      BY <2>1, Numbers
  <1>4. gl' \in [Account \X Supplier \X Currency -> Int]
    <2>1. RefundJournal(row) \in [Account \X Supplier \X Currency -> Int]
      <3>1. \A debit, credit, s, c : /\ Journal(debit, credit, s, c, row.amount)
                                          \in [Account \X Supplier \X Currency -> Int]
                                     /\ Journal(debit, credit, s, c, row.paid)
                                          \in [Account \X Supplier \X Currency -> Int]
        BY <1>3, JournalTyped
      <3>2. CASE row.currency = ClaimCurrency(row.claim)
        BY <3>1, <3>2 DEF RefundJournal
      <3>3. CASE row.currency # ClaimCurrency(row.claim)
        <4> DEFINE claim == Journal(Clearing, Payable, purchases[claims[row.claim].purchase].supplier,
                                    ClaimCurrency(row.claim), row.amount)
                   cash == Journal(Cash, Clearing, purchases[claims[row.claim].purchase].supplier,
                                   row.currency, row.paid)
        <4>1. RefundJournal(row) = [k \in Account \X Supplier \X Currency |-> claim[k] + cash[k]]
          BY <3>3 DEF RefundJournal
        <4>2. /\ claim \in [Account \X Supplier \X Currency -> Int]
              /\ cash \in [Account \X Supplier \X Currency -> Int]
          BY <3>1
        <4> HIDE DEF claim, cash
        <4> QED
          BY <4>1, <4>2
      <3> QED
        BY <3>2, <3>3
    <2> QED
      BY <1>1, <2>1, BookTyped
  <1>5. TypeOK' /\ FiniteRows' /\ PurchasesRecordable'
    BY <1>2, <1>4 DEF DocInv, TypeOK, FiniteRows, PurchasesRecordable, Table
  <1>6. ClaimsStand'
    BY <1>1, ClaimsStay DEF DocInv
  <1> QED
    BY <1>2, <1>5, <1>6 DEF DocInv
-----------------------------------------------------------------------------
\* The rows the actions write.
LEMMA NewAdvance ==
  ASSUME DocInv, NEW a \in Advance, NEW s \in Supplier, NEW c \in Currency, NEW n \in Amount,
         CreateSupplierAdvance(a, s, c, n)
  PROVE  \E row \in AdvanceRow :
           /\ row.status = "POSTED" /\ row.supplier = s /\ row.currency = c /\ row.amount = n
           /\ ~IsPosted(advances, a)
           /\ DocInv' /\ Wrote(advances, advances', Advance, a, row)
           /\ Book(AdvanceJournal(row)) /\ UNCHANGED <<purchases, allocations, claims, refunds>>
  <1> DEFINE row == [status |-> "POSTED", supplier |-> s, currency |-> c, amount |-> n]
  <1>1. row \in AdvanceRow /\ row.status = "POSTED" /\ row.supplier = s /\ row.currency = c /\ row.amount = n
    BY DEF AdvanceRow, Status
  <1>2. /\ advances' = Written(advances, a, row) /\ Book(AdvanceJournal(row))
        /\ UNCHANGED <<purchases, allocations, claims, refunds>> /\ ~IsPosted(advances, a)
    BY DEF CreateSupplierAdvance, Written, Free, IsPosted
  <1> HIDE DEF row
  <1>3. DocInv' /\ Wrote(advances, advances', Advance, a, row)
    BY <1>1, <1>2, AdvanceTyped
  <1> QED
    BY <1>1, <1>2, <1>3

LEMMA ReversedAdvance ==
  ASSUME DocInv, NEW a \in Advance, ReverseSupplierAdvance(a)
  PROVE  \E row \in AdvanceRow :
           /\ row.status = "REVERSED" /\ row.supplier = advances[a].supplier
           /\ row.currency = advances[a].currency /\ row.amount = advances[a].amount
           /\ IsPosted(advances, a) /\ AllocationsOf(a) = {} /\ advances[a] \in AdvanceRow
           /\ DocInv' /\ Wrote(advances, advances', Advance, a, row)
           /\ Mirror(AdvanceJournal(row)) /\ UNCHANGED <<purchases, allocations, claims, refunds>>
  <1> DEFINE row == [advances[a] EXCEPT !.status = "REVERSED"]
  <1>1. /\ advances' = Written(advances, a, row) /\ Mirror(AdvanceJournal(advances[a]))
        /\ UNCHANGED <<purchases, allocations, claims, refunds>> /\ IsPosted(advances, a) /\ AllocationsOf(a) = {}
    BY DEF ReverseSupplierAdvance, Written
  <1>2. advances[a] \in AdvanceRow
    BY <1>1 DEF DocInv, TypeOK, IsPosted, Absent
  <1>3. /\ row \in AdvanceRow /\ row.status = "REVERSED" /\ row.supplier = advances[a].supplier
        /\ row.currency = advances[a].currency /\ row.amount = advances[a].amount
    BY <1>2 DEF AdvanceRow, Status
  <1> HIDE DEF row
  <1>4. Mirror(AdvanceJournal(row))
    BY <1>1, <1>3 DEF AdvanceJournal
  <1>5. DocInv' /\ Wrote(advances, advances', Advance, a, row)
    BY <1>1, <1>3, <1>4, AdvanceTyped
  <1> QED
    BY <1>1, <1>2, <1>3, <1>4, <1>5

LEMMA NewAllocation ==
  ASSUME DocInv, NEW x \in Allocation, NEW a \in Advance, NEW p \in Purchase, NEW n \in Amount,
         AllocateSupplierAdvance(x, a, p, n)
  PROVE  \E row \in AllocationRow :
           /\ row.status = "POSTED" /\ row.advance = a /\ row.purchase = p /\ row.amount = n
           /\ ~IsPosted(allocations, x) /\ IsPosted(advances, a) /\ IsPosted(purchases, p)
           /\ advances[a].supplier = purchases[p].supplier /\ advances[a].currency = purchases[p].currency
           /\ n <= Available(a) /\ n <= Unallocated(p)
           /\ DocInv' /\ Wrote(allocations, allocations', Allocation, x, row)
           /\ Book(AllocationJournal(row)) /\ UNCHANGED <<purchases, advances, claims, refunds>>
  <1> DEFINE row == [status |-> "POSTED", advance |-> a, purchase |-> p, amount |-> n]
  <1>1. row \in AllocationRow /\ row.status = "POSTED" /\ row.advance = a /\ row.purchase = p /\ row.amount = n
    BY DEF AllocationRow, Status
  <1>2. /\ allocations' = Written(allocations, x, row) /\ Book(AllocationJournal(row))
        /\ UNCHANGED <<purchases, advances, claims, refunds>> /\ ~IsPosted(allocations, x)
        /\ IsPosted(advances, a) /\ IsPosted(purchases, p)
        /\ advances[a].supplier = purchases[p].supplier /\ advances[a].currency = purchases[p].currency
        /\ n <= Available(a) /\ n <= Unallocated(p)
    BY DEF AllocateSupplierAdvance, Written, Free, IsPosted
  <1> HIDE DEF row
  <1>3. DocInv' /\ Wrote(allocations, allocations', Allocation, x, row)
    BY <1>1, <1>2, AllocationTyped
  <1> QED
    BY <1>1, <1>2, <1>3

LEMMA ReversedAllocation ==
  ASSUME DocInv, NEW x \in Allocation, ReverseSupplierAdvanceAllocation(x)
  PROVE  \E row \in AllocationRow :
           /\ row.status = "REVERSED" /\ row.advance = allocations[x].advance
           /\ row.purchase = allocations[x].purchase /\ row.amount = allocations[x].amount
           /\ IsPosted(allocations, x) /\ allocations[x] \in AllocationRow
           /\ DocInv' /\ Wrote(allocations, allocations', Allocation, x, row)
           /\ Mirror(AllocationJournal(row)) /\ UNCHANGED <<purchases, advances, claims, refunds>>
  <1> DEFINE row == [allocations[x] EXCEPT !.status = "REVERSED"]
  <1>1. /\ allocations' = Written(allocations, x, row) /\ Mirror(AllocationJournal(allocations[x]))
        /\ UNCHANGED <<purchases, advances, claims, refunds>> /\ IsPosted(allocations, x)
    BY DEF ReverseSupplierAdvanceAllocation, Written
  <1>2. allocations[x] \in AllocationRow
    BY <1>1 DEF DocInv, TypeOK, IsPosted, Absent
  <1>3. /\ row \in AllocationRow /\ row.status = "REVERSED" /\ row.advance = allocations[x].advance
        /\ row.purchase = allocations[x].purchase /\ row.amount = allocations[x].amount
    BY <1>2 DEF AllocationRow, Status
  <1> HIDE DEF row
  <1>4. Mirror(AllocationJournal(row))
    BY <1>1, <1>3 DEF AllocationJournal
  <1>5. DocInv' /\ Wrote(allocations, allocations', Allocation, x, row)
    BY <1>1, <1>3, <1>4, AllocationTyped
  <1> QED
    BY <1>1, <1>2, <1>3, <1>4, <1>5

\* The unit cost at which a line of a posted purchase goes back.
LEMMA PostedLine ==
  ASSUME DocInv, NEW p \in Purchase, IsPosted(purchases, p), NEW i \in DOMAIN purchases[p].lines
  PROVE  /\ purchases[p] \in PurchaseRow /\ Recordable(purchases[p])
         /\ LineCost(purchases[p], i) \in Nat /\ UnitCost(purchases[p], i) \in Nat
         /\ purchases[p].lines[i].quantity \in Nat \ {0} /\ i \in Nat \ {0}
  <1>1. purchases[p] \in PurchaseRow
    BY DEF DocInv, TypeOK, IsPosted, Absent
  <1>2. Recordable(purchases[p])
    BY DEF DocInv, PurchasesRecordable, IsPosted, Free
  <1> QED
    BY <1>1, <1>2, CostsAreNat

LEMMA NewClaim ==
  ASSUME DocInv, NEW r \in Claim, NEW p \in Posted(purchases), NEW i \in DOMAIN purchases[p].lines,
         NEW q \in Quantity, PostPurchaseReturn(r, p, i, q)
  PROVE  \E row \in ClaimRow :
           /\ row.status = "POSTED" /\ row.purchase = p /\ row.line = i /\ row.quantity = q
           /\ p \in Purchase /\ IsPosted(purchases, p) /\ Free(claims, r) /\ q <= Returnable(p, i)
           /\ DocInv' /\ Wrote(claims, claims', Claim, r, row)
           /\ Book(ClaimJournal(row)) /\ UNCHANGED <<purchases, advances, allocations, refunds>>
  <1> DEFINE n == HalfUp(q * UnitCost(purchases[p], i), Cent)
             row == [status |-> "POSTED", purchase |-> p, line |-> i, quantity |-> q, amount |-> n]
  <1>1. p \in Purchase /\ IsPosted(purchases, p)
    BY DEF DocInv, TypeOK, Posted
  <1>2. UnitCost(purchases[p], i) \in Nat /\ i \in Nat \ {0}
    BY <1>1, PostedLine
  <1>3. n \in Nat
    <2>1. q * UnitCost(purchases[p], i) \in Nat /\ Cent \in Nat \ {0}
      BY <1>2, Numbers
    <2> QED
      BY <2>1, HalfUpNat
  <1>4. /\ claims' = Written(claims, r, row) /\ row.amount > 0 /\ Book(ClaimJournal(row))
        /\ UNCHANGED <<purchases, advances, allocations, refunds>>
        /\ Free(claims, r) /\ q <= Returnable(p, i)
    BY DEF PostPurchaseReturn, Written
  <1>5. row.status = "POSTED" /\ row.purchase = p /\ row.line = i /\ row.quantity = q /\ row.amount = n
    OBVIOUS
  <1>6. row \in ClaimRow
    <2>1. n \in Nat \ {0}
      BY <1>3, <1>4, <1>5
    <2> HIDE DEF n
    <2> QED
      BY <1>1, <1>2, <2>1 DEF ClaimRow, Status
  <1>7. ClaimAt(purchases, row, row.purchase)
    BY <1>1 DEF ClaimAt
  <1> HIDE DEF row, n
  <1>8. DocInv' /\ Wrote(claims, claims', Claim, r, row)
    BY <1>1, <1>4, <1>5, <1>6, <1>7, ClaimTyped
  <1> QED
    BY <1>1, <1>4, <1>5, <1>6, <1>8

LEMMA ReversedClaim ==
  ASSUME DocInv, NEW r \in Claim, ReversePurchaseReturn(r)
  PROVE  \E row \in ClaimRow :
           /\ row.status = "REVERSED" /\ row.purchase = claims[r].purchase /\ row.line = claims[r].line
           /\ row.quantity = claims[r].quantity /\ row.amount = claims[r].amount
           /\ IsPosted(claims, r) /\ RefundsOf(r) = {} /\ claims[r] \in ClaimRow
           /\ DocInv' /\ Wrote(claims, claims', Claim, r, row)
           /\ Mirror(ClaimJournal(row)) /\ UNCHANGED <<purchases, advances, allocations, refunds>>
  <1> DEFINE row == [claims[r] EXCEPT !.status = "REVERSED"]
  <1>1. /\ claims' = Written(claims, r, row) /\ Mirror(ClaimJournal(claims[r]))
        /\ UNCHANGED <<purchases, advances, allocations, refunds>> /\ IsPosted(claims, r) /\ RefundsOf(r) = {}
    BY DEF ReversePurchaseReturn, Written
  <1>2. claims[r] \in ClaimRow
    BY <1>1 DEF DocInv, TypeOK, IsPosted, Absent
  <1>3. /\ row \in ClaimRow /\ row.status = "REVERSED" /\ row.purchase = claims[r].purchase
        /\ row.line = claims[r].line /\ row.quantity = claims[r].quantity /\ row.amount = claims[r].amount
    BY <1>2 DEF ClaimRow, Status
  <1> HIDE DEF row
  <1>4. Mirror(ClaimJournal(row))
    BY <1>1, <1>3 DEF ClaimJournal
  <1>5. row.purchase \in Purchase /\ ClaimAt(purchases, row, row.purchase)
    BY <1>1, <1>3 DEF DocInv, ClaimsStand, ClaimAt, IsPosted, Free
  <1>6. DocInv' /\ Wrote(claims, claims', Claim, r, row)
    BY <1>1, <1>3, <1>4, <1>5, ClaimTyped
  <1> QED
    BY <1>1, <1>2, <1>3, <1>4, <1>6

LEMMA NewRefund ==
  ASSUME DocInv, NEW f \in Refund, NEW r \in Claim, NEW c \in Currency, NEW rate \in Rate, NEW n \in Amount,
         CreateSupplierRefund(f, r, c, rate, n)
  PROVE  \E row \in RefundRow :
           /\ row.status = "POSTED" /\ row.claim = r /\ row.amount = n /\ row.currency = c
           /\ ~IsPosted(refunds, f) /\ IsPosted(claims, r) /\ n <= Remaining(r)
           /\ DocInv' /\ Wrote(refunds, refunds', Refund, f, row)
           /\ Book(RefundJournal(row)) /\ UNCHANGED <<purchases, advances, allocations, claims>>
  <1> DEFINE m == PaidIn(r, c, rate, n)
             row == [status |-> "POSTED", claim |-> r, amount |-> n, currency |-> c, paid |-> m]
  <1>1. m \in Nat
    <2>1. n \in Nat /\ rate[1] \in Nat \ {0} /\ rate[2] \in Nat \ {0}
      BY Numbers
    <2>2. n * rate[1] \in Nat /\ n * rate[2] \in Nat
      BY <2>1
    <2>3. HalfUp(n * rate[1], rate[2]) \in Nat /\ HalfUp(n * rate[2], rate[1]) \in Nat
      BY <2>1, <2>2, HalfUpNat
    <2> QED
      BY <2>1, <2>3 DEF PaidIn
  <1>2. /\ refunds' = Written(refunds, f, row) /\ row.paid > 0 /\ Book(RefundJournal(row))
        /\ UNCHANGED <<purchases, advances, allocations, claims>>
        /\ ~IsPosted(refunds, f) /\ IsPosted(claims, r) /\ n <= Remaining(r)
    BY DEF CreateSupplierRefund, Written, Free, IsPosted
  <1>3. row.status = "POSTED" /\ row.claim = r /\ row.amount = n /\ row.currency = c /\ row.paid = m
    OBVIOUS
  <1>4. row \in RefundRow
    <2>1. m \in Nat \ {0}
      BY <1>1, <1>2, <1>3
    <2> HIDE DEF m
    <2> QED
      BY <2>1 DEF RefundRow, Status
  <1> HIDE DEF row, m
  <1>5. DocInv' /\ Wrote(refunds, refunds', Refund, f, row)
    BY <1>2, <1>4, RefundTyped
  <1> QED
    BY <1>2, <1>3, <1>4, <1>5

LEMMA ReversedRefund ==
  ASSUME DocInv, NEW f \in Refund, ReverseSupplierRefund(f)
  PROVE  \E row \in RefundRow :
           /\ row.status = "REVERSED" /\ row.claim = refunds[f].claim /\ row.amount = refunds[f].amount
           /\ row.currency = refunds[f].currency /\ row.paid = refunds[f].paid
           /\ IsPosted(refunds, f) /\ refunds[f] \in RefundRow
           /\ DocInv' /\ Wrote(refunds, refunds', Refund, f, row)
           /\ Mirror(RefundJournal(row)) /\ UNCHANGED <<purchases, advances, allocations, claims>>
  <1> DEFINE row == [refunds[f] EXCEPT !.status = "REVERSED"]
  <1>1. /\ refunds' = Written(refunds, f, row) /\ Mirror(RefundJournal(refunds[f]))
        /\ UNCHANGED <<purchases, advances, allocations, claims>> /\ IsPosted(refunds, f)
    BY DEF ReverseSupplierRefund, Written
  <1>2. refunds[f] \in RefundRow
    BY <1>1 DEF DocInv, TypeOK, IsPosted, Absent
  <1>3. /\ row \in RefundRow /\ row.status = "REVERSED" /\ row.claim = refunds[f].claim
        /\ row.amount = refunds[f].amount /\ row.currency = refunds[f].currency /\ row.paid = refunds[f].paid
    BY <1>2 DEF RefundRow, Status
  <1> HIDE DEF row
  <1>4. Mirror(RefundJournal(row))
    BY <1>1, <1>3 DEF RefundJournal
  <1>5. DocInv' /\ Wrote(refunds, refunds', Refund, f, row)
    BY <1>1, <1>3, <1>4, RefundTyped
  <1> QED
    BY <1>1, <1>2, <1>3, <1>4, <1>5
-----------------------------------------------------------------------------
(* A document is posted (up) or reversed: it and its journal come or go. *)
Move(up, n) == IF up THEN n ELSE -n
BookOrMirror(up, f) == IF up THEN Book(f) ELSE Mirror(f)
TurnedStatus(rows, i, row, up) ==
  IF up THEN ~IsPosted(rows, i) /\ row.status = "POSTED" ELSE IsPosted(rows, i) /\ row.status = "REVERSED"

\* A sum over the rows of one kind when one of them is turned.
LEMMA SumTurned ==
  ASSUME NEW S, IsFiniteSet(S), NEW T, NEW i, S \ {i} = T \ {i},
         NEW f, NEW g, IntOn(f, S), IntOn(g, T), \A y \in S \ {i} : g[y] = f[y],
         NEW n \in Int, NEW hit \in BOOLEAN, NEW up \in BOOLEAN,
         up => i \notin S /\ (i \in T <=> hit) /\ (hit => g[i] = n),
         ~up => i \notin T /\ (i \in S <=> hit) /\ (hit => f[i] = n)
  PROVE  /\ SumFunctionOnSet(f, S) \in Int /\ SumFunctionOnSet(g, T) \in Int
         /\ SumFunctionOnSet(g, T) = SumFunctionOnSet(f, S) + (IF hit THEN Move(up, n) ELSE 0)
  <1>1. /\ SumFunctionOnSet(f, S) \in Int /\ SumFunctionOnSet(g, T) \in Int
        /\ SumFunctionOnSet(g, T) = SumFunctionOnSet(f, S) - (IF i \in S THEN f[i] ELSE 0)
                                                           + (IF i \in T THEN g[i] ELSE 0)
    BY SumChange
  <1>2. CASE up
    BY <1>1, <1>2 DEF Move
  <1>3. CASE ~up
    BY <1>1, <1>3 DEF Move
  <1> QED
    BY <1>2, <1>3

\* The step turns row i of a table.
Turning(X, Y, ids, i, row, up) ==
  /\ i \in ids /\ up \in BOOLEAN /\ IsFiniteSet(Filled(X))
  /\ Wrote(X, Y, ids, i, row) /\ TurnedStatus(X, i, row, up)

\* S are the rows selected before the step, with their values f; T and g, after it.
Selected(X, Y, ids, i, up, S, T, f, g, n, hit) ==
  /\ S \subseteq Posted(X) /\ T \subseteq Posted(Y) /\ n \in Int /\ hit \in BOOLEAN
  /\ \A j \in ids \ {i} : j \in S <=> j \in T
  /\ \A j \in S \ {i} : g[j] = f[j]
  /\ (\A j \in S : f[j] \in Int) /\ (\A j \in T : g[j] \in Int)
  /\ IF up THEN (i \in T <=> hit) /\ (hit => g[i] = n) ELSE (i \in S <=> hit) /\ (hit => f[i] = n)

\* Sums over the selected rows of a table.
LEMMA TableTurned ==
  ASSUME NEW X, NEW Y, NEW ids, NEW i, NEW row, NEW up, Turning(X, Y, ids, i, row, up),
         NEW S, NEW T, NEW f, NEW g, NEW n, NEW hit, Selected(X, Y, ids, i, up, S, T, f, g, n, hit)
  PROVE  /\ SumFunctionOnSet(f, S) \in Int /\ SumFunctionOnSet(g, T) \in Int
         /\ SumFunctionOnSet(g, T) = SumFunctionOnSet(f, S) + (IF hit THEN Move(up, n) ELSE 0)
  <1>0. /\ i \in ids /\ up \in BOOLEAN /\ IsFiniteSet(Filled(X)) /\ Wrote(X, Y, ids, i, row)
        /\ TurnedStatus(X, i, row, up)
        /\ S \subseteq Posted(X) /\ T \subseteq Posted(Y) /\ n \in Int /\ hit \in BOOLEAN
    BY DEF Turning, Selected
  <1>1. S \subseteq ids /\ T \subseteq ids
    BY <1>0 DEF Wrote, Posted
  <1>2. S \ {i} = T \ {i}
    BY <1>1 DEF Selected
  <1>3. IsFiniteSet(S)
    <2>1. S \in SUBSET Filled(X)
      BY <1>0 DEF Posted, IsPosted, Filled, Free
    <2> QED
      BY <1>0, <2>1, FS_Subset
  <1>4. up => i \notin S
    BY <1>0 DEF TurnedStatus, Posted
  <1>5. ~up => i \notin T
    BY <1>0 DEF TurnedStatus, Posted, IsPosted, Wrote
  <1>6. IntOn(f, S) /\ IntOn(g, T) /\ \A y \in S \ {i} : g[y] = f[y]
    BY DEF IntOn, Selected
  <1>7. /\ up => (i \in T <=> hit) /\ (hit => g[i] = n)
        /\ ~up => (i \in S <=> hit) /\ (hit => f[i] = n)
    BY DEF Selected
  <1> QED
    BY <1>0, <1>2, <1>3, <1>4, <1>5, <1>6, <1>7, SumTurned

\* What an advance has paid, what a purchase has been paid from advances, and
\* what of a claim was refunded.
Used(a) == Sum(AllocationsOf(a), LAMBDA x : allocations[x].amount)
Taken(p) == Sum(AllocationsTo(p), LAMBDA x : allocations[x].amount)
Refunded(r) == Sum(RefundsOf(r), LAMBDA f : refunds[f].amount)

LEMMA AmountsAre ==
  /\ \A a \in Advance : Available(a) = advances[a].amount - Used(a)
  /\ \A p \in Purchase : Unallocated(p) = Total(p) - Taken(p)
  /\ \A r \in Claim : Remaining(r) = claims[r].amount - Refunded(r)
  BY DEF Available, Unallocated, Remaining, Used, Taken, Refunded

\* No rows, no amount.
LEMMA NothingTaken ==
  /\ \A a : AllocationsOf(a) = {} => Used(a) = 0
  /\ \A p : AllocationsTo(p) = {} => Taken(p) = 0
  /\ \A r : RefundsOf(r) = {} => Refunded(r) = 0
  <1>1. \A a : AllocationsOf(a) = {} => Used(a) = 0
    BY SumEmpty DEF Used, Sum
  <1>2. \A p : AllocationsTo(p) = {} => Taken(p) = 0
    BY SumEmpty DEF Taken, Sum
  <1>3. \A r : RefundsOf(r) = {} => Refunded(r) = 0
    BY SumEmpty DEF Refunded, Sum
  <1> QED
    BY <1>1, <1>2, <1>3

LEMMA PostedFinite ==
  ASSUME NEW X, IsFiniteSet(Filled(X)), NEW S, S \subseteq Posted(X)
  PROVE  IsFiniteSet(S)
  <1>1. S \in SUBSET Filled(X)
    BY DEF Posted, IsPosted, Filled, Free
  <1> QED
    BY <1>1, FS_Subset

\* A row that is posted is a row, and its amounts are natural numbers.
LEMMA RowAmounts ==
  ASSUME NEW X, NEW ids
  PROVE  /\ Table(X, ids, AdvanceRow) => \A j \in Posted(X) : j \in ids /\ X[j] \in AdvanceRow /\ X[j].amount \in Nat
         /\ Table(X, ids, AllocationRow) => \A j \in Posted(X) : j \in ids /\ X[j] \in AllocationRow /\ X[j].amount \in Nat
         /\ Table(X, ids, ClaimRow) => \A j \in Posted(X) :
              j \in ids /\ X[j] \in ClaimRow /\ X[j].amount \in Nat /\ X[j].quantity \in Nat
         /\ Table(X, ids, RefundRow) => \A j \in Posted(X) :
              j \in ids /\ X[j] \in RefundRow /\ X[j].amount \in Nat /\ X[j].paid \in Nat
  <1>1. \A row \in AdvanceRow : row.amount \in Nat
    <2>1. \A row \in AdvanceRow : row.amount \in Amount
      BY DEF AdvanceRow
    <2> QED
      BY <2>1, Numbers
  <1>2. \A row \in AllocationRow : row.amount \in Nat
    <2>1. \A row \in AllocationRow : row.amount \in Amount
      BY DEF AllocationRow
    <2> QED
      BY <2>1, Numbers
  <1>3. \A row \in ClaimRow : row.amount \in Nat /\ row.quantity \in Nat
    <2>1. \A row \in ClaimRow : row.amount \in Nat /\ row.quantity \in Quantity
      BY DEF ClaimRow
    <2> QED
      BY <2>1, Numbers
  <1>4. \A row \in RefundRow : row.amount \in Nat /\ row.paid \in Nat
    <2>1. \A row \in RefundRow : row.amount \in Amount /\ row.paid \in Nat
      BY DEF RefundRow
    <2> QED
      BY <2>1, Numbers
  <1>5. \A T : Table(X, ids, T) => \A j \in Posted(X) : j \in ids /\ X[j] \in T
    BY DEF Table, Posted, IsPosted, Absent
  <1> QED
    BY <1>1, <1>2, <1>3, <1>4, <1>5

LEMMA PostedRows ==
  ASSUME DocInv
  PROVE  /\ \A p \in Posted(purchases) : p \in Purchase /\ purchases[p] \in PurchaseRow
         /\ \A a \in Posted(advances) : a \in Advance /\ advances[a] \in AdvanceRow
         /\ \A x \in Posted(allocations) : x \in Allocation /\ allocations[x] \in AllocationRow
         /\ \A r \in Posted(claims) : r \in Claim /\ claims[r] \in ClaimRow
         /\ \A f \in Posted(refunds) : f \in Refund /\ refunds[f] \in RefundRow
  BY DEF DocInv, TypeOK, Posted, IsPosted, Absent

LEMMA Tables ==
  DocInv => /\ Table(purchases, Purchase, PurchaseRow) /\ Table(advances, Advance, AdvanceRow)
            /\ Table(allocations, Allocation, AllocationRow) /\ Table(claims, Claim, ClaimRow)
            /\ Table(refunds, Refund, RefundRow)
  BY DEF DocInv, TypeOK, Table

LEMMA TablesNext ==
  DocInv' => /\ Table(purchases', Purchase, PurchaseRow) /\ Table(advances', Advance, AdvanceRow)
             /\ Table(allocations', Allocation, AllocationRow) /\ Table(claims', Claim, ClaimRow)
             /\ Table(refunds', Refund, RefundRow)
  BY DEF DocInv, TypeOK, Table

LEMMA AmountsTyped ==
  ASSUME DocInv
  PROVE  /\ \A x \in Posted(allocations) : allocations[x].amount \in Nat
         /\ \A r \in Posted(claims) : claims[r].amount \in Nat /\ claims[r].quantity \in Nat
         /\ \A f \in Posted(refunds) : refunds[f].amount \in Nat /\ refunds[f].paid \in Nat
         /\ \A a \in Posted(advances) : advances[a].amount \in Nat
         /\ \A p \in Posted(purchases) : Total(p) \in Int
  <1>1. \A p \in Posted(purchases) : Total(p) \in Int
    BY PostedRows, TotalIsInt DEF Total
  <1> QED
    BY <1>1, Tables, RowAmounts

LEMMA TakenTyped ==
  ASSUME DocInv
  PROVE  \A d : Used(d) \in Nat /\ Taken(d) \in Nat /\ Refunded(d) \in Nat
  <1> SUFFICES ASSUME NEW d PROVE Used(d) \in Nat /\ Taken(d) \in Nat /\ Refunded(d) \in Nat
    OBVIOUS
  <1>1. IsFiniteSet(Filled(allocations)) /\ IsFiniteSet(Filled(refunds))
    BY DEF DocInv, FiniteRows
  <1>2. /\ AllocationsOf(d) \subseteq Posted(allocations) /\ AllocationsTo(d) \subseteq Posted(allocations)
        /\ RefundsOf(d) \subseteq Posted(refunds)
    BY DEF AllocationsOf, AllocationsTo, RefundsOf
  <1>3. IsFiniteSet(AllocationsOf(d)) /\ IsFiniteSet(AllocationsTo(d)) /\ IsFiniteSet(RefundsOf(d))
    BY <1>1, <1>2, PostedFinite
  <1>4. Used(d) \in Nat
    <2> DEFINE S == AllocationsOf(d)
               f == [x \in S |-> allocations[x].amount]
    <2>1. Used(d) = SumFunctionOnSet(f, S)
      BY DEF Used, Sum
    <2>2. IsFiniteSet(S) /\ \A x \in S : f[x] \in Nat
      BY <1>2, <1>3, AmountsTyped
    <2> HIDE DEF S, f
    <2> QED
      BY <2>1, <2>2, SumNat
  <1>5. Taken(d) \in Nat
    <2> DEFINE S == AllocationsTo(d)
               f == [x \in S |-> allocations[x].amount]
    <2>1. Taken(d) = SumFunctionOnSet(f, S)
      BY DEF Taken, Sum
    <2>2. IsFiniteSet(S) /\ \A x \in S : f[x] \in Nat
      BY <1>2, <1>3, AmountsTyped
    <2> HIDE DEF S, f
    <2> QED
      BY <2>1, <2>2, SumNat
  <1>6. Refunded(d) \in Nat
    <2> DEFINE S == RefundsOf(d)
               f == [x \in S |-> refunds[x].amount]
    <2>1. Refunded(d) = SumFunctionOnSet(f, S)
      BY DEF Refunded, Sum
    <2>2. IsFiniteSet(S) /\ \A x \in S : f[x] \in Nat
      BY <1>2, <1>3, AmountsTyped
    <2> HIDE DEF S, f
    <2> QED
      BY <2>1, <2>2, SumNat
  <1> QED
    BY <1>4, <1>5, <1>6
-----------------------------------------------------------------------------
(* The steps, each as the document it turns. *)
PurchaseSaved ==
  /\ DocInv' /\ Posted(purchases') = Posted(purchases)
  /\ \A q \in Posted(purchases) : purchases'[q] = purchases[q]
  /\ UNCHANGED <<gl, advances, allocations, claims, refunds>>

PurchasePosted(p) ==
  /\ DocInv' /\ purchases[p] \in PurchaseRow /\ purchases'[p] \in PurchaseRow
  /\ ~IsPosted(purchases, p)
  /\ Posted(purchases') = Posted(purchases) \cup {p}
  /\ \A q \in Purchase : q # p => purchases'[q] = purchases[q]
  /\ purchases'[p].supplier = purchases[p].supplier /\ purchases'[p].currency = purchases[p].currency
  /\ Total(p)' = Total(p) /\ Total(p) \in Int /\ Total(p) > 0
  /\ Book(Journal(Stock, Payable, purchases[p].supplier, purchases[p].currency, Total(p)))
  /\ AllocationsTo(p) = {} /\ \A r \in Claim : ~Free(claims, r) => claims[r].purchase # p
  /\ UNCHANGED <<advances, allocations, claims, refunds>>

AdvanceTurned(a, row, up) ==
  /\ row \in AdvanceRow /\ DocInv' /\ Wrote(advances, advances', Advance, a, row)
  /\ TurnedStatus(advances, a, row, up)
  /\ ~up => /\ advances[a].supplier = row.supplier /\ advances[a].currency = row.currency
            /\ advances[a].amount = row.amount
  /\ AllocationsOf(a) = {}
  /\ BookOrMirror(up, AdvanceJournal(row))
  /\ UNCHANGED <<purchases, allocations, claims, refunds>>

AllocationTurned(x, row, up) ==
  /\ row \in AllocationRow /\ DocInv' /\ Wrote(allocations, allocations', Allocation, x, row)
  /\ TurnedStatus(allocations, x, row, up)
  /\ up => row.amount <= Available(row.advance) /\ row.amount <= Unallocated(row.purchase)
  /\ ~up => /\ allocations[x].advance = row.advance /\ allocations[x].purchase = row.purchase
            /\ allocations[x].amount = row.amount
  /\ IsPosted(advances, row.advance) /\ IsPosted(purchases, row.purchase)
  /\ advances[row.advance].supplier = purchases[row.purchase].supplier
  /\ advances[row.advance].currency = purchases[row.purchase].currency
  /\ BookOrMirror(up, AllocationJournal(row))
  /\ UNCHANGED <<purchases, advances, claims, refunds>>

ClaimTurned(r, row, up) ==
  /\ row \in ClaimRow /\ DocInv' /\ Wrote(claims, claims', Claim, r, row)
  /\ TurnedStatus(claims, r, row, up)
  /\ up => Free(claims, r) /\ row.quantity <= Returnable(row.purchase, row.line)
  /\ ~up => /\ claims[r].purchase = row.purchase /\ claims[r].line = row.line
            /\ claims[r].quantity = row.quantity /\ claims[r].amount = row.amount
  /\ RefundsOf(r) = {} /\ IsPosted(purchases, row.purchase)
  /\ BookOrMirror(up, ClaimJournal(row))
  /\ UNCHANGED <<purchases, advances, allocations, refunds>>

RefundTurned(f, row, up) ==
  /\ row \in RefundRow /\ DocInv' /\ Wrote(refunds, refunds', Refund, f, row)
  /\ TurnedStatus(refunds, f, row, up)
  /\ up => row.amount <= Remaining(row.claim)
  /\ ~up => /\ refunds[f].claim = row.claim /\ refunds[f].amount = row.amount
            /\ refunds[f].currency = row.currency /\ refunds[f].paid = row.paid
  /\ IsPosted(claims, row.claim)
  /\ BookOrMirror(up, RefundJournal(row))
  /\ UNCHANGED <<purchases, advances, allocations, claims>>

\* What else the rows of a posted document say.
LEMMA SourcesTyped ==
  ASSUME SourceInv
  PROVE  /\ \A x \in Posted(allocations) :
              /\ IsPosted(advances, allocations[x].advance) /\ IsPosted(purchases, allocations[x].purchase)
              /\ advances[allocations[x].advance].supplier = purchases[allocations[x].purchase].supplier
              /\ advances[allocations[x].advance].currency = purchases[allocations[x].purchase].currency
         /\ \A f \in Posted(refunds) : IsPosted(claims, refunds[f].claim)
         /\ \A r \in Posted(claims) : IsPosted(purchases, claims[r].purchase)
  BY DEF SourceInv, NothingOutlivesItsSource

LEMMA PurchaseStepIs ==
  ASSUME DocInv, SourceInv, PurchaseStep
  PROVE  PurchaseSaved \/ \E p \in Purchase : PurchasePosted(p)
  <1>1. PICK p \in Purchase :
          \/ \E row \in Draft : SavePurchase(p, row)
          \/ PostPurchase(p)
    BY DEF PurchaseStep
  <1>2. ASSUME NEW row \in Draft, SavePurchase(p, row) PROVE PurchaseSaved
    <2>1. row \in PurchaseRow /\ row.status = "DRAFT"
      BY DEF Draft, PurchaseRow
    <2>2. SavePurchase(p, row)
      BY <1>2
    <2>3. DocInv' /\ \A q \in Posted(purchases) : purchases'[q] = purchases[q]
      BY <2>1, <2>2, SaveTyped
    <2>4. /\ UNCHANGED <<gl, advances, allocations, claims, refunds>> /\ ~IsPosted(purchases, p)
          /\ purchases' = [purchases EXCEPT ![p] = row] /\ DOMAIN purchases = Purchase
      BY <2>2 DEF SavePurchase, IsPosted, DocInv, TypeOK
    <2>5. ~IsPosted(purchases', p) /\ DOMAIN purchases' = Purchase
          /\ \A q \in Purchase : q # p => purchases'[q] = purchases[q]
      BY <2>1, <2>4 DEF IsPosted
    <2>6. Posted(purchases') = Posted(purchases)
      BY <2>4, <2>5 DEF Posted, IsPosted
    <2> QED
      BY <2>3, <2>4, <2>6 DEF PurchaseSaved
  <1>3. ASSUME PostPurchase(p) PROVE PurchasePosted(p)
    <2>1. /\ DocInv' /\ purchases[p] \in PurchaseRow /\ purchases'[p] \in PurchaseRow
          /\ purchases'[p].status = "POSTED"
          /\ purchases'[p].supplier = purchases[p].supplier /\ purchases'[p].currency = purchases[p].currency
          /\ TotalOf(purchases'[p]) = TotalOf(purchases[p])
          /\ \A q \in Purchase : q # p => purchases'[q] = purchases[q]
          /\ DOMAIN purchases = Purchase /\ DOMAIN purchases' = Purchase
      BY <1>3, PostTyped
    <2>2. /\ ~IsPosted(purchases, p) /\ Total(p) > 0 /\ Book(PurchaseJournal(purchases[p]))
          /\ UNCHANGED <<advances, allocations, claims, refunds>>
      BY <1>3 DEF PostPurchase, IsPosted
    <2>3. Posted(purchases') = Posted(purchases) \cup {p}
      BY <2>1 DEF Posted, IsPosted
    <2>4. Total(p)' = Total(p) /\ Total(p) \in Int
      BY <2>1, TotalIsInt DEF Total
    <2>5. AllocationsTo(p) = {}
      BY <2>2, SourcesTyped DEF AllocationsTo
    <2>6. \A r \in Claim : ~Free(claims, r) => claims[r].purchase # p
      BY <2>2 DEF DocInv, ClaimsStand, ClaimAt
    <2>7. Book(Journal(Stock, Payable, purchases[p].supplier, purchases[p].currency, Total(p)))
      BY <2>2 DEF PurchaseJournal, Total
    <2> QED
      BY <2>1, <2>2, <2>3, <2>4, <2>5, <2>6, <2>7 DEF PurchasePosted
  <1> QED
    BY <1>1, <1>2, <1>3

LEMMA AdvanceTurns ==
  ASSUME DocInv, SourceInv, NEW a \in Advance,
         \/ \E s \in Supplier, c \in Currency, n \in Amount : CreateSupplierAdvance(a, s, c, n)
         \/ ReverseSupplierAdvance(a)
  PROVE  \E row : \E up \in BOOLEAN : AdvanceTurned(a, row, up)
  <1>1. ASSUME NEW s \in Supplier, NEW c \in Currency, NEW n \in Amount, CreateSupplierAdvance(a, s, c, n)
        PROVE  \E row : AdvanceTurned(a, row, TRUE)
    <2>1. PICK row \in AdvanceRow :
           /\ row.status = "POSTED" /\ row.supplier = s /\ row.currency = c /\ row.amount = n
           /\ ~IsPosted(advances, a)
           /\ DocInv' /\ Wrote(advances, advances', Advance, a, row)
           /\ Book(AdvanceJournal(row)) /\ UNCHANGED <<purchases, allocations, claims, refunds>>
      BY <1>1, NewAdvance
    <2>2. AllocationsOf(a) = {}
      BY <2>1, SourcesTyped DEF AllocationsOf
    <2> QED
      BY <2>1, <2>2 DEF AdvanceTurned, TurnedStatus, BookOrMirror
  <1>2. ASSUME ReverseSupplierAdvance(a) PROVE \E row : AdvanceTurned(a, row, FALSE)
    BY <1>2, ReversedAdvance DEF AdvanceTurned, TurnedStatus, BookOrMirror
  <1> QED
    BY <1>1, <1>2

LEMMA AllocationTurns ==
  ASSUME DocInv, SourceInv, NEW x \in Allocation,
         \/ \E a \in Advance, p \in Purchase, n \in Amount : AllocateSupplierAdvance(x, a, p, n)
         \/ ReverseSupplierAdvanceAllocation(x)
  PROVE  \E row : \E up \in BOOLEAN : AllocationTurned(x, row, up)
  <1>1. ASSUME NEW a \in Advance, NEW p \in Purchase, NEW n \in Amount, AllocateSupplierAdvance(x, a, p, n)
        PROVE  \E row : AllocationTurned(x, row, TRUE)
    BY <1>1, NewAllocation DEF AllocationTurned, TurnedStatus, BookOrMirror
  <1>2. ASSUME ReverseSupplierAdvanceAllocation(x) PROVE \E row : AllocationTurned(x, row, FALSE)
    <2>1. PICK row \in AllocationRow :
           /\ row.status = "REVERSED" /\ row.advance = allocations[x].advance
           /\ row.purchase = allocations[x].purchase /\ row.amount = allocations[x].amount
           /\ IsPosted(allocations, x) /\ allocations[x] \in AllocationRow
           /\ DocInv' /\ Wrote(allocations, allocations', Allocation, x, row)
           /\ Mirror(AllocationJournal(row)) /\ UNCHANGED <<purchases, advances, claims, refunds>>
      BY <1>2, ReversedAllocation
    <2>2. x \in Posted(allocations)
      BY <2>1 DEF Posted, Wrote
    <2>3. /\ IsPosted(advances, row.advance) /\ IsPosted(purchases, row.purchase)
          /\ advances[row.advance].supplier = purchases[row.purchase].supplier
          /\ advances[row.advance].currency = purchases[row.purchase].currency
      BY <2>1, <2>2, SourcesTyped
    <2> QED
      BY <2>1, <2>3 DEF AllocationTurned, TurnedStatus, BookOrMirror
  <1> QED
    BY <1>1, <1>2

LEMMA ClaimTurns ==
  ASSUME DocInv, SourceInv, NEW r \in Claim,
         \/ \E p \in Posted(purchases), q \in Quantity :
              \E i \in DOMAIN purchases[p].lines : PostPurchaseReturn(r, p, i, q)
         \/ ReversePurchaseReturn(r)
  PROVE  \E row : \E up \in BOOLEAN : ClaimTurned(r, row, up)
  <1>1. ASSUME NEW p \in Posted(purchases), NEW q \in Quantity, NEW i \in DOMAIN purchases[p].lines,
               PostPurchaseReturn(r, p, i, q)
        PROVE  \E row : ClaimTurned(r, row, TRUE)
    <2>1. PICK row \in ClaimRow :
           /\ row.status = "POSTED" /\ row.purchase = p /\ row.line = i /\ row.quantity = q
           /\ p \in Purchase /\ IsPosted(purchases, p) /\ Free(claims, r) /\ q <= Returnable(p, i)
           /\ DocInv' /\ Wrote(claims, claims', Claim, r, row)
           /\ Book(ClaimJournal(row)) /\ UNCHANGED <<purchases, advances, allocations, refunds>>
      BY <1>1, NewClaim
    <2>2. ~IsPosted(claims, r)
      BY <2>1 DEF IsPosted, Free
    <2>3. RefundsOf(r) = {}
      BY <2>2, SourcesTyped DEF RefundsOf
    <2> QED
      BY <2>1, <2>2, <2>3 DEF ClaimTurned, TurnedStatus, BookOrMirror
  <1>2. ASSUME ReversePurchaseReturn(r) PROVE \E row : ClaimTurned(r, row, FALSE)
    <2>1. PICK row \in ClaimRow :
           /\ row.status = "REVERSED" /\ row.purchase = claims[r].purchase /\ row.line = claims[r].line
           /\ row.quantity = claims[r].quantity /\ row.amount = claims[r].amount
           /\ IsPosted(claims, r) /\ RefundsOf(r) = {} /\ claims[r] \in ClaimRow
           /\ DocInv' /\ Wrote(claims, claims', Claim, r, row)
           /\ Mirror(ClaimJournal(row)) /\ UNCHANGED <<purchases, advances, allocations, refunds>>
      BY <1>2, ReversedClaim
    <2>2. r \in Posted(claims)
      BY <2>1 DEF Posted, Wrote
    <2>3. IsPosted(purchases, row.purchase)
      BY <2>1, <2>2, SourcesTyped
    <2> QED
      BY <2>1, <2>3 DEF ClaimTurned, TurnedStatus, BookOrMirror
  <1> QED
    BY <1>1, <1>2

LEMMA RefundTurns ==
  ASSUME DocInv, SourceInv, NEW f \in Refund,
         \/ \E r \in Claim, c \in Currency, rate \in Rate, n \in Amount : CreateSupplierRefund(f, r, c, rate, n)
         \/ ReverseSupplierRefund(f)
  PROVE  \E row : \E up \in BOOLEAN : RefundTurned(f, row, up)
  <1>1. ASSUME NEW r \in Claim, NEW c \in Currency, NEW rate \in Rate, NEW n \in Amount,
               CreateSupplierRefund(f, r, c, rate, n)
        PROVE  \E row : RefundTurned(f, row, TRUE)
    BY <1>1, NewRefund DEF RefundTurned, TurnedStatus, BookOrMirror
  <1>2. ASSUME ReverseSupplierRefund(f) PROVE \E row : RefundTurned(f, row, FALSE)
    <2>1. PICK row \in RefundRow :
           /\ row.status = "REVERSED" /\ row.claim = refunds[f].claim /\ row.amount = refunds[f].amount
           /\ row.currency = refunds[f].currency /\ row.paid = refunds[f].paid
           /\ IsPosted(refunds, f) /\ refunds[f] \in RefundRow
           /\ DocInv' /\ Wrote(refunds, refunds', Refund, f, row)
           /\ Mirror(RefundJournal(row)) /\ UNCHANGED <<purchases, advances, allocations, claims>>
      BY <1>2, ReversedRefund
    <2>2. f \in Posted(refunds)
      BY <2>1 DEF Posted, Wrote
    <2>3. IsPosted(claims, row.claim)
      BY <2>1, <2>2, SourcesTyped
    <2> QED
      BY <2>1, <2>3 DEF RefundTurned, TurnedStatus, BookOrMirror
  <1> QED
    BY <1>1, <1>2

\* One of six kinds of step.
LEMMA StepIs ==
  ASSUME DocInv, SourceInv, Next
  PROVE  \/ PurchaseSaved
         \/ \E p \in Purchase : PurchasePosted(p)
         \/ \E a \in Advance : \E row : \E up \in BOOLEAN : AdvanceTurned(a, row, up)
         \/ \E x \in Allocation : \E row : \E up \in BOOLEAN : AllocationTurned(x, row, up)
         \/ \E r \in Claim : \E row : \E up \in BOOLEAN : ClaimTurned(r, row, up)
         \/ \E f \in Refund : \E row : \E up \in BOOLEAN : RefundTurned(f, row, up)
  <1>1. CASE PurchaseStep
    BY <1>1, PurchaseStepIs
  <1>2. CASE AdvanceStep
    <2>1. CASE \E a \in Advance : \/ \E s \in Supplier, c \in Currency, n \in Amount : CreateSupplierAdvance(a, s, c, n)
                                  \/ ReverseSupplierAdvance(a)
      BY <2>1, AdvanceTurns
    <2>2. CASE \E x \in Allocation :
                 \/ \E a \in Advance, p \in Purchase, n \in Amount : AllocateSupplierAdvance(x, a, p, n)
                 \/ ReverseSupplierAdvanceAllocation(x)
      BY <2>2, AllocationTurns
    <2> QED
      BY <1>2, <2>1, <2>2 DEF AdvanceStep
  <1>3. CASE ClaimStep
    BY <1>3, ClaimTurns DEF ClaimStep
  <1>4. CASE RefundStep
    BY <1>4, RefundTurns DEF RefundStep
  <1> QED
    BY <1>1, <1>2, <1>3, <1>4 DEF Next

LEMMA DocInvStep ==
  ASSUME DocInv, SourceInv, [Next]_vars
  PROVE  DocInv'
  <1>1. CASE Next
    BY <1>1, StepIs DEF PurchaseSaved, PurchasePosted, AdvanceTurned, AllocationTurned, ClaimTurned, RefundTurned
  <1>2. CASE UNCHANGED vars
    BY <1>2 DEF vars, DocInv, TypeOK, FiniteRows, PurchasesRecordable, ClaimsStand, ClaimAt, Filled, Free,
                IsPosted
  <1> QED
    BY <1>1, <1>2
-----------------------------------------------------------------------------
\* An allocation moves what its advance has paid,
LEMMA UsedMoves ==
  ASSUME DocInv, NEW x \in Allocation, NEW row, NEW up \in BOOLEAN, AllocationTurned(x, row, up)
  PROVE  \A d : Used(d)' = Used(d) + (IF d = row.advance THEN Move(up, row.amount) ELSE 0)
  <1> DEFINE X == allocations
             Y == allocations'
             n == row.amount
  <1>1. /\ Wrote(X, Y, Allocation, x, row) /\ TurnedStatus(X, x, row, up) /\ IsFiniteSet(Filled(X))
        /\ ~up => X[x].advance = row.advance /\ X[x].amount = n
        /\ DocInv' /\ row \in AllocationRow
    BY DEF AllocationTurned, DocInv, FiniteRows
  <1>2. n \in Int
    <2>1. n \in Amount
      BY <1>1 DEF AllocationRow
    <2> QED
      BY <2>1, Numbers
  <1>3. /\ \A j \in Posted(X) : X[j].amount \in Int
        /\ \A j \in Posted(Y) : Y[j].amount \in Int
    <2>1. Table(X, Allocation, AllocationRow) /\ Table(Y, Allocation, AllocationRow)
      BY <1>1, Tables, TablesNext
    <2> QED
      BY <2>1, RowAmounts
  <1>4. /\ Y[x] = row /\ Posted(X) \subseteq Allocation /\ Posted(Y) \subseteq Allocation
        /\ \A j \in Allocation : j # x => Y[j] = X[j]
        /\ \A j \in Allocation \ {x} : j \in Posted(X) <=> j \in Posted(Y)
        /\ (x \in Posted(Y) <=> up) /\ (x \in Posted(X) <=> ~up)
    BY <1>1 DEF Wrote, Posted, TurnedStatus, IsPosted
  <1> SUFFICES ASSUME NEW d
               PROVE  Used(d)' = Used(d) + (IF d = row.advance THEN Move(up, n) ELSE 0)
    OBVIOUS
  <1> DEFINE S == {j \in Posted(X) : X[j].advance = d}
             T == {j \in Posted(Y) : Y[j].advance = d}
             f == [j \in S |-> X[j].amount]
             g == [j \in T |-> Y[j].amount]
             hit == d = row.advance
  <1>5. Used(d) = SumFunctionOnSet(f, S) /\ Used(d)' = SumFunctionOnSet(g, T)
    BY DEF Used, Sum, AllocationsOf
  <1>6. S \subseteq Posted(X) /\ T \subseteq Posted(Y) /\ hit \in BOOLEAN
    OBVIOUS
  <1>7. Selected(X, Y, Allocation, x, up, S, T, f, g, n, hit)
    BY <1>1, <1>2, <1>3, <1>4, <1>6 DEF Selected
  <1>8. Turning(X, Y, Allocation, x, row, up)
    BY <1>1 DEF Turning
  <1> HIDE DEF S, T, f, g, hit, X, Y, n
  <1>9. SumFunctionOnSet(g, T) = SumFunctionOnSet(f, S) + (IF hit THEN Move(up, n) ELSE 0)
    BY <1>7, <1>8, TableTurned
  <1> QED
    BY <1>5, <1>9 DEF hit

\* and what its purchase was paid.
LEMMA TakenMoves ==
  ASSUME DocInv, NEW x \in Allocation, NEW row, NEW up \in BOOLEAN, AllocationTurned(x, row, up)
  PROVE  \A d : Taken(d)' = Taken(d) + (IF d = row.purchase THEN Move(up, row.amount) ELSE 0)
  <1> DEFINE X == allocations
             Y == allocations'
             n == row.amount
  <1>1. /\ Wrote(X, Y, Allocation, x, row) /\ TurnedStatus(X, x, row, up) /\ IsFiniteSet(Filled(X))
        /\ ~up => X[x].purchase = row.purchase /\ X[x].amount = n
        /\ DocInv' /\ row \in AllocationRow
    BY DEF AllocationTurned, DocInv, FiniteRows
  <1>2. n \in Int
    <2>1. n \in Amount
      BY <1>1 DEF AllocationRow
    <2> QED
      BY <2>1, Numbers
  <1>3. /\ \A j \in Posted(X) : X[j].amount \in Int
        /\ \A j \in Posted(Y) : Y[j].amount \in Int
    <2>1. Table(X, Allocation, AllocationRow) /\ Table(Y, Allocation, AllocationRow)
      BY <1>1, Tables, TablesNext
    <2> QED
      BY <2>1, RowAmounts
  <1>4. /\ Y[x] = row /\ Posted(X) \subseteq Allocation /\ Posted(Y) \subseteq Allocation
        /\ \A j \in Allocation : j # x => Y[j] = X[j]
        /\ \A j \in Allocation \ {x} : j \in Posted(X) <=> j \in Posted(Y)
        /\ (x \in Posted(Y) <=> up) /\ (x \in Posted(X) <=> ~up)
    BY <1>1 DEF Wrote, Posted, TurnedStatus, IsPosted
  <1> SUFFICES ASSUME NEW d
               PROVE  Taken(d)' = Taken(d) + (IF d = row.purchase THEN Move(up, n) ELSE 0)
    OBVIOUS
  <1> DEFINE S == {j \in Posted(X) : X[j].purchase = d}
             T == {j \in Posted(Y) : Y[j].purchase = d}
             f == [j \in S |-> X[j].amount]
             g == [j \in T |-> Y[j].amount]
             hit == d = row.purchase
  <1>5. Taken(d) = SumFunctionOnSet(f, S) /\ Taken(d)' = SumFunctionOnSet(g, T)
    BY DEF Taken, Sum, AllocationsTo
  <1>6. S \subseteq Posted(X) /\ T \subseteq Posted(Y) /\ hit \in BOOLEAN
    OBVIOUS
  <1>7. Selected(X, Y, Allocation, x, up, S, T, f, g, n, hit)
    BY <1>1, <1>2, <1>3, <1>4, <1>6 DEF Selected
  <1>8. Turning(X, Y, Allocation, x, row, up)
    BY <1>1 DEF Turning
  <1> HIDE DEF S, T, f, g, hit, X, Y, n
  <1>9. SumFunctionOnSet(g, T) = SumFunctionOnSet(f, S) + (IF hit THEN Move(up, n) ELSE 0)
    BY <1>7, <1>8, TableTurned
  <1> QED
    BY <1>5, <1>9 DEF hit

\* A refund moves what of its claim was refunded.
LEMMA RefundMoves ==
  ASSUME DocInv, NEW x \in Refund, NEW row, NEW up \in BOOLEAN, RefundTurned(x, row, up)
  PROVE  \A d : Refunded(d)' = Refunded(d) + (IF d = row.claim THEN Move(up, row.amount) ELSE 0)
  <1> DEFINE X == refunds
             Y == refunds'
             n == row.amount
  <1>1. /\ Wrote(X, Y, Refund, x, row) /\ TurnedStatus(X, x, row, up) /\ IsFiniteSet(Filled(X))
        /\ ~up => X[x].claim = row.claim /\ X[x].amount = n
        /\ DocInv' /\ row \in RefundRow
    BY DEF RefundTurned, DocInv, FiniteRows
  <1>2. n \in Int
    <2>1. n \in Amount
      BY <1>1 DEF RefundRow
    <2> QED
      BY <2>1, Numbers
  <1>3. /\ \A j \in Posted(X) : X[j].amount \in Int
        /\ \A j \in Posted(Y) : Y[j].amount \in Int
    <2>1. Table(X, Refund, RefundRow) /\ Table(Y, Refund, RefundRow)
      BY <1>1, Tables, TablesNext
    <2> QED
      BY <2>1, RowAmounts
  <1>4. /\ Y[x] = row /\ Posted(X) \subseteq Refund /\ Posted(Y) \subseteq Refund
        /\ \A j \in Refund : j # x => Y[j] = X[j]
        /\ \A j \in Refund \ {x} : j \in Posted(X) <=> j \in Posted(Y)
        /\ (x \in Posted(Y) <=> up) /\ (x \in Posted(X) <=> ~up)
    BY <1>1 DEF Wrote, Posted, TurnedStatus, IsPosted
  <1> SUFFICES ASSUME NEW d
               PROVE  Refunded(d)' = Refunded(d) + (IF d = row.claim THEN Move(up, n) ELSE 0)
    OBVIOUS
  <1> DEFINE S == {j \in Posted(X) : X[j].claim = d}
             T == {j \in Posted(Y) : Y[j].claim = d}
             f == [j \in S |-> X[j].amount]
             g == [j \in T |-> Y[j].amount]
             hit == d = row.claim
  <1>5. Refunded(d) = SumFunctionOnSet(f, S) /\ Refunded(d)' = SumFunctionOnSet(g, T)
    BY DEF Refunded, Sum, RefundsOf
  <1>6. S \subseteq Posted(X) /\ T \subseteq Posted(Y) /\ hit \in BOOLEAN
    OBVIOUS
  <1>7. Selected(X, Y, Refund, x, up, S, T, f, g, n, hit)
    BY <1>1, <1>2, <1>3, <1>4, <1>6 DEF Selected
  <1>8. Turning(X, Y, Refund, x, row, up)
    BY <1>1 DEF Turning
  <1> HIDE DEF S, T, f, g, hit, X, Y, n
  <1>9. SumFunctionOnSet(g, T) = SumFunctionOnSet(f, S) + (IF hit THEN Move(up, n) ELSE 0)
    BY <1>7, <1>8, TableTurned
  <1> QED
    BY <1>5, <1>9 DEF hit

\* What is taken of a document stays while the documents that take it do.
LEMMA NothingMoves ==
  /\ UNCHANGED allocations => \A d : Used(d)' = Used(d) /\ Taken(d)' = Taken(d)
  /\ UNCHANGED refunds => \A d : Refunded(d)' = Refunded(d)
  <1>1. ASSUME UNCHANGED allocations, NEW d PROVE Used(d)' = Used(d) /\ Taken(d)' = Taken(d)
    BY <1>1 DEF Used, Taken, AllocationsOf, AllocationsTo, Posted, IsPosted, Sum
  <1>2. ASSUME UNCHANGED refunds, NEW d PROVE Refunded(d)' = Refunded(d)
    BY <1>2 DEF Refunded, RefundsOf, Posted, IsPosted, Sum
  <1> QED
    BY <1>1, <1>2

\* The amounts left of posted documents are integers.
AmountsLeftAre ==
  /\ \A a \in Posted(advances) : Available(a) \in Int /\ Available(a) = advances[a].amount - Used(a)
  /\ \A p \in Posted(purchases) : Unallocated(p) \in Int /\ Unallocated(p) = Total(p) - Taken(p)
  /\ \A r \in Posted(claims) : Remaining(r) \in Int /\ Remaining(r) = claims[r].amount - Refunded(r)

LEMMA AmountsLeft == DocInv => AmountsLeftAre
  <1> SUFFICES ASSUME DocInv PROVE AmountsLeftAre
    OBVIOUS
  <1>1. \A d : Used(d) \in Nat /\ Taken(d) \in Nat /\ Refunded(d) \in Nat
    BY TakenTyped
  <1>2. /\ \A a \in Posted(advances) : a \in Advance /\ advances[a].amount \in Nat
        /\ \A p \in Posted(purchases) : p \in Purchase /\ Total(p) \in Int
        /\ \A r \in Posted(claims) : r \in Claim /\ claims[r].amount \in Nat
    BY PostedRows, AmountsTyped
  <1> QED
    BY <1>1, <1>2, AmountsAre DEF AmountsLeftAre

LEMMA AmountsLeftNext == DocInv' => AmountsLeftAre'
  BY AmountsLeft, PTL
-----------------------------------------------------------------------------
(* No document is committed beyond its amount. *)
LEMMA SavedKeepsAmounts ==
  ASSUME DocInv, NeverOvercommitted, PurchaseSaved
  PROVE  NeverOvercommitted'
  <1>1. AmountsLeftAre /\ AmountsLeftAre'
    BY AmountsLeft, AmountsLeftNext DEF PurchaseSaved
  <1>2. /\ UNCHANGED <<advances, allocations, claims, refunds>> /\ Posted(purchases') = Posted(purchases)
        /\ \A q \in Posted(purchases) : Total(q)' = Total(q)
    BY DEF PurchaseSaved, Total
  <1>3. \A d : Used(d)' = Used(d) /\ Taken(d)' = Taken(d) /\ Refunded(d)' = Refunded(d)
    BY <1>2, NothingMoves
  <1> QED
    BY <1>1, <1>2, <1>3 DEF NeverOvercommitted, AmountsLeftAre, Posted, IsPosted

LEMMA PostedKeepsAmounts ==
  ASSUME DocInv, NeverOvercommitted, NEW p \in Purchase, PurchasePosted(p)
  PROVE  NeverOvercommitted'
  <1>1. AmountsLeftAre /\ AmountsLeftAre'
    BY AmountsLeft, AmountsLeftNext DEF PurchasePosted
  <1>2. /\ UNCHANGED <<advances, allocations, claims, refunds>>
        /\ Posted(purchases') = Posted(purchases) \cup {p}
        /\ \A q \in Posted(purchases) : q # p => Total(q)' = Total(q)
    BY PostedRows DEF PurchasePosted, Total
  <1>3. \A d : Used(d)' = Used(d) /\ Taken(d)' = Taken(d) /\ Refunded(d)' = Refunded(d)
    BY <1>2, NothingMoves
  <1>4. Total(p)' = Total(p) /\ Total(p) \in Int /\ Total(p) > 0 /\ Taken(p) = 0
    BY NothingTaken DEF PurchasePosted
  <1> QED
    BY <1>1, <1>2, <1>3, <1>4 DEF NeverOvercommitted, AmountsLeftAre, Posted, IsPosted

LEMMA AdvanceKeepsAmounts ==
  ASSUME DocInv, NeverOvercommitted, NEW a \in Advance, NEW row, NEW up \in BOOLEAN, AdvanceTurned(a, row, up)
  PROVE  NeverOvercommitted'
  <1>1. AmountsLeftAre /\ AmountsLeftAre'
    BY AmountsLeft, AmountsLeftNext DEF AdvanceTurned
  <1>2. /\ UNCHANGED <<purchases, allocations, claims, refunds>>
        /\ \A q : Total(q)' = Total(q)
        /\ row \in AdvanceRow
    BY DEF AdvanceTurned, Total
  <1>3. \A d : Used(d)' = Used(d) /\ Taken(d)' = Taken(d) /\ Refunded(d)' = Refunded(d)
    BY <1>2, NothingMoves
  <1>4. Used(a) = 0 /\ advances'[a] = row
    BY NothingTaken DEF AdvanceTurned, Wrote
  <1>5. \A b \in Posted(advances') : b # a => b \in Posted(advances) /\ advances'[b] = advances[b]
    BY DEF AdvanceTurned, Wrote, Posted
  <1>6. row.amount \in Nat
    <2>1. row.amount \in Amount
      BY <1>2 DEF AdvanceRow
    <2> QED
      BY <2>1, Numbers
  <1>7. \A b \in Posted(advances') : Available(b)' >= 0
    <2> SUFFICES ASSUME NEW b \in Posted(advances') PROVE Available(b)' >= 0
      OBVIOUS
    <2>1. Available(b)' \in Int /\ Available(b)' = advances'[b].amount - Used(b)'
      BY <1>1 DEF AmountsLeftAre
    <2>2. CASE b = a
      BY <1>3, <1>4, <1>6, <2>1, <2>2
    <2>3. CASE b # a
      <3>1. /\ b \in Posted(advances) /\ advances'[b] = advances[b] /\ Available(b) >= 0
            /\ Available(b) = advances[b].amount - Used(b)
        BY <1>1, <1>5, <2>3 DEF AmountsLeftAre, NeverOvercommitted
      <3> QED
        BY <1>3, <2>1, <3>1
    <2> QED
      BY <2>2, <2>3
  <1> QED
    BY <1>1, <1>2, <1>3, <1>7 DEF NeverOvercommitted, AmountsLeftAre, Posted, IsPosted

LEMMA AllocationKeepsAmounts ==
  ASSUME DocInv, NeverOvercommitted, NEW x \in Allocation, NEW row, NEW up \in BOOLEAN,
         AllocationTurned(x, row, up)
  PROVE  NeverOvercommitted'
  <1>1. AmountsLeftAre /\ AmountsLeftAre'
    BY AmountsLeft, AmountsLeftNext DEF AllocationTurned
  <1>2. /\ UNCHANGED <<purchases, advances, claims, refunds>>
        /\ \A q : Total(q)' = Total(q)
        /\ row \in AllocationRow
        /\ up => row.amount <= Available(row.advance) /\ row.amount <= Unallocated(row.purchase)
    BY DEF AllocationTurned, Total
  <1>3. /\ \A d : Used(d)' = Used(d) + (IF d = row.advance THEN Move(up, row.amount) ELSE 0)
        /\ \A d : Taken(d)' = Taken(d) + (IF d = row.purchase THEN Move(up, row.amount) ELSE 0)
        /\ \A d : Refunded(d)' = Refunded(d)
        /\ \A d : Used(d) \in Nat /\ Taken(d) \in Nat
    BY <1>2, UsedMoves, TakenMoves, NothingMoves, TakenTyped
  <1>4. row.amount \in Nat
    <2>1. row.amount \in Amount
      BY <1>2 DEF AllocationRow
    <2> QED
      BY <2>1, Numbers
  <1>5. Posted(advances') = Posted(advances) /\ Posted(purchases') = Posted(purchases)
    BY <1>2 DEF Posted, IsPosted
  <1>6. \A a \in Posted(advances') : Available(a)' >= 0
    <2> SUFFICES ASSUME NEW a \in Posted(advances) PROVE Available(a)' >= 0
      BY <1>5
    <2>1. Available(a) \in Int /\ Available(a)' \in Int /\ Available(a) >= 0
          /\ Available(a) = advances[a].amount - Used(a) /\ Available(a)' = advances[a].amount - Used(a)'
          /\ Used(a)' = Used(a) + (IF a = row.advance THEN Move(up, row.amount) ELSE 0)
          /\ Used(a) \in Nat
      BY <1>1, <1>2, <1>3, <1>5 DEF AmountsLeftAre, NeverOvercommitted
    <2>2. advances[a].amount \in Int
      BY AmountsTyped
    <2> QED
      BY <1>2, <1>4, <2>1, <2>2 DEF Move
  <1>7. \A p \in Posted(purchases') : Unallocated(p)' >= 0
    <2> SUFFICES ASSUME NEW p \in Posted(purchases) PROVE Unallocated(p)' >= 0
      BY <1>5
    <2>1. Unallocated(p) \in Int /\ Unallocated(p)' \in Int /\ Unallocated(p) >= 0
          /\ Unallocated(p) = Total(p) - Taken(p) /\ Unallocated(p)' = Total(p) - Taken(p)'
          /\ Taken(p)' = Taken(p) + (IF p = row.purchase THEN Move(up, row.amount) ELSE 0)
          /\ Taken(p) \in Nat
      BY <1>1, <1>2, <1>3, <1>5 DEF AmountsLeftAre, NeverOvercommitted
    <2>2. Total(p) \in Int
      BY AmountsTyped
    <2> QED
      BY <1>2, <1>4, <2>1, <2>2 DEF Move
  <1> QED
    BY <1>1, <1>2, <1>3, <1>6, <1>7 DEF NeverOvercommitted, AmountsLeftAre, Posted, IsPosted

LEMMA ClaimKeepsAmounts ==
  ASSUME DocInv, NeverOvercommitted, NEW r \in Claim, NEW row, NEW up \in BOOLEAN, ClaimTurned(r, row, up)
  PROVE  NeverOvercommitted'
  <1>1. AmountsLeftAre /\ AmountsLeftAre'
    BY AmountsLeft, AmountsLeftNext DEF ClaimTurned
  <1>2. /\ UNCHANGED <<purchases, advances, allocations, refunds>>
        /\ \A q : Total(q)' = Total(q)
        /\ row \in ClaimRow
    BY DEF ClaimTurned, Total
  <1>3. \A d : Used(d)' = Used(d) /\ Taken(d)' = Taken(d) /\ Refunded(d)' = Refunded(d)
    BY <1>2, NothingMoves
  <1>4. Refunded(r) = 0 /\ claims'[r] = row /\ row.amount \in Nat
    BY <1>2, NothingTaken DEF ClaimTurned, Wrote, ClaimRow
  <1>5. \A k \in Posted(claims') : k # r => k \in Posted(claims) /\ claims'[k] = claims[k]
    BY DEF ClaimTurned, Wrote, Posted
  <1>6. \A k \in Posted(claims') : Remaining(k)' >= 0
    <2> SUFFICES ASSUME NEW k \in Posted(claims') PROVE Remaining(k)' >= 0
      OBVIOUS
    <2>1. Remaining(k)' \in Int /\ Remaining(k)' = claims'[k].amount - Refunded(k)'
      BY <1>1 DEF AmountsLeftAre
    <2>2. CASE k = r
      BY <1>3, <1>4, <2>1, <2>2
    <2>3. CASE k # r
      <3>1. /\ k \in Posted(claims) /\ claims'[k] = claims[k] /\ Remaining(k) >= 0
            /\ Remaining(k) = claims[k].amount - Refunded(k)
        BY <1>1, <1>5, <2>3 DEF AmountsLeftAre, NeverOvercommitted
      <3> QED
        BY <1>3, <2>1, <3>1
    <2> QED
      BY <2>2, <2>3
  <1> QED
    BY <1>1, <1>2, <1>3, <1>6 DEF NeverOvercommitted, AmountsLeftAre, Posted, IsPosted

LEMMA RefundKeepsAmounts ==
  ASSUME DocInv, NeverOvercommitted, NEW f \in Refund, NEW row, NEW up \in BOOLEAN, RefundTurned(f, row, up)
  PROVE  NeverOvercommitted'
  <1>1. AmountsLeftAre /\ AmountsLeftAre'
    BY AmountsLeft, AmountsLeftNext DEF RefundTurned
  <1>2. /\ UNCHANGED <<purchases, advances, allocations, claims>>
        /\ \A q : Total(q)' = Total(q)
        /\ row \in RefundRow /\ (up => row.amount <= Remaining(row.claim))
    BY DEF RefundTurned, Total
  <1>3. /\ \A d : Refunded(d)' = Refunded(d) + (IF d = row.claim THEN Move(up, row.amount) ELSE 0)
        /\ \A d : Used(d)' = Used(d) /\ Taken(d)' = Taken(d)
        /\ \A d : Refunded(d) \in Nat
    BY <1>2, RefundMoves, NothingMoves, TakenTyped
  <1>4. row.amount \in Nat
    <2>1. row.amount \in Amount
      BY <1>2 DEF RefundRow
    <2> QED
      BY <2>1, Numbers
  <1>5. Posted(claims') = Posted(claims)
    BY <1>2 DEF Posted, IsPosted
  <1>6. \A r \in Posted(claims') : Remaining(r)' >= 0
    <2> SUFFICES ASSUME NEW r \in Posted(claims) PROVE Remaining(r)' >= 0
      BY <1>5
    <2>1. Remaining(r) \in Int /\ Remaining(r)' \in Int /\ Remaining(r) >= 0
          /\ Remaining(r) = claims[r].amount - Refunded(r) /\ Remaining(r)' = claims[r].amount - Refunded(r)'
          /\ Refunded(r)' = Refunded(r) + (IF r = row.claim THEN Move(up, row.amount) ELSE 0)
          /\ Refunded(r) \in Nat
      BY <1>1, <1>2, <1>3, <1>5 DEF AmountsLeftAre, NeverOvercommitted
    <2>2. claims[r].amount \in Int
      BY AmountsTyped
    <2> QED
      BY <1>2, <1>4, <2>1, <2>2 DEF Move
  <1> QED
    BY <1>1, <1>2, <1>3, <1>6 DEF NeverOvercommitted, AmountsLeftAre, Posted, IsPosted

LEMMA AmountsStep ==
  ASSUME DocInv, SourceInv, NeverOvercommitted, [Next]_vars
  PROVE  NeverOvercommitted'
  <1>1. CASE Next
    BY <1>1, StepIs, SavedKeepsAmounts, PostedKeepsAmounts, AdvanceKeepsAmounts, AllocationKeepsAmounts,
       ClaimKeepsAmounts, RefundKeepsAmounts
  <1>2. CASE UNCHANGED vars
    <2>1. PurchaseSaved
      BY <1>2, DocInvStep DEF vars, PurchaseSaved, Posted, IsPosted
    <2> QED
      BY <2>1, SavedKeepsAmounts
  <1> QED
    BY <1>1, <1>2
-----------------------------------------------------------------------------
(* The units of a line that were claimed, and what they were claimed for. *)
Standing(p, i) == ClaimsOn(p, i) \cap Posted(claims)
ClaimedUnits(p, i) == Sum(Standing(p, i), LAMBDA r : claims[r].quantity)
ClaimedAmount(p, i) == Sum(Standing(p, i), LAMBDA r : claims[r].amount)

\* No more units of a line are claimed than it had.
ClaimedWithin ==
  \A p \in Posted(purchases) : \A i \in DOMAIN purchases[p].lines :
    ClaimedUnits(p, i) <= purchases[p].lines[i].quantity

LEMMA StandingIs ==
  ASSUME DocInv, NEW p, NEW i
  PROVE  /\ Standing(p, i) = {r \in Posted(claims) : claims[r].purchase = p /\ claims[r].line = i}
         /\ IsFiniteSet(ClaimsOn(p, i)) /\ Standing(p, i) \subseteq ClaimsOn(p, i)
         /\ \A r \in ClaimsOn(p, i) : claims[r] \in ClaimRow /\ claims[r].quantity \in Nat /\ claims[r].amount \in Nat
  <1>1. DOMAIN claims = Claim /\ IsFiniteSet(Filled(claims))
    BY DEF DocInv, TypeOK, FiniteRows
  <1>2. Standing(p, i) = {r \in Posted(claims) : claims[r].purchase = p /\ claims[r].line = i}
    BY <1>1 DEF Standing, ClaimsOn, Posted, IsPosted, Free
  <1>3. ClaimsOn(p, i) \in SUBSET Filled(claims)
    BY <1>1 DEF ClaimsOn, Filled
  <1>4. IsFiniteSet(ClaimsOn(p, i))
    BY <1>1, <1>3, FS_Subset
  <1>5. \A r \in ClaimsOn(p, i) : claims[r] \in ClaimRow
    BY DEF ClaimsOn, DocInv, TypeOK, Free, Absent
  <1>6. \A r \in ClaimsOn(p, i) : claims[r].quantity \in Quantity /\ claims[r].amount \in Nat
    BY <1>5 DEF ClaimRow
  <1>7. \A r \in ClaimsOn(p, i) : claims[r].quantity \in Nat
    BY <1>6, Numbers
  <1> QED
    BY <1>2, <1>4, <1>5, <1>6, <1>7 DEF Standing

LEMMA ClaimedIsNat ==
  ASSUME DocInv, NEW p, NEW i
  PROVE  ClaimedUnits(p, i) \in Nat
  <1> DEFINE S == Standing(p, i)
             f == [r \in S |-> claims[r].quantity]
  <1>1. ClaimedUnits(p, i) = SumFunctionOnSet(f, S)
    BY DEF ClaimedUnits, Sum
  <1>2. IsFiniteSet(S) /\ \A r \in S : f[r] \in Nat
    <2>1. S \in SUBSET ClaimsOn(p, i) /\ \A r \in S : f[r] \in Nat
      BY StandingIs
    <2> QED
      BY <2>1, StandingIs, FS_Subset
  <1> HIDE DEF S, f
  <1> QED
    BY <1>1, <1>2, SumNat

\* What is still returnable does not count a standing claim again.
LEMMA ReturnableLeaves ==
  ASSUME DocInv, NEW p \in Posted(purchases), NEW i \in DOMAIN purchases[p].lines,
         NEW q \in Int, q <= Returnable(p, i)
  PROVE  ClaimedUnits(p, i) + q <= purchases[p].lines[i].quantity
  <1> DEFINE counted == IF purchases[p].mode = "IMMEDIATE" THEN ClaimsOn(p, i) ELSE Standing(p, i)
             f == [r \in counted |-> claims[r].quantity]
             S == Standing(p, i)
             g == [r \in S |-> claims[r].quantity]
             Q == purchases[p].lines[i].quantity
  <1>1. Returnable(p, i) = Q - SumFunctionOnSet(f, counted)
    BY DEF Returnable, Sum, Standing
  <1>2. /\ IsFiniteSet(counted) /\ S \in SUBSET counted /\ IsFiniteSet(S)
        /\ \A r \in counted : f[r] \in Nat
        /\ \A r \in S : g[r] = f[r]
    <2>1. /\ IsFiniteSet(ClaimsOn(p, i)) /\ S \in SUBSET ClaimsOn(p, i)
          /\ \A r \in ClaimsOn(p, i) : claims[r].quantity \in Nat
      BY StandingIs
    <2>2. IsFiniteSet(S)
      BY <2>1, FS_Subset
    <2> QED
      BY <2>1, <2>2
  <1>3. ClaimedUnits(p, i) = SumFunctionOnSet(g, S)
    BY DEF ClaimedUnits, Sum
  <1>4. Q \in Nat
    <2>1. IsPosted(purchases, p) /\ p \in Purchase
      BY PostedRows DEF Posted
    <2> QED
      BY <2>1, PostedLine
  <1> HIDE DEF counted, f, S, g, Q
  <1>5. SumFunctionOnSet(g, S) = SumFunctionOnSet(f, S) /\ SumFunctionOnSet(f, S) <= SumFunctionOnSet(f, counted)
    BY <1>2, SumAgree, SumSubset
  <1>6. SumFunctionOnSet(f, counted) \in Nat /\ SumFunctionOnSet(f, S) \in Nat
    BY <1>2, SumNat
  <1>7. ClaimedUnits(p, i) + q <= Q
    BY <1>1, <1>3, <1>4, <1>5, <1>6
  <1> QED
    BY <1>7 DEF Q

\* A claim moves the claimed units of its line.
LEMMA ClaimedMoves ==
  ASSUME DocInv, NEW x \in Claim, NEW row, NEW up \in BOOLEAN, ClaimTurned(x, row, up), NEW p, NEW i
  PROVE  ClaimedUnits(p, i)' = ClaimedUnits(p, i)
           + (IF p = row.purchase /\ i = row.line THEN Move(up, row.quantity) ELSE 0)
  <1> DEFINE X == claims
             Y == claims'
             n == row.quantity
  <1>1. /\ Wrote(X, Y, Claim, x, row) /\ TurnedStatus(X, x, row, up) /\ IsFiniteSet(Filled(X))
        /\ ~up => X[x].purchase = row.purchase /\ X[x].line = row.line /\ X[x].quantity = n
        /\ DocInv' /\ row \in ClaimRow
    BY DEF ClaimTurned, DocInv, FiniteRows
  <1>2. n \in Int
    <2>1. n \in Quantity
      BY <1>1 DEF ClaimRow
    <2> QED
      BY <2>1, Numbers
  <1>3. /\ \A j \in Posted(X) : X[j].quantity \in Int
        /\ \A j \in Posted(Y) : Y[j].quantity \in Int
    <2>1. Table(X, Claim, ClaimRow) /\ Table(Y, Claim, ClaimRow)
      BY <1>1, Tables, TablesNext
    <2> QED
      BY <2>1, RowAmounts
  <1>4. /\ Y[x] = row /\ Posted(X) \subseteq Claim /\ Posted(Y) \subseteq Claim
        /\ \A j \in Claim : j # x => Y[j] = X[j]
        /\ \A j \in Claim \ {x} : j \in Posted(X) <=> j \in Posted(Y)
        /\ (x \in Posted(Y) <=> up) /\ (x \in Posted(X) <=> ~up)
        /\ DOMAIN Y = Claim
    BY <1>1 DEF Wrote, Posted, TurnedStatus, IsPosted
  <1> DEFINE S == {j \in Posted(X) : X[j].purchase = p /\ X[j].line = i}
             T == {j \in Posted(Y) : Y[j].purchase = p /\ Y[j].line = i}
             f == [j \in S |-> X[j].quantity]
             g == [j \in T |-> Y[j].quantity]
             hit == p = row.purchase /\ i = row.line
  <1>5. ClaimedUnits(p, i) = SumFunctionOnSet(f, S) /\ ClaimedUnits(p, i)' = SumFunctionOnSet(g, T)
    <2>1. Standing(p, i) = S
      BY StandingIs
    <2>2. Standing(p, i)' = T
      BY <1>4 DEF Standing, ClaimsOn, Posted, IsPosted, Free
    <2> HIDE DEF S, T
    <2> QED
      BY <2>1, <2>2 DEF ClaimedUnits, Sum
  <1>6. S \subseteq Posted(X) /\ T \subseteq Posted(Y) /\ hit \in BOOLEAN
    OBVIOUS
  <1>7. Selected(X, Y, Claim, x, up, S, T, f, g, n, hit)
    BY <1>1, <1>2, <1>3, <1>4, <1>6 DEF Selected
  <1>8. Turning(X, Y, Claim, x, row, up)
    BY <1>1 DEF Turning
  <1> HIDE DEF S, T, f, g, hit, X, Y, n
  <1>9. SumFunctionOnSet(g, T) = SumFunctionOnSet(f, S) + (IF hit THEN Move(up, n) ELSE 0)
    BY <1>7, <1>8, TableTurned
  <1> QED
    BY <1>5, <1>9 DEF hit, n

LEMMA ClaimsSame ==
  UNCHANGED claims => \A p, i : ClaimedUnits(p, i)' = ClaimedUnits(p, i)
  <1>1. ASSUME UNCHANGED claims, NEW p, NEW i PROVE ClaimedUnits(p, i)' = ClaimedUnits(p, i)
    BY <1>1 DEF ClaimedUnits, Standing, ClaimsOn, Posted, IsPosted, Free, Sum
  <1> QED
    BY <1>1

LEMMA ClaimedStep ==
  ASSUME DocInv, SourceInv, ClaimedWithin, [Next]_vars
  PROVE  ClaimedWithin'
  <1>1. ASSUME UNCHANGED claims, \A p \in Posted(purchases') : p \in Posted(purchases) /\ purchases'[p] = purchases[p]
        PROVE  ClaimedWithin'
    BY <1>1, ClaimsSame DEF ClaimedWithin
  <1>2. CASE PurchaseSaved
    BY <1>1, <1>2 DEF PurchaseSaved
  <1>3. ASSUME NEW p \in Purchase, PurchasePosted(p) PROVE ClaimedWithin'
    <2>1. /\ UNCHANGED claims /\ Posted(purchases') = Posted(purchases) \cup {p}
          /\ \A q \in Posted(purchases) : q # p => purchases'[q] = purchases[q]
          /\ purchases'[p] \in PurchaseRow
          /\ \A r \in Claim : ~Free(claims, r) => claims[r].purchase # p
      BY <1>3, PostedRows DEF PurchasePosted
    <2>2. \A i : ClaimedUnits(p, i) = 0
      <3>1. \A i : Standing(p, i) = {}
        BY <2>1 DEF Standing, ClaimsOn
      <3> QED
        BY <3>1, SumEmpty DEF ClaimedUnits, Sum
    <2>3. \A i \in DOMAIN purchases'[p].lines : purchases'[p].lines[i].quantity \in Nat
      <3>1. purchases'[p].lines \in Lines
        BY <2>1 DEF PurchaseRow
      <3> QED
        BY <3>1, LinesTyped
    <2> SUFFICES ASSUME NEW q \in Posted(purchases'), NEW i \in DOMAIN purchases'[q].lines
                 PROVE  ClaimedUnits(q, i)' <= purchases'[q].lines[i].quantity
      BY DEF ClaimedWithin
    <2>4. ClaimedUnits(q, i)' = ClaimedUnits(q, i)
      BY <2>1, ClaimsSame
    <2>5. CASE q = p
      BY <2>2, <2>3, <2>4, <2>5
    <2>6. CASE q # p
      BY <2>1, <2>4, <2>6 DEF ClaimedWithin
    <2> QED
      BY <2>5, <2>6
  <1>4. ASSUME NEW r \in Claim, NEW row, NEW up \in BOOLEAN, ClaimTurned(r, row, up) PROVE ClaimedWithin'
    <2>1. /\ UNCHANGED purchases /\ row \in ClaimRow
          /\ (up => row.quantity <= Returnable(row.purchase, row.line))
      BY <1>4 DEF ClaimTurned
    <2>2. row.quantity \in Nat
      <3>1. row.quantity \in Quantity
        BY <2>1 DEF ClaimRow
      <3> QED
        BY <3>1, Numbers
    <2> SUFFICES ASSUME NEW q \in Posted(purchases), NEW i \in DOMAIN purchases[q].lines
                 PROVE  ClaimedUnits(q, i)' <= purchases[q].lines[i].quantity
      BY <2>1 DEF ClaimedWithin, Posted, IsPosted
    <2>3. ClaimedUnits(q, i)' = ClaimedUnits(q, i)
            + (IF q = row.purchase /\ i = row.line THEN Move(up, row.quantity) ELSE 0)
      BY <1>4, ClaimedMoves
    <2>4. /\ ClaimedUnits(q, i) \in Nat /\ ClaimedUnits(q, i) <= purchases[q].lines[i].quantity
          /\ purchases[q].lines[i].quantity \in Nat
      <3>1. IsPosted(purchases, q) /\ q \in Purchase
        BY PostedRows DEF Posted
      <3> QED
        BY <3>1, ClaimedIsNat, PostedLine DEF ClaimedWithin
    <2>5. CASE up /\ q = row.purchase /\ i = row.line
      <3>1. ClaimedUnits(q, i) + row.quantity <= purchases[q].lines[i].quantity
        BY <2>1, <2>2, <2>5, ReturnableLeaves
      <3> QED
        BY <2>3, <2>5, <3>1 DEF Move
    <2>6. CASE ~(up /\ q = row.purchase /\ i = row.line)
      BY <2>2, <2>3, <2>4, <2>6 DEF Move
    <2> QED
      BY <2>5, <2>6
  <1>5. ASSUME UNCHANGED <<purchases, claims>> PROVE ClaimedWithin'
    BY <1>1, <1>5 DEF Posted, IsPosted
  <1>6. CASE Next
    BY <1>2, <1>3, <1>4, <1>5, <1>6, StepIs DEF AdvanceTurned, AllocationTurned, RefundTurned
  <1>7. CASE UNCHANGED vars
    BY <1>5, <1>7 DEF vars
  <1> QED
    BY <1>6, <1>7
-----------------------------------------------------------------------------
\* Half a cent per claim and half a step per unit is all that rounding can add.
LEMMA CostBound ==
  ASSUME DocInv, ClaimedWithin
  PROVE  ClaimsWithinCost
  <1> SUFFICES ASSUME NEW p \in Posted(purchases), NEW i \in DOMAIN purchases[p].lines
               PROVE  2 * Cent * ClaimedAmount(p, i)
                        <= 2 * Cent * LineCost(purchases[p], i) + purchases[p].lines[i].quantity
                             + Cent * Cardinality(Standing(p, i))
    BY DEF ClaimsWithinCost, ClaimedAmount, Standing
  <1> DEFINE S == Standing(p, i)
             f == [r \in S |-> claims[r].amount]
             g == [r \in S |-> claims[r].quantity]
             U == UnitCost(purchases[p], i)
             C == LineCost(purchases[p], i)
             Q == purchases[p].lines[i].quantity
             n == Cardinality(S)
             A == SumFunctionOnSet(f, S)
             K == SumFunctionOnSet(g, S)
  <1>1. p \in Purchase /\ IsPosted(purchases, p)
    BY PostedRows DEF Posted
  <1>2. C \in Nat /\ U \in Nat /\ Q \in Nat \ {0} /\ Cent \in Nat \ {0}
    BY <1>1, PostedLine, Numbers
  <1>3. /\ IsFiniteSet(S) /\ \A r \in S : f[r] \in Nat /\ g[r] \in Nat
    <2>1. S \in SUBSET ClaimsOn(p, i) /\ \A r \in S : f[r] \in Nat /\ g[r] \in Nat
      BY StandingIs
    <2> QED
      BY <2>1, StandingIs, FS_Subset
  <1>4. \A r \in S : f[r] = HalfUp(g[r] * U, Cent)
    <2>1. \A r \in S : r \in Claim /\ ~Free(claims, r) /\ claims[r].purchase = p /\ claims[r].line = i
      BY DEF Standing, ClaimsOn
    <2> QED
      BY <2>1 DEF DocInv, ClaimsStand, ClaimAt
  <1>5. 2 * (Q * U) <= 2 * (Cent * C) + Q
    <2>1. U = HalfUp(Cent * C, Q)
      BY DEF UnitCost
    <2>2. Cent * C \in Int
      BY <1>2
    <2> HIDE DEF U, C, Q
    <2> QED
      BY <1>2, <2>1, <2>2, HalfUpIs
  <1>6. K <= Q
    <2>1. ClaimedUnits(p, i) = K
      BY DEF ClaimedUnits, Sum
    <2> QED
      BY <2>1 DEF ClaimedWithin
  <1>7. ClaimedAmount(p, i) = A
    BY DEF ClaimedAmount, Sum
  <1> HIDE DEF S, f, g, U, C, Q
  <1>8. \A r \in S : (2 * Cent) * f[r] <= (2 * U) * g[r] + Cent
    <2> SUFFICES ASSUME NEW r \in S PROVE (2 * Cent) * f[r] <= (2 * U) * g[r] + Cent
      OBVIOUS
    <2> DEFINE a == f[r]
               k == g[r]
    <2>1. a \in Nat /\ k \in Nat /\ a = HalfUp(k * U, Cent)
      BY <1>3, <1>4
    <2> HIDE DEF a, k
    <2>2. k * U \in Int
      BY <1>2, <2>1
    <2>3. 2 * (Cent * a) <= 2 * (k * U) + Cent
      BY <1>2, <2>1, <2>2, HalfUpIs
    <2>4. (2 * Cent) * a = 2 * (Cent * a) /\ (2 * U) * k = 2 * (k * U)
      BY <1>2, <2>1
    <2> QED
      BY <1>2, <2>1, <2>2, <2>3, <2>4 DEF a, k
  <1>9. (2 * Cent) * A <= (2 * U) * K + Cent * n
    <2>1. IntOn(f, S) /\ IntOn(g, S)
      BY <1>3 DEF IntOn
    <2>2. 2 * Cent \in Int /\ 2 * U \in Int /\ Cent \in Int
      BY <1>2
    <2> QED
      BY <1>3, <1>8, <2>1, <2>2, SumLinear
  <1>10. A \in Nat /\ K \in Nat /\ n \in Nat
    BY <1>3, SumNat, FS_CardinalityType
  <1> HIDE DEF A, K, n
  <1>11. U * K <= U * Q
    BY <1>2, <1>6, <1>10
  <1>12. /\ (2 * U) * K = 2 * (U * K) /\ U * Q = Q * U /\ (2 * Cent) * A = 2 * Cent * A
         /\ 2 * (Cent * C) = 2 * Cent * C /\ U * K \in Nat /\ U * Q \in Nat /\ Cent * n \in Nat
         /\ Cent * C \in Nat /\ 2 * Cent * C \in Nat /\ 2 * Cent * A \in Nat
    BY <1>2, <1>10
  <1>13. 2 * Cent * A <= 2 * Cent * C + Q + Cent * n
    BY <1>2, <1>5, <1>9, <1>11, <1>12
  <1> QED
    BY <1>7, <1>13 DEF C, Q, n, S
-----------------------------------------------------------------------------
(* The shares of a discount, as proportions of the gross. *)
Off(lines, discount, i) ==
  2 * (DiscountShares(lines, discount)[i] * Gross(lines) - discount * lines[i].gross)

\* Every line but the last rounds to half a cent, and the last takes the rest.
LEMMA SharesAreFair ==
  ASSUME NEW lines \in Lines, NEW discount \in Nat, discount <= Gross(lines), NEW i \in 1 .. Len(lines)
  PROVE  LET limit == Gross(lines) * (IF i < Len(lines) THEN 1 ELSE Len(lines) - 1)
         IN Off(lines, discount, i) \in (-limit) .. limit
  <1> DEFINE n == Len(lines)
             G == Gross(lines)
             h == [j \in 1 .. (n - 1) |-> IF G = 0 THEN 0 ELSE HalfUp(discount * lines[j].gross, G)]
             g == [j \in 1 .. n |-> lines[j].gross]
             R == 1 .. (n - 1)
             H == SumFunctionOnSet(h, R)
             K == SumFunctionOnSet(g, R)
             share == DiscountShares(lines, discount)[i]
  <1>1. n \in Nat /\ n >= 1 /\ i \in 1 .. n /\ G \in Nat /\ (\A j \in 1 .. n : g[j] \in Nat) /\ discount \in Nat
        /\ discount <= G /\ g[i] = lines[i].gross
    BY LinesTyped, LineSums
  <1>2. share = IF i < n THEN (IF G = 0 THEN 0 ELSE HalfUp(discount * lines[i].gross, G)) ELSE discount - H
    BY DEF DiscountShares, Sum
  <1>3. G = SumFunctionOnSet(g, 1 .. n)
    BY LinesTyped DEF Gross, Sum
  <1>4. \A j \in R : h[j] = IF G = 0 THEN 0 ELSE HalfUp(discount * g[j], G)
    BY <1>1
  <1>5. i < n => h[i] = share /\ i \in R
    BY <1>1, <1>2
  <1>6. R = 1 .. (n - 1)
    OBVIOUS
  <1>7. /\ IsFiniteSet(R) /\ R = (1 .. n) \ {n} /\ IsFiniteSet(1 .. n) /\ n \in 1 .. n /\ R \subseteq 1 .. n
        /\ Cardinality(R) = n - 1
    <2> HIDE DEF n
    <2>1. n - 1 \in Int /\ 1 \in Int /\ n \in Int /\ (n - 1) - 1 + 1 = n - 1
      BY <1>1
    <2>2. IsFiniteSet(R) /\ IsFiniteSet(1 .. n)
      BY <2>1, FS_Interval
    <2>3. Cardinality(R) = n - 1
      <3>1. \A k \in Nat : Cardinality(1 .. k) = k
        BY FS_Interval
      <3> QED
        BY <1>1, <3>1
    <2> QED
      BY <1>1, <2>2, <2>3
  <1> HIDE DEF n, G, h, g, R, share
  <1>8. \A j \in R : h[j] \in Int /\ (2 * G) * h[j] <= (2 * discount) * g[j] + G
                                  /\ (2 * discount) * g[j] <= (2 * G) * h[j] + G
    <2> SUFFICES ASSUME NEW j \in R
                 PROVE  h[j] \in Int /\ (2 * G) * h[j] <= (2 * discount) * g[j] + G
                                     /\ (2 * discount) * g[j] <= (2 * G) * h[j] + G
      OBVIOUS
    <2> DEFINE a == h[j]
               b == g[j]
    <2>1. a = (IF G = 0 THEN 0 ELSE HalfUp(discount * b, G)) /\ b \in Nat
      BY <1>1, <1>4, <1>7
    <2> HIDE DEF a, b
    <2>2. CASE G = 0
      <3>1. discount = 0 /\ a = 0
        BY <1>1, <2>1, <2>2
      <3> QED
        BY <2>1, <2>2, <3>1 DEF a, b
    <2>3. CASE G # 0
      <3>1. discount * b \in Int /\ G \in Nat \ {0} /\ a = HalfUp(discount * b, G)
        BY <1>1, <2>1, <2>3
      <3>2. a \in Int /\ 2 * (G * a) <= 2 * (discount * b) + G /\ 2 * (discount * b) < 2 * (G * a) + G
        BY <3>1, HalfUpIs
      <3>3. (2 * G) * a = 2 * (G * a) /\ (2 * discount) * b = 2 * (discount * b) /\ G * a \in Int
        BY <1>1, <2>1, <3>2
      <3>4. a \in Int /\ (2 * G) * a <= (2 * discount) * b + G /\ (2 * discount) * b <= (2 * G) * a + G
        BY SMTT(30), <1>1, <3>1, <3>2, <3>3
      <3> QED
        BY <3>4 DEF a, b
    <2> QED
      BY <2>2, <2>3
  <1>9. H \in Int /\ K \in Int
    <2>1. IntOn(h, R) /\ IntOn(g, R)
      BY <1>1, <1>7, <1>8 DEF IntOn
    <2> QED
      BY <1>7, <2>1, SumInt
  <1>10. CASE i < n
    <2> DEFINE a == h[i]
               b == g[i]
    <2>1. /\ a \in Int /\ b \in Nat /\ (2 * G) * a <= (2 * discount) * b + G
          /\ (2 * discount) * b <= (2 * G) * a + G
          /\ share = a
      BY <1>1, <1>5, <1>8, <1>10
    <2> HIDE DEF a, b
    <2>2. /\ (2 * G) * a = 2 * (a * G) /\ (2 * discount) * b = 2 * (discount * b)
          /\ a * G \in Int /\ discount * b \in Int
      BY <1>1, <2>1
    <2>3. 2 * (a * G - discount * b) \in (-G) .. G
      BY <1>1, <2>1, <2>2
    <2>4. G * 1 = G
      BY <1>1
    <2>5. Off(lines, discount, i) = 2 * (a * G - discount * b)
      <3>1. lines[i].gross = b
        BY <1>1 DEF b
      <3> QED
        BY <2>1, <3>1 DEF Off, G, share
    <2>6. Off(lines, discount, i) \in (-(G * 1)) .. (G * 1)
      BY <2>3, <2>4, <2>5
    <2> HIDE DEF share
    <2> QED
      BY <1>10, <2>6 DEF G, n
  <1>11. CASE i = n
    <2>1. /\ (2 * G) * H <= (2 * discount) * K + G * (n - 1)
          /\ (2 * discount) * K <= (2 * G) * H + G * (n - 1)
      <3>1. IntOn(h, R) /\ IntOn(g, R) /\ 2 * G \in Int /\ 2 * discount \in Int /\ G \in Int
        BY <1>1, <1>7, <1>8 DEF IntOn
      <3>2. (2 * G) * H <= (2 * discount) * K + G * Cardinality(R)
        BY <1>7, <1>8, <3>1, SumLinear
      <3>3. (2 * discount) * K <= (2 * G) * H + G * Cardinality(R)
        BY <1>7, <1>8, <3>1, SumLinear
      <3> QED
        BY <1>7, <3>2, <3>3
    <2>2. G = g[n] + K
      <3>1. IntOn(g, 1 .. n)
        BY <1>1 DEF IntOn
      <3> QED
        BY <1>3, <1>7, <3>1, SumRemove
    <2> DEFINE b == g[n]
    <2>3. b \in Nat /\ share = discount - H /\ lines[i].gross = b
      BY <1>1, <1>2, <1>11
    <2>4. G = b + K
      BY <2>2
    <2> HIDE DEF b, H, K
    <2>5. /\ (2 * G) * H = 2 * (H * G) /\ (2 * discount) * K = 2 * (discount * K)
          /\ (discount - H) * G = discount * G - H * G
          /\ discount * G = discount * b + discount * K
          /\ H * G \in Int /\ discount * K \in Int /\ discount * b \in Int /\ G * (n - 1) \in Int
      BY <1>1, <1>9, <2>3, <2>4
    <2>6. 2 * ((discount - H) * G - discount * b) \in (-(G * (n - 1))) .. (G * (n - 1))
      <3> DEFINE u == H * G
                 v == discount * K
                 w == discount * b
                 m == G * (n - 1)
      <3>1. u \in Int /\ v \in Int /\ w \in Int /\ m \in Int /\ 2 * u <= 2 * v + m /\ 2 * v <= 2 * u + m
            /\ (discount - H) * G - discount * b = w + v - u - w
        BY <2>1, <2>5
      <3> HIDE DEF u, v, w, m
      <3>2. 2 * (w + v - u - w) \in (-m) .. m
        BY <3>1
      <3> QED
        BY <3>1, <3>2 DEF m
    <2> QED
      BY <1>1, <1>11, <2>3, <2>6 DEF Off, G, n, share
  <1> QED
    BY <1>1, <1>10, <1>11 DEF n, G

LEMMA DiscountBound ==
  ASSUME DocInv
  PROVE  DiscountIsFair
  <1> SUFFICES ASSUME NEW p \in Purchase, ~Free(purchases, p), NEW i \in 1 .. Len(purchases[p].lines)
               PROVE  LET lines == purchases[p].lines
                          limit == Gross(lines) * (IF i < Len(lines) THEN 1 ELSE Len(lines) - 1)
                      IN Off(lines, purchases[p].discount, i) \in (-limit) .. limit
    BY DEF DiscountIsFair, Off
  <1>1. purchases[p] \in PurchaseRow /\ Recordable(purchases[p])
    BY DEF DocInv, TypeOK, PurchasesRecordable, Free, Absent
  <1>2. /\ purchases[p].lines \in Lines /\ purchases[p].discount \in Nat
        /\ purchases[p].discount <= Gross(purchases[p].lines)
    BY <1>1, SupplierAssumption DEF PurchaseRow, Recordable
  <1> QED
    BY <1>2, SharesAreFair
-----------------------------------------------------------------------------
(* The ledger, supplier by supplier and currency by currency. *)
ClaimSupplier(r) == purchases[claims[r].purchase].supplier
RefundSupplier(f) == ClaimSupplier(refunds[f].claim)
RefundedCurrency(f) == ClaimCurrency(refunds[f].claim)

ClaimSet(s, c) == {r \in Posted(claims) : ClaimSupplier(r) = s /\ ClaimCurrency(r) = c}
SameSet(s, c) ==
  {f \in Posted(refunds) : RefundSupplier(f) = s /\ RefundedCurrency(f) = c /\ refunds[f].currency = c}
BridgedSet(s, c) ==
  {f \in Posted(refunds) : RefundSupplier(f) = s /\ RefundedCurrency(f) = c /\ refunds[f].currency # c}
ReceivedSet(s, c) ==
  {f \in Posted(refunds) : RefundSupplier(f) = s /\ RefundedCurrency(f) # c /\ refunds[f].currency = c}

PurchaseSum(s, c) == Sum(Owned(purchases, s, c), Unallocated)
ClaimSum(s, c) == Sum(ClaimSet(s, c), Remaining)
SameSum(s, c) == Sum(SameSet(s, c), LAMBDA f : refunds[f].amount)
BridgedSum(s, c) == Sum(BridgedSet(s, c), LAMBDA f : refunds[f].amount)
ReceivedSum(s, c) == Sum(ReceivedSet(s, c), LAMBDA f : refunds[f].paid)

\* What holds of the ledger whatever is refunded in the claim's own currency:
\* such a refund moves 2110 away from the documents by twice its amount.
TiesAt(s, c) ==
  /\ gl[<<Prepaid, s, c>>] = PrepaidTo(s, c)
  /\ gl[<<Payable, s, c>>] = ClaimSum(s, c) - PurchaseSum(s, c) + 2 * SameSum(s, c)
  /\ gl[<<Clearing, s, c>>] = BridgedSum(s, c) - ReceivedSum(s, c)

LedgerInv == \A s \in Supplier, c \in Currency : TiesAt(s, c)

\* The sets of the property are these.
LEMMA SetsAre ==
  ASSUME DocInv, SourceInv, NEW s, NEW c
  PROVE  LET paid == {f \in Posted(refunds) : refunds[f].claim \in ClaimsOf(s, c)}
         IN /\ ClaimsOf(s, c) = ClaimSet(s, c)
            /\ {f \in paid : ~SameCurrency(f)} = BridgedSet(s, c)
            /\ {f \in paid : SameCurrency(f)} = SameSet(s, c)
            /\ {f \in Posted(refunds) : /\ refunds[f].currency = c
                                        /\ ~SameCurrency(f)
                                        /\ purchases[claims[refunds[f].claim].purchase].supplier = s}
                 = ReceivedSet(s, c)
  <1>1. \A r \in Posted(claims) : claims[r].purchase \in Posted(purchases)
    BY SourcesTyped DEF SourceInv, References, Rows, Shaped, Posted
  <1>2. ClaimsOf(s, c) = ClaimSet(s, c)
    BY <1>1 DEF ClaimsOf, ClaimSet, Owned, ClaimSupplier, ClaimCurrency
  <1>3. \A f \in Posted(refunds) : refunds[f].claim \in Posted(claims)
    BY SourcesTyped DEF SourceInv, References, Rows, Shaped, Posted
  <1>4. \A f \in Posted(refunds) : refunds[f].claim \in ClaimsOf(s, c)
                                     <=> RefundSupplier(f) = s /\ RefundedCurrency(f) = c
    BY <1>2, <1>3 DEF ClaimSet, RefundSupplier, RefundedCurrency
  <1>5. \A f \in Posted(refunds) : SameCurrency(f) <=> refunds[f].currency = RefundedCurrency(f)
    BY DEF SameCurrency, RefundedCurrency
  <1>6. \A f \in Posted(refunds) : purchases[claims[refunds[f].claim].purchase].supplier = RefundSupplier(f)
    BY DEF RefundSupplier, ClaimSupplier
  <1> QED
    BY <1>2, <1>4, <1>5, <1>6 DEF BridgedSet, SameSet, ReceivedSet

LEMMA SumsTyped ==
  ASSUME DocInv, SourceInv, NEW s, NEW c
  PROVE  /\ PrepaidTo(s, c) \in Int /\ PurchaseSum(s, c) \in Int /\ ClaimSum(s, c) \in Int
         /\ SameSum(s, c) \in Int /\ BridgedSum(s, c) \in Int /\ ReceivedSum(s, c) \in Int
  <1>1. /\ IsFiniteSet(Filled(purchases)) /\ IsFiniteSet(Filled(advances)) /\ IsFiniteSet(Filled(claims))
        /\ IsFiniteSet(Filled(refunds)) /\ AmountsLeftAre
    BY AmountsLeft DEF DocInv, FiniteRows
  <1>2. PrepaidTo(s, c) \in Int
    <2> DEFINE S == Owned(advances, s, c)
               f == [x \in S |-> Available(x)]
    <2>1. PrepaidTo(s, c) = SumFunctionOnSet(f, S) /\ S \subseteq Posted(advances)
      BY DEF PrepaidTo, Sum, Owned
    <2>2. IsFiniteSet(S) /\ IntOn(f, S)
      BY <1>1, <2>1, PostedFinite DEF IntOn, AmountsLeftAre
    <2> HIDE DEF S, f
    <2> QED
      BY <2>1, <2>2, SumInt
  <1>3. PurchaseSum(s, c) \in Int
    <2> DEFINE S == Owned(purchases, s, c)
               f == [x \in S |-> Unallocated(x)]
    <2>1. PurchaseSum(s, c) = SumFunctionOnSet(f, S) /\ S \subseteq Posted(purchases)
      BY DEF PurchaseSum, Sum, Owned
    <2>2. IsFiniteSet(S) /\ IntOn(f, S)
      BY <1>1, <2>1, PostedFinite DEF IntOn, AmountsLeftAre
    <2> HIDE DEF S, f
    <2> QED
      BY <2>1, <2>2, SumInt
  <1>4. ClaimSum(s, c) \in Int
    <2> DEFINE S == ClaimSet(s, c)
               f == [x \in S |-> Remaining(x)]
    <2>1. ClaimSum(s, c) = SumFunctionOnSet(f, S) /\ S \subseteq Posted(claims)
      BY DEF ClaimSum, Sum, ClaimSet
    <2>2. IsFiniteSet(S) /\ IntOn(f, S)
      BY <1>1, <2>1, PostedFinite DEF IntOn, AmountsLeftAre
    <2> HIDE DEF S, f
    <2> QED
      BY <2>1, <2>2, SumInt
  <1>5. SameSum(s, c) \in Int
    <2> DEFINE S == SameSet(s, c)
               f == [x \in S |-> refunds[x].amount]
    <2>1. SameSum(s, c) = SumFunctionOnSet(f, S) /\ S \subseteq Posted(refunds)
      BY DEF SameSum, Sum, SameSet
    <2>2. IsFiniteSet(S) /\ IntOn(f, S)
      BY <1>1, <2>1, PostedFinite, AmountsTyped DEF IntOn
    <2> HIDE DEF S, f
    <2> QED
      BY <2>1, <2>2, SumInt
  <1>6. BridgedSum(s, c) \in Int
    <2> DEFINE S == BridgedSet(s, c)
               f == [x \in S |-> refunds[x].amount]
    <2>1. BridgedSum(s, c) = SumFunctionOnSet(f, S) /\ S \subseteq Posted(refunds)
      BY DEF BridgedSum, Sum, BridgedSet
    <2>2. IsFiniteSet(S) /\ IntOn(f, S)
      BY <1>1, <2>1, PostedFinite, AmountsTyped DEF IntOn
    <2> HIDE DEF S, f
    <2> QED
      BY <2>1, <2>2, SumInt
  <1>7. ReceivedSum(s, c) \in Int
    <2> DEFINE S == ReceivedSet(s, c)
               f == [x \in S |-> refunds[x].paid]
    <2>1. ReceivedSum(s, c) = SumFunctionOnSet(f, S) /\ S \subseteq Posted(refunds)
      BY DEF ReceivedSum, Sum, ReceivedSet
    <2>2. IsFiniteSet(S) /\ IntOn(f, S)
      BY <1>1, <2>1, PostedFinite, AmountsTyped DEF IntOn
    <2> HIDE DEF S, f
    <2> QED
      BY <2>1, <2>2, SumInt
  <1> QED
    BY <1>2, <1>3, <1>4, <1>5, <1>6, <1>7

\* With no refund in the claim's own currency the payable is what is owed.
LEMMA LedgerTies ==
  ASSUME DocInv, SourceInv, LedgerInv
  PROVE  SupplierLedgerTies
  <1> SUFFICES ASSUME NEW s \in Supplier, NEW c \in Currency
               PROVE  LET paid == {f \in Posted(refunds) : refunds[f].claim \in ClaimsOf(s, c)}
                          bridged == {f \in paid : ~SameCurrency(f)}
                          received == {f \in Posted(refunds) :
                                         /\ refunds[f].currency = c
                                         /\ ~SameCurrency(f)
                                         /\ purchases[claims[refunds[f].claim].purchase].supplier = s}
                      IN /\ gl[<<Prepaid, s, c>>] = PrepaidTo(s, c)
                         /\ paid = bridged => gl[<<Payable, s, c>>] = -OwedTo(s, c)
                         /\ gl[<<Clearing, s, c>>] =
                              Sum(bridged, LAMBDA f : refunds[f].amount) - Sum(received, LAMBDA f : refunds[f].paid)
    BY DEF SupplierLedgerTies
  <1> DEFINE paid == {f \in Posted(refunds) : refunds[f].claim \in ClaimsOf(s, c)}
             bridged == {f \in paid : ~SameCurrency(f)}
             received == {f \in Posted(refunds) : /\ refunds[f].currency = c
                                                  /\ ~SameCurrency(f)
                                                  /\ purchases[claims[refunds[f].claim].purchase].supplier = s}
  <1>1. TiesAt(s, c)
    BY DEF LedgerInv
  <1>2. /\ bridged = BridgedSet(s, c) /\ received = ReceivedSet(s, c)
        /\ {f \in paid : SameCurrency(f)} = SameSet(s, c) /\ ClaimsOf(s, c) = ClaimSet(s, c)
    BY SetsAre
  <1>3. OwedTo(s, c) = PurchaseSum(s, c) - ClaimSum(s, c)
    BY <1>2 DEF OwedTo, PurchaseSum, ClaimSum
  <1>4. ASSUME paid = bridged PROVE SameSum(s, c) = 0
    <2>1. SameSet(s, c) = {}
      BY <1>2, <1>4
    <2> QED
      BY <2>1, SumEmpty DEF SameSum, Sum
  <1>5. PurchaseSum(s, c) \in Int /\ ClaimSum(s, c) \in Int
    BY SumsTyped
  <1> HIDE DEF bridged, received, paid
  <1>6. /\ Sum(bridged, LAMBDA f : refunds[f].amount) = BridgedSum(s, c)
        /\ Sum(received, LAMBDA f : refunds[f].paid) = ReceivedSum(s, c)
    BY <1>2 DEF BridgedSum, ReceivedSum
  <1>7. /\ gl[<<Prepaid, s, c>>] = PrepaidTo(s, c)
        /\ paid = bridged => gl[<<Payable, s, c>>] = -OwedTo(s, c)
        /\ gl[<<Clearing, s, c>>] =
             Sum(bridged, LAMBDA f : refunds[f].amount) - Sum(received, LAMBDA f : refunds[f].paid)
    BY <1>1, <1>3, <1>4, <1>5, <1>6 DEF TiesAt
  <1> QED
    BY <1>7 DEF bridged, received, paid
-----------------------------------------------------------------------------
(* What a journal does to an account. *)
Side(acc, debit, credit, n) == IF acc = debit THEN n ELSE IF acc = credit THEN -n ELSE 0

LEMMA JournalAt ==
  ASSUME NEW acc \in Account, NEW s \in Supplier, NEW c \in Currency,
         NEW debit, NEW credit, debit # credit, NEW t, NEW e, NEW n \in Int
  PROVE  Journal(debit, credit, t, e, n)[<<acc, s, c>>]
           = IF s = t /\ c = e THEN Side(acc, debit, credit, n) ELSE 0
  BY DEF Journal, Side

LEMMA GlMoves ==
  ASSUME DocInv, NEW up \in BOOLEAN, NEW f, f \in [Account \X Supplier \X Currency -> Int], BookOrMirror(up, f),
         NEW acc \in Account, NEW s \in Supplier, NEW c \in Currency
  PROVE  /\ gl[<<acc, s, c>>] \in Int /\ f[<<acc, s, c>>] \in Int
         /\ gl'[<<acc, s, c>>] = gl[<<acc, s, c>>] + Move(up, f[<<acc, s, c>>])
  <1>1. gl \in [Account \X Supplier \X Currency -> Int]
    BY DEF DocInv, TypeOK
  <1>2. <<acc, s, c>> \in Account \X Supplier \X Currency
    OBVIOUS
  <1>3. CASE up
    BY <1>1, <1>2, <1>3 DEF BookOrMirror, Book, Move
  <1>4. CASE ~up
    BY <1>1, <1>2, <1>4 DEF BookOrMirror, Mirror, Move
  <1> QED
    BY <1>3, <1>4

LEMMA Posts ==
  ASSUME DocInv, NEW up \in BOOLEAN, NEW debit, NEW credit, debit # credit, NEW t, NEW e, NEW n \in Int,
         BookOrMirror(up, Journal(debit, credit, t, e, n)),
         NEW acc \in Account, NEW s \in Supplier, NEW c \in Currency
  PROVE  /\ gl[<<acc, s, c>>] \in Int
         /\ gl'[<<acc, s, c>>] = gl[<<acc, s, c>>]
              + (IF s = t /\ c = e THEN Move(up, Side(acc, debit, credit, n)) ELSE 0)
  <1> DEFINE f == Journal(debit, credit, t, e, n)
  <1>1. f \in [Account \X Supplier \X Currency -> Int] /\ BookOrMirror(up, f)
    BY JournalTyped
  <1>2. f[<<acc, s, c>>] = IF s = t /\ c = e THEN Side(acc, debit, credit, n) ELSE 0
    BY JournalAt
  <1> HIDE DEF f
  <1>3. /\ gl[<<acc, s, c>>] \in Int
        /\ gl'[<<acc, s, c>>] = gl[<<acc, s, c>>] + Move(up, f[<<acc, s, c>>])
    BY ZenonT(30), <1>1, GlMoves
  <1> QED
    BY <1>2, <1>3 DEF Move

LEMMA Accounts ==
  /\ Cash \in Account /\ Stock \in Account /\ Prepaid \in Account /\ Clearing \in Account /\ Payable \in Account
  /\ Cash # Stock /\ Cash # Prepaid /\ Cash # Clearing /\ Cash # Payable /\ Stock # Prepaid
  /\ Stock # Clearing /\ Stock # Payable /\ Prepaid # Clearing /\ Prepaid # Payable /\ Clearing # Payable
  BY DEF Account, Cash, Stock, Prepaid, Clearing, Payable
-----------------------------------------------------------------------------
(* Sums of documents that a step does not touch. *)
LEMMA PrepaidSame ==
  ASSUME UNCHANGED <<advances, allocations>>, NEW s, NEW c
  PROVE  PrepaidTo(s, c)' = PrepaidTo(s, c)
  BY DEF PrepaidTo, Sum, Owned, Available, AllocationsOf, Posted, IsPosted

LEMMA PurchaseSumSame ==
  ASSUME UNCHANGED allocations, Posted(purchases') = Posted(purchases),
         \A p \in Posted(purchases) : purchases'[p] = purchases[p], NEW s, NEW c
  PROVE  PurchaseSum(s, c)' = PurchaseSum(s, c)
  <1> DEFINE S == Owned(purchases, s, c)
             f == [p \in S |-> Unallocated(p)]
             g == [p \in S |-> Unallocated(p)']
  <1>1. Owned(purchases', s, c) = S
    BY DEF Owned
  <1>2. PurchaseSum(s, c) = SumFunctionOnSet(f, S)
    BY DEF PurchaseSum, Sum
  <1>3. PurchaseSum(s, c)' = SumFunctionOnSet(g, S)
    <2>1. PurchaseSum(s, c)' = SumFunctionOnSet([p \in Owned(purchases', s, c) |-> Unallocated(p)'],
                                                Owned(purchases', s, c))
      BY DEF PurchaseSum, Sum
    <2> HIDE DEF S
    <2> QED
      BY <1>1, <2>1
  <1>4. \A p \in S : Unallocated(p)' = Unallocated(p)
    <2>1. \A p \in S : p \in Posted(purchases)
      BY DEF Owned
    <2>2. \A p \in S : Total(p)' = Total(p)
      BY <2>1 DEF Total
    <2>3. \A p : Taken(p)' = Taken(p)
      BY NothingMoves
    <2>4. \A p : Unallocated(p) = Total(p) - Taken(p) /\ Unallocated(p)' = Total(p)' - Taken(p)'
      BY DEF Unallocated, Taken
    <2> QED
      BY <2>2, <2>3, <2>4
  <1>5. f = g
    BY <1>4
  <1> QED
    BY <1>2, <1>3, <1>5

LEMMA ClaimSumSame ==
  ASSUME UNCHANGED <<claims, refunds>>,
         \A r \in Posted(claims) : ClaimSupplier(r)' = ClaimSupplier(r) /\ ClaimCurrency(r)' = ClaimCurrency(r),
         NEW s, NEW c
  PROVE  ClaimSum(s, c)' = ClaimSum(s, c)
  <1> DEFINE S == ClaimSet(s, c)
             f == [r \in S |-> Remaining(r)]
  <1>1. ClaimSet(s, c)' = S
    BY DEF ClaimSet, Posted, IsPosted
  <1>2. \A r : Remaining(r)' = Remaining(r)
    <2> SUFFICES ASSUME NEW r PROVE Remaining(r)' = Remaining(r)
      OBVIOUS
    <2> QED
      BY DEF Remaining, RefundsOf, Posted, IsPosted, Sum
  <1>3. ClaimSum(s, c) = SumFunctionOnSet(f, S)
    BY DEF ClaimSum, Sum
  <1>4. ClaimSum(s, c)' = SumFunctionOnSet(f, S)
    <2>1. ClaimSum(s, c)' = SumFunctionOnSet([r \in ClaimSet(s, c)' |-> Remaining(r)'], ClaimSet(s, c)')
      BY DEF ClaimSum, Sum
    <2>2. [r \in ClaimSet(s, c)' |-> Remaining(r)'] = f
      BY <1>1, <1>2
    <2> QED
      BY <1>1, <2>1, <2>2
  <1> QED
    BY <1>3, <1>4

LEMMA RefundSumsSame ==
  ASSUME UNCHANGED refunds,
         \A f \in Posted(refunds) : /\ RefundSupplier(f)' = RefundSupplier(f)
                                    /\ RefundedCurrency(f)' = RefundedCurrency(f),
         NEW s, NEW c
  PROVE  /\ SameSum(s, c)' = SameSum(s, c) /\ BridgedSum(s, c)' = BridgedSum(s, c)
         /\ ReceivedSum(s, c)' = ReceivedSum(s, c)
  <1>1. /\ SameSet(s, c)' = SameSet(s, c) /\ BridgedSet(s, c)' = BridgedSet(s, c)
        /\ ReceivedSet(s, c)' = ReceivedSet(s, c)
    BY DEF SameSet, BridgedSet, ReceivedSet, Posted, IsPosted
  <1> QED
    BY <1>1 DEF SameSum, BridgedSum, ReceivedSum, Sum

\* The supplier and currency of a claim stay while it and its purchase do.
LEMMA KeysStay ==
  ASSUME SourceInv, UNCHANGED claims,
         \A p \in Posted(purchases) : purchases'[p].supplier = purchases[p].supplier
                                      /\ purchases'[p].currency = purchases[p].currency
  PROVE  \A r \in Posted(claims) : ClaimSupplier(r)' = ClaimSupplier(r) /\ ClaimCurrency(r)' = ClaimCurrency(r)
  <1>1. \A r \in Posted(claims) : claims[r].purchase \in Posted(purchases)
    BY SourcesTyped DEF SourceInv, References, Rows, Shaped, Posted
  <1> QED
    BY <1>1 DEF ClaimSupplier, ClaimCurrency

LEMMA RefundKeysStay ==
  ASSUME SourceInv, UNCHANGED refunds, NEW S,
         \A r \in S : ClaimSupplier(r)' = ClaimSupplier(r) /\ ClaimCurrency(r)' = ClaimCurrency(r),
         \A f \in Posted(refunds) : refunds[f].claim \in S
  PROVE  \A f \in Posted(refunds) : RefundSupplier(f)' = RefundSupplier(f)
                                    /\ RefundedCurrency(f)' = RefundedCurrency(f)
  <1> SUFFICES ASSUME NEW f \in Posted(refunds)
               PROVE  RefundSupplier(f)' = RefundSupplier(f) /\ RefundedCurrency(f)' = RefundedCurrency(f)
    OBVIOUS
  <1>1. PICK r \in S : r = refunds[f].claim /\ r = refunds'[f].claim
    OBVIOUS
  <1>2. /\ RefundSupplier(f) = ClaimSupplier(r) /\ RefundedCurrency(f) = ClaimCurrency(r)
        /\ RefundSupplier(f)' = ClaimSupplier(r)' /\ RefundedCurrency(f)' = ClaimCurrency(r)'
    BY <1>1 DEF RefundSupplier, RefundedCurrency, ClaimSupplier, ClaimCurrency
  <1> QED
    BY <1>1, <1>2

LEMMA RefundsOnPosted ==
  ASSUME SourceInv
  PROVE  \A f \in Posted(refunds) : refunds[f].claim \in Posted(claims)
  BY SourcesTyped DEF SourceInv, References, Rows, Shaped, Posted
-----------------------------------------------------------------------------
(* The ledger ties after each kind of step. *)
LEMMA SavedLedger ==
  ASSUME SourceInv, LedgerInv, PurchaseSaved
  PROVE  LedgerInv'
  <1> SUFFICES ASSUME NEW s \in Supplier, NEW c \in Currency PROVE TiesAt(s, c)'
    BY DEF LedgerInv
  <1>1. /\ UNCHANGED <<gl, advances, allocations, claims, refunds>> /\ Posted(purchases') = Posted(purchases)
        /\ \A q \in Posted(purchases) : purchases'[q] = purchases[q]
    BY DEF PurchaseSaved
  <1>2. \A r \in Posted(claims) : ClaimSupplier(r)' = ClaimSupplier(r) /\ ClaimCurrency(r)' = ClaimCurrency(r)
    BY <1>1, KeysStay
  <1>3. \A f \in Posted(refunds) : RefundSupplier(f)' = RefundSupplier(f)
                                   /\ RefundedCurrency(f)' = RefundedCurrency(f)
    BY <1>1, <1>2, RefundKeysStay, RefundsOnPosted
  <1>4. PrepaidTo(s, c)' = PrepaidTo(s, c)
    BY <1>1, PrepaidSame
  <1>5. PurchaseSum(s, c)' = PurchaseSum(s, c)
    BY <1>1, PurchaseSumSame
  <1>6. ClaimSum(s, c)' = ClaimSum(s, c)
    BY <1>1, <1>2, ClaimSumSame
  <1>7. /\ SameSum(s, c)' = SameSum(s, c) /\ BridgedSum(s, c)' = BridgedSum(s, c)
        /\ ReceivedSum(s, c)' = ReceivedSum(s, c)
    BY <1>1, <1>3, RefundSumsSame
  <1> QED
    BY <1>1, <1>4, <1>5, <1>6, <1>7 DEF TiesAt, LedgerInv

LEMMA PostedPurchaseSum ==
  ASSUME DocInv, NEW p \in Purchase, PurchasePosted(p), NEW s, NEW c
  PROVE  PurchaseSum(s, c)' = PurchaseSum(s, c)
           + (IF s = purchases[p].supplier /\ c = purchases[p].currency THEN Total(p) ELSE 0)
  <1> DEFINE S == Owned(purchases, s, c)
             T == Owned(purchases', s, c)
             f == [q \in S |-> Unallocated(q)]
             g == [q \in T |-> Unallocated(q)']
             n == Total(p)
             hit == s = purchases[p].supplier /\ c = purchases[p].currency
  <1>1. /\ AmountsLeftAre /\ AmountsLeftAre' /\ IsFiniteSet(Filled(purchases)) /\ UNCHANGED allocations
        /\ ~IsPosted(purchases, p) /\ Posted(purchases') = Posted(purchases) \cup {p}
        /\ \A q \in Posted(purchases) : q # p => purchases'[q] = purchases[q]
        /\ purchases'[p].supplier = purchases[p].supplier /\ purchases'[p].currency = purchases[p].currency
        /\ Total(p)' = n /\ n \in Int /\ Taken(p) = 0
    BY AmountsLeft, AmountsLeftNext, NothingTaken, PostedRows DEF PurchasePosted, DocInv, FiniteRows
  <1>2. S \subseteq Posted(purchases) /\ T \subseteq Posted(purchases') /\ p \notin S /\ p \notin Posted(purchases)
    BY <1>1 DEF Owned, Posted
  <1>3. IsFiniteSet(S)
    BY <1>1, <1>2, PostedFinite
  <1>4. S \ {p} = T \ {p} /\ (p \in T <=> hit)
    BY <1>1, <1>2 DEF Owned
  <1>5. IntOn(f, S) /\ IntOn(g, T)
    BY <1>1, <1>2 DEF IntOn, AmountsLeftAre
  <1>6. \A q : Taken(q)' = Taken(q)
    BY <1>1, NothingMoves
  <1>7. \A q \in S \ {p} : g[q] = f[q]
    <2> SUFFICES ASSUME NEW q \in S, q # p PROVE g[q] = f[q]
      OBVIOUS
    <2>1. q \in T /\ q \in Posted(purchases) /\ q \in Posted(purchases')
      BY <1>2, <1>4
    <2>2. Total(q)' = Total(q)
      BY <1>1, <2>1 DEF Total
    <2>3. Unallocated(q) = Total(q) - Taken(q) /\ Unallocated(q)' = Total(q)' - Taken(q)'
      BY <1>1, <2>1 DEF AmountsLeftAre
    <2> QED
      BY <1>6, <2>1, <2>2, <2>3
  <1>8. hit => g[p] = n
    <2>1. p \in T => Unallocated(p)' = Total(p)' - Taken(p)'
      BY <1>1, <1>2 DEF AmountsLeftAre
    <2> QED
      BY <1>1, <1>4, <1>6, <2>1
  <1>9. PurchaseSum(s, c) = SumFunctionOnSet(f, S) /\ PurchaseSum(s, c)' = SumFunctionOnSet(g, T)
    BY DEF PurchaseSum, Sum
  <1>10. hit \in BOOLEAN /\ n \in Int
    BY <1>1
  <1> HIDE DEF S, T, f, g, n, hit
  <1>11. /\ SumFunctionOnSet(f, S) \in Int
         /\ SumFunctionOnSet(g, T) = SumFunctionOnSet(f, S) - (IF p \in S THEN f[p] ELSE 0)
                                                            + (IF p \in T THEN g[p] ELSE 0)
    BY <1>3, <1>4, <1>5, <1>7, SumChange
  <1>12. SumFunctionOnSet(g, T) = SumFunctionOnSet(f, S) + (IF hit THEN n ELSE 0)
    BY <1>2, <1>4, <1>8, <1>10, <1>11
  <1> QED
    BY <1>9, <1>12 DEF hit, n

LEMMA PostedLedger ==
  ASSUME DocInv, SourceInv, LedgerInv, NEW p \in Purchase, PurchasePosted(p)
  PROVE  LedgerInv'
  <1> SUFFICES ASSUME NEW s \in Supplier, NEW c \in Currency PROVE TiesAt(s, c)'
    BY DEF LedgerInv
  <1> DEFINE hit == s = purchases[p].supplier /\ c = purchases[p].currency
             n == Total(p)
  <1>1. /\ UNCHANGED <<advances, allocations, claims, refunds>>
        /\ Posted(purchases') = Posted(purchases) \cup {p} /\ ~IsPosted(purchases, p)
        /\ \A q \in Posted(purchases) : purchases'[q].supplier = purchases[q].supplier
                                        /\ purchases'[q].currency = purchases[q].currency
        /\ n \in Int
        /\ Book(Journal(Stock, Payable, purchases[p].supplier, purchases[p].currency, n))
    BY PostedRows DEF PurchasePosted
  <1>0. PICK up \in BOOLEAN : up
    OBVIOUS
  <1>2. \A r \in Posted(claims) : ClaimSupplier(r)' = ClaimSupplier(r) /\ ClaimCurrency(r)' = ClaimCurrency(r)
    BY <1>1, KeysStay
  <1>3. \A f \in Posted(refunds) : RefundSupplier(f)' = RefundSupplier(f)
                                   /\ RefundedCurrency(f)' = RefundedCurrency(f)
    BY <1>1, <1>2, RefundKeysStay, RefundsOnPosted
  <1>4. PrepaidTo(s, c)' = PrepaidTo(s, c)
    BY <1>1, PrepaidSame
  <1>5. PurchaseSum(s, c)' = PurchaseSum(s, c) + (IF hit THEN n ELSE 0)
    BY PostedPurchaseSum
  <1>6. ClaimSum(s, c)' = ClaimSum(s, c)
    BY <1>1, <1>2, ClaimSumSame
  <1>7. /\ SameSum(s, c)' = SameSum(s, c) /\ BridgedSum(s, c)' = BridgedSum(s, c)
        /\ ReceivedSum(s, c)' = ReceivedSum(s, c)
    BY <1>1, <1>3, RefundSumsSame
  <1>8. \A acc \in Account : /\ gl[<<acc, s, c>>] \in Int
                             /\ gl'[<<acc, s, c>>] = gl[<<acc, s, c>>]
                                  + (IF hit THEN Move(up, Side(acc, Stock, Payable, n)) ELSE 0)
    <2>1. BookOrMirror(up, Journal(Stock, Payable, purchases[p].supplier, purchases[p].currency, n))
      BY <1>0, <1>1 DEF BookOrMirror
    <2> QED
      BY <1>1, <2>1, Posts, Accounts
  <1>9. PurchaseSum(s, c) \in Int /\ ClaimSum(s, c) \in Int /\ SameSum(s, c) \in Int
    BY SumsTyped
  <1>10. TiesAt(s, c)
    BY DEF LedgerInv
  <1> HIDE DEF hit, n
  <1>11. /\ gl'[<<Prepaid, s, c>>] = gl[<<Prepaid, s, c>>]
         /\ gl'[<<Payable, s, c>>] = gl[<<Payable, s, c>>] - (IF hit THEN n ELSE 0)
         /\ gl'[<<Clearing, s, c>>] = gl[<<Clearing, s, c>>] /\ gl[<<Payable, s, c>>] \in Int
    BY <1>0, <1>1, <1>8, Accounts DEF Move, Side
  <1> QED
    BY <1>1, <1>4, <1>5, <1>6, <1>7, <1>9, <1>10, <1>11 DEF TiesAt

LEMMA AdvancePrepaid ==
  ASSUME DocInv, NEW x \in Advance, NEW row, NEW up \in BOOLEAN, AdvanceTurned(x, row, up), NEW s, NEW c
  PROVE  PrepaidTo(s, c)' = PrepaidTo(s, c)
           + (IF s = row.supplier /\ c = row.currency THEN Move(up, row.amount) ELSE 0)
  <1> DEFINE X == advances
             Y == advances'
             n == row.amount
             S == Owned(X, s, c)
             T == Owned(Y, s, c)
             f == [a \in S |-> Available(a)]
             g == [a \in T |-> Available(a)']
             hit == s = row.supplier /\ c = row.currency
  <1>1. /\ Turning(X, Y, Advance, x, row, up) /\ row \in AdvanceRow /\ UNCHANGED allocations
        /\ ~up => X[x].supplier = row.supplier /\ X[x].currency = row.currency /\ X[x].amount = n
        /\ AmountsLeftAre /\ AmountsLeftAre' /\ Used(x) = 0
    BY AmountsLeft, AmountsLeftNext, NothingTaken DEF AdvanceTurned, Turning, DocInv, FiniteRows
  <1>2. n \in Int
    <2>1. n \in Amount
      BY <1>1 DEF AdvanceRow
    <2> QED
      BY <2>1, Numbers
  <1>3. /\ Y[x] = row /\ Posted(X) \subseteq Advance /\ Posted(Y) \subseteq Advance
        /\ \A j \in Advance : j # x => Y[j] = X[j]
        /\ \A j \in Advance \ {x} : j \in Posted(X) <=> j \in Posted(Y)
        /\ (x \in Posted(Y) <=> up) /\ (x \in Posted(X) <=> ~up)
    BY <1>1 DEF Turning, Wrote, Posted, TurnedStatus, IsPosted
  <1>4. S \subseteq Posted(X) /\ T \subseteq Posted(Y) /\ hit \in BOOLEAN
    BY DEF Owned
  <1>5. \A a : Used(a)' = Used(a)
    BY <1>1, NothingMoves
  <1>6. (\A a \in S : f[a] \in Int) /\ (\A a \in T : g[a] \in Int)
    BY <1>1, <1>4 DEF AmountsLeftAre
  <1>7. \A a \in Advance \ {x} : a \in S <=> a \in T
    BY <1>3 DEF Owned
  <1>8. \A a \in S \ {x} : g[a] = f[a]
    <2> SUFFICES ASSUME NEW a \in S, a # x PROVE g[a] = f[a]
      OBVIOUS
    <2>1. a \in T /\ a \in Posted(X) /\ a \in Posted(Y) /\ Y[a] = X[a]
      BY <1>3, <1>4, <1>7
    <2>2. Available(a) = X[a].amount - Used(a) /\ Available(a)' = Y[a].amount - Used(a)'
      BY <1>1, <2>1 DEF AmountsLeftAre
    <2> QED
      BY <1>5, <2>1, <2>2
  <1>9. IF up THEN (x \in T <=> hit) /\ (hit => g[x] = n) ELSE (x \in S <=> hit) /\ (hit => f[x] = n)
    <2>1. CASE up
      <3>1. x \in T <=> hit
        BY <1>3, <2>1 DEF Owned
      <3>2. x \in T => Available(x)' = Y[x].amount - Used(x)'
        BY <1>1, <1>4 DEF AmountsLeftAre
      <3> QED
        BY <1>1, <1>2, <1>3, <1>5, <2>1, <3>1, <3>2
    <2>2. CASE ~up
      <3>1. x \in S <=> hit
        BY <1>1, <1>3, <2>2 DEF Owned
      <3>2. x \in S => Available(x) = X[x].amount - Used(x)
        BY <1>1, <1>4 DEF AmountsLeftAre
      <3> QED
        BY <1>1, <1>2, <2>2, <3>1, <3>2
    <2> QED
      BY <2>1, <2>2
  <1>10. PrepaidTo(s, c) = SumFunctionOnSet(f, S) /\ PrepaidTo(s, c)' = SumFunctionOnSet(g, T)
    BY DEF PrepaidTo, Sum
  <1> HIDE DEF X, Y, n, S, T, f, g, hit
  <1>11. Selected(X, Y, Advance, x, up, S, T, f, g, n, hit)
    BY <1>2, <1>4, <1>6, <1>7, <1>8, <1>9 DEF Selected
  <1>12. SumFunctionOnSet(g, T) = SumFunctionOnSet(f, S) + (IF hit THEN Move(up, n) ELSE 0)
    BY <1>1, <1>11, TableTurned
  <1> QED
    BY <1>10, <1>12 DEF hit, n

LEMMA AdvanceLedger ==
  ASSUME DocInv, SourceInv, LedgerInv, NEW a \in Advance, NEW row, NEW up \in BOOLEAN, AdvanceTurned(a, row, up)
  PROVE  LedgerInv'
  <1> SUFFICES ASSUME NEW s \in Supplier, NEW c \in Currency PROVE TiesAt(s, c)'
    BY DEF LedgerInv
  <1> DEFINE hit == s = row.supplier /\ c = row.currency
             n == row.amount
  <1>1. /\ UNCHANGED <<purchases, allocations, claims, refunds>> /\ row \in AdvanceRow
        /\ BookOrMirror(up, Journal(Prepaid, Cash, row.supplier, row.currency, n))
    BY DEF AdvanceTurned, AdvanceJournal
  <1>2. n \in Int
    <2>1. n \in Amount
      BY <1>1 DEF AdvanceRow
    <2> QED
      BY <2>1, Numbers
  <1>3. \A r \in Posted(claims) : ClaimSupplier(r)' = ClaimSupplier(r) /\ ClaimCurrency(r)' = ClaimCurrency(r)
    BY <1>1, KeysStay
  <1>4. \A f \in Posted(refunds) : RefundSupplier(f)' = RefundSupplier(f)
                                   /\ RefundedCurrency(f)' = RefundedCurrency(f)
    BY <1>1, <1>3, RefundKeysStay, RefundsOnPosted
  <1>5. PurchaseSum(s, c)' = PurchaseSum(s, c) /\ ClaimSum(s, c)' = ClaimSum(s, c)
    BY <1>1, <1>3, PurchaseSumSame, ClaimSumSame
  <1>6. /\ SameSum(s, c)' = SameSum(s, c) /\ BridgedSum(s, c)' = BridgedSum(s, c)
        /\ ReceivedSum(s, c)' = ReceivedSum(s, c)
    BY <1>1, <1>4, RefundSumsSame
  <1>7. PrepaidTo(s, c)' = PrepaidTo(s, c) + (IF hit THEN Move(up, n) ELSE 0)
    BY AdvancePrepaid
  <1>8. \A acc \in Account : /\ gl[<<acc, s, c>>] \in Int
                             /\ gl'[<<acc, s, c>>] = gl[<<acc, s, c>>]
                                  + (IF hit THEN Move(up, Side(acc, Prepaid, Cash, n)) ELSE 0)
    BY <1>1, <1>2, Posts, Accounts
  <1>9. TiesAt(s, c)
    BY DEF LedgerInv
  <1> HIDE DEF hit, n
  <1>10. /\ gl'[<<Prepaid, s, c>>] = gl[<<Prepaid, s, c>>] + (IF hit THEN Move(up, n) ELSE 0)
         /\ gl'[<<Payable, s, c>>] = gl[<<Payable, s, c>>]
         /\ gl'[<<Clearing, s, c>>] = gl[<<Clearing, s, c>>]
    BY <1>2, <1>8, Accounts DEF Move, Side
  <1> QED
    BY <1>5, <1>6, <1>7, <1>9, <1>10 DEF TiesAt

LEMMA AllocationPrepaid ==
  ASSUME DocInv, NEW x \in Allocation, NEW row, NEW up \in BOOLEAN, AllocationTurned(x, row, up), NEW s, NEW c
  PROVE  PrepaidTo(s, c)' = PrepaidTo(s, c)
           + (IF s = advances[row.advance].supplier /\ c = advances[row.advance].currency
              THEN -Move(up, row.amount) ELSE 0)
  <1> DEFINE S == Owned(advances, s, c)
             a == row.advance
             f == [d \in S |-> Available(d)]
             g == [d \in S |-> Available(d)']
             m == -Move(up, row.amount)
             hit == s = advances[a].supplier /\ c = advances[a].currency
  <1>1. /\ UNCHANGED advances /\ AmountsLeftAre /\ AmountsLeftAre' /\ IsFiniteSet(Filled(advances))
        /\ row \in AllocationRow /\ IsPosted(advances, a)
    BY AmountsLeft, AmountsLeftNext DEF AllocationTurned, DocInv, FiniteRows
  <1>2. row.amount \in Int /\ a \in Advance
    <2>1. row.amount \in Amount /\ a \in Advance
      BY <1>1 DEF AllocationRow
    <2> QED
      BY <2>1, Numbers
  <1>3. /\ S \subseteq Posted(advances) /\ Posted(advances') = Posted(advances)
        /\ Owned(advances', s, c) = S /\ (a \in S <=> hit)
    BY <1>1, <1>2 DEF Owned, Posted, DocInv, TypeOK
  <1>4. IsFiniteSet(S)
    BY <1>1, <1>3, PostedFinite
  <1>5. IntOn(f, S) /\ IntOn(g, S)
    BY <1>1, <1>3 DEF IntOn, AmountsLeftAre
  <1>6. /\ \A d : Used(d)' = Used(d) + (IF d = a THEN Move(up, row.amount) ELSE 0)
        /\ \A d : Used(d) \in Nat
    BY UsedMoves, TakenTyped
  <1>7. \A d \in S : g[d] = f[d] + (IF d = a THEN m ELSE 0)
    <2> SUFFICES ASSUME NEW d \in S PROVE Available(d)' = Available(d) + (IF d = a THEN m ELSE 0)
      OBVIOUS
    <2>1. /\ Available(d) = advances[d].amount - Used(d)
          /\ Available(d)' = advances[d].amount - Used(d)'
      BY <1>1, <1>3 DEF AmountsLeftAre
    <2>2. advances[d].amount \in Int
      BY <1>3, AmountsTyped
    <2>3. Used(d)' = Used(d) + (IF d = a THEN Move(up, row.amount) ELSE 0) /\ Used(d) \in Nat
      BY <1>6
    <2> QED
      BY <1>2, <2>1, <2>2, <2>3 DEF Move
  <1>8. m \in Int
    BY <1>2 DEF Move
  <1>9. PrepaidTo(s, c) = SumFunctionOnSet(f, S)
    BY DEF PrepaidTo, Sum
  <1>10. PrepaidTo(s, c)' = SumFunctionOnSet(g, S)
    <2>1. PrepaidTo(s, c)' = SumFunctionOnSet([d \in Owned(advances', s, c) |-> Available(d)'],
                                              Owned(advances', s, c))
      BY DEF PrepaidTo, Sum
    <2> HIDE DEF S
    <2> QED
      BY <1>3, <2>1
  <1>11. /\ \A d \in S \ {a} : g[d] = f[d]
         /\ a \in S => g[a] = f[a] + m
    <2>1. \A d \in S : f[d] \in Int
      BY <1>5 DEF IntOn
    <2> HIDE DEF S, a, f, g, m
    <2> QED
      BY <1>7, <2>1
  <1> HIDE DEF S, a, f, g, m, hit
  <1>12. SumFunctionOnSet(g, S) = SumFunctionOnSet(f, S) + (IF a \in S THEN m ELSE 0)
    BY ZenonT(30), <1>4, <1>5, <1>8, <1>11, SumMoved
  <1>13. PrepaidTo(s, c)' = PrepaidTo(s, c) + (IF hit THEN m ELSE 0)
    BY <1>3, <1>9, <1>10, <1>12
  <1> QED
    BY <1>13 DEF hit, m, a

LEMMA AllocationTaken ==
  ASSUME DocInv, NEW x \in Allocation, NEW row, NEW up \in BOOLEAN, AllocationTurned(x, row, up), NEW s, NEW c
  PROVE  PurchaseSum(s, c)' = PurchaseSum(s, c)
           + (IF s = purchases[row.purchase].supplier /\ c = purchases[row.purchase].currency
              THEN -Move(up, row.amount) ELSE 0)
  <1> DEFINE S == Owned(purchases, s, c)
             p == row.purchase
             f == [d \in S |-> Unallocated(d)]
             g == [d \in S |-> Unallocated(d)']
             m == -Move(up, row.amount)
             hit == s = purchases[p].supplier /\ c = purchases[p].currency
  <1>1. /\ UNCHANGED purchases /\ AmountsLeftAre /\ AmountsLeftAre' /\ IsFiniteSet(Filled(purchases))
        /\ row \in AllocationRow /\ IsPosted(purchases, p)
    BY AmountsLeft, AmountsLeftNext DEF AllocationTurned, DocInv, FiniteRows
  <1>2. row.amount \in Int /\ p \in Purchase
    <2>1. row.amount \in Amount /\ p \in Purchase
      BY <1>1 DEF AllocationRow
    <2> QED
      BY <2>1, Numbers
  <1>3. /\ S \subseteq Posted(purchases) /\ Posted(purchases') = Posted(purchases)
        /\ Owned(purchases', s, c) = S /\ (p \in S <=> hit)
    BY <1>1, <1>2 DEF Owned, Posted, DocInv, TypeOK
  <1>4. IsFiniteSet(S)
    BY <1>1, <1>3, PostedFinite
  <1>5. IntOn(f, S) /\ IntOn(g, S)
    BY <1>1, <1>3 DEF IntOn, AmountsLeftAre
  <1>6. /\ \A d : Taken(d)' = Taken(d) + (IF d = p THEN Move(up, row.amount) ELSE 0)
        /\ \A d : Taken(d) \in Nat
    BY TakenMoves, TakenTyped
  <1>7. \A d \in S : g[d] = f[d] + (IF d = p THEN m ELSE 0)
    <2> SUFFICES ASSUME NEW d \in S PROVE Unallocated(d)' = Unallocated(d) + (IF d = p THEN m ELSE 0)
      OBVIOUS
    <2>1. Total(d)' = Total(d)
      BY <1>1 DEF Total
    <2>2. /\ Unallocated(d) = Total(d) - Taken(d) /\ Unallocated(d)' = Total(d)' - Taken(d)'
      BY <1>1, <1>3 DEF AmountsLeftAre
    <2>3. Total(d) \in Int
      BY <1>3, AmountsTyped
    <2>4. Taken(d)' = Taken(d) + (IF d = p THEN Move(up, row.amount) ELSE 0) /\ Taken(d) \in Nat
      BY <1>6
    <2> QED
      BY <1>2, <2>1, <2>2, <2>3, <2>4 DEF Move
  <1>8. m \in Int
    BY <1>2 DEF Move
  <1>9. PurchaseSum(s, c) = SumFunctionOnSet(f, S)
    BY DEF PurchaseSum, Sum
  <1>10. PurchaseSum(s, c)' = SumFunctionOnSet(g, S)
    <2>1. PurchaseSum(s, c)' = SumFunctionOnSet([d \in Owned(purchases', s, c) |-> Unallocated(d)'],
                                                Owned(purchases', s, c))
      BY DEF PurchaseSum, Sum
    <2> HIDE DEF S
    <2> QED
      BY <1>3, <2>1
  <1>11. /\ \A d \in S \ {p} : g[d] = f[d]
         /\ p \in S => g[p] = f[p] + m
    <2>1. \A d \in S : f[d] \in Int
      BY <1>5 DEF IntOn
    <2> HIDE DEF S, p, f, g, m
    <2> QED
      BY <1>7, <2>1
  <1> HIDE DEF S, p, f, g, m, hit
  <1>12. SumFunctionOnSet(g, S) = SumFunctionOnSet(f, S) + (IF p \in S THEN m ELSE 0)
    BY ZenonT(30), <1>4, <1>5, <1>8, <1>11, SumMoved
  <1>13. PurchaseSum(s, c)' = PurchaseSum(s, c) + (IF hit THEN m ELSE 0)
    BY <1>3, <1>9, <1>10, <1>12
  <1> QED
    BY <1>13 DEF hit, m, p

LEMMA AllocationLedger ==
  ASSUME DocInv, SourceInv, LedgerInv, NEW x \in Allocation, NEW row, NEW up \in BOOLEAN,
         AllocationTurned(x, row, up)
  PROVE  LedgerInv'
  <1> SUFFICES ASSUME NEW s \in Supplier, NEW c \in Currency PROVE TiesAt(s, c)'
    BY DEF LedgerInv
  <1> DEFINE a == advances[row.advance]
             hit == s = a.supplier /\ c = a.currency
             n == row.amount
  <1>1. /\ UNCHANGED <<purchases, advances, claims, refunds>> /\ row \in AllocationRow
        /\ BookOrMirror(up, Journal(Payable, Prepaid, a.supplier, a.currency, n))
        /\ a.supplier = purchases[row.purchase].supplier /\ a.currency = purchases[row.purchase].currency
    BY DEF AllocationTurned, AllocationJournal
  <1>2. n \in Int
    <2>1. n \in Amount
      BY <1>1 DEF AllocationRow
    <2> QED
      BY <2>1, Numbers
  <1>3. \A r \in Posted(claims) : ClaimSupplier(r)' = ClaimSupplier(r) /\ ClaimCurrency(r)' = ClaimCurrency(r)
    BY <1>1, KeysStay
  <1>4. \A f \in Posted(refunds) : RefundSupplier(f)' = RefundSupplier(f)
                                   /\ RefundedCurrency(f)' = RefundedCurrency(f)
    BY <1>1, <1>3, RefundKeysStay, RefundsOnPosted
  <1>5. ClaimSum(s, c)' = ClaimSum(s, c)
    BY <1>1, <1>3, ClaimSumSame
  <1>6. /\ SameSum(s, c)' = SameSum(s, c) /\ BridgedSum(s, c)' = BridgedSum(s, c)
        /\ ReceivedSum(s, c)' = ReceivedSum(s, c)
    BY <1>1, <1>4, RefundSumsSame
  <1>7. /\ PrepaidTo(s, c)' = PrepaidTo(s, c) + (IF hit THEN -Move(up, n) ELSE 0)
        /\ PurchaseSum(s, c)' = PurchaseSum(s, c) + (IF hit THEN -Move(up, n) ELSE 0)
    BY <1>1, AllocationPrepaid, AllocationTaken
  <1>8. \A acc \in Account : /\ gl[<<acc, s, c>>] \in Int
                             /\ gl'[<<acc, s, c>>] = gl[<<acc, s, c>>]
                                  + (IF hit THEN Move(up, Side(acc, Payable, Prepaid, n)) ELSE 0)
    BY <1>1, <1>2, Posts, Accounts
  <1>9. TiesAt(s, c)
    BY DEF LedgerInv
  <1>10. /\ PrepaidTo(s, c) \in Int /\ PurchaseSum(s, c) \in Int /\ ClaimSum(s, c) \in Int
         /\ SameSum(s, c) \in Int
    BY SumsTyped
  <1> HIDE DEF hit, n
  <1>11. /\ gl'[<<Prepaid, s, c>>] = gl[<<Prepaid, s, c>>] + (IF hit THEN -Move(up, n) ELSE 0)
         /\ gl'[<<Payable, s, c>>] = gl[<<Payable, s, c>>] + (IF hit THEN Move(up, n) ELSE 0)
         /\ gl'[<<Clearing, s, c>>] = gl[<<Clearing, s, c>>]
         /\ gl[<<Prepaid, s, c>>] \in Int /\ gl[<<Payable, s, c>>] \in Int
    BY <1>2, <1>8, Accounts DEF Move, Side
  <1>12. Move(up, n) \in Int
    BY <1>2 DEF Move
  <1> QED
    BY <1>5, <1>6, <1>7, <1>9, <1>10, <1>11, <1>12 DEF TiesAt

LEMMA ClaimClaimed ==
  ASSUME DocInv, NEW x \in Claim, NEW row, NEW up \in BOOLEAN, ClaimTurned(x, row, up), NEW s, NEW c
  PROVE  ClaimSum(s, c)' = ClaimSum(s, c)
           + (IF s = purchases[row.purchase].supplier /\ c = purchases[row.purchase].currency
              THEN Move(up, row.amount) ELSE 0)
  <1> DEFINE X == claims
             Y == claims'
             n == row.amount
             S == ClaimSet(s, c)
             T == ClaimSet(s, c)'
             f == [r \in S |-> Remaining(r)]
             g == [r \in T |-> Remaining(r)']
             hit == s = purchases[row.purchase].supplier /\ c = purchases[row.purchase].currency
  <1>1. /\ Turning(X, Y, Claim, x, row, up) /\ row \in ClaimRow /\ UNCHANGED <<purchases, refunds>>
        /\ ~up => X[x].purchase = row.purchase /\ X[x].amount = n
        /\ AmountsLeftAre /\ AmountsLeftAre' /\ Refunded(x) = 0
    BY AmountsLeft, AmountsLeftNext, NothingTaken DEF ClaimTurned, Turning, DocInv, FiniteRows
  <1>2. n \in Int
    BY <1>1 DEF ClaimRow
  <1>3. /\ Y[x] = row /\ Posted(X) \subseteq Claim /\ Posted(Y) \subseteq Claim
        /\ \A j \in Claim : j # x => Y[j] = X[j]
        /\ \A j \in Claim \ {x} : j \in Posted(X) <=> j \in Posted(Y)
        /\ (x \in Posted(Y) <=> up) /\ (x \in Posted(X) <=> ~up)
    BY <1>1 DEF Turning, Wrote, Posted, TurnedStatus, IsPosted
  <1>4. S \subseteq Posted(X) /\ T \subseteq Posted(Y) /\ hit \in BOOLEAN
    BY DEF ClaimSet
  <1>5. \A r : Refunded(r)' = Refunded(r)
    BY <1>1, NothingMoves
  <1>6. (\A r \in S : f[r] \in Int) /\ (\A r \in T : g[r] \in Int)
    BY <1>1, <1>4 DEF AmountsLeftAre
  <1>7. \A r \in Claim \ {x} : r \in S <=> r \in T
    BY <1>1, <1>3 DEF ClaimSet, ClaimSupplier, ClaimCurrency
  <1>8. \A r \in S \ {x} : g[r] = f[r]
    <2> SUFFICES ASSUME NEW r \in S, r # x PROVE g[r] = f[r]
      OBVIOUS
    <2>1. r \in T /\ r \in Posted(X) /\ r \in Posted(Y) /\ Y[r] = X[r]
      BY <1>3, <1>4, <1>7
    <2>2. Remaining(r) = X[r].amount - Refunded(r) /\ Remaining(r)' = Y[r].amount - Refunded(r)'
      BY <1>1, <2>1 DEF AmountsLeftAre
    <2> QED
      BY <1>5, <2>1, <2>2
  <1>9. IF up THEN (x \in T <=> hit) /\ (hit => g[x] = n) ELSE (x \in S <=> hit) /\ (hit => f[x] = n)
    <2>1. CASE up
      <3>1. x \in T <=> hit
        BY <1>1, <1>3, <2>1 DEF ClaimSet, ClaimSupplier, ClaimCurrency
      <3>2. x \in T => Remaining(x)' = Y[x].amount - Refunded(x)'
        BY <1>1, <1>4 DEF AmountsLeftAre
      <3> QED
        BY <1>1, <1>2, <1>3, <1>5, <2>1, <3>1, <3>2
    <2>2. CASE ~up
      <3>1. x \in S <=> hit
        BY <1>1, <1>3, <2>2 DEF ClaimSet, ClaimSupplier, ClaimCurrency
      <3>2. x \in S => Remaining(x) = X[x].amount - Refunded(x)
        BY <1>1, <1>4 DEF AmountsLeftAre
      <3> QED
        BY <1>1, <1>2, <2>2, <3>1, <3>2
    <2> QED
      BY <2>1, <2>2
  <1>10. ClaimSum(s, c) = SumFunctionOnSet(f, S) /\ ClaimSum(s, c)' = SumFunctionOnSet(g, T)
    BY DEF ClaimSum, Sum
  <1> HIDE DEF X, Y, n, S, T, f, g, hit
  <1>11. Selected(X, Y, Claim, x, up, S, T, f, g, n, hit)
    BY <1>2, <1>4, <1>6, <1>7, <1>8, <1>9 DEF Selected
  <1>12. SumFunctionOnSet(g, T) = SumFunctionOnSet(f, S) + (IF hit THEN Move(up, n) ELSE 0)
    BY <1>1, <1>11, TableTurned
  <1> QED
    BY <1>10, <1>12 DEF hit, n

LEMMA ClaimLedger ==
  ASSUME DocInv, SourceInv, LedgerInv, NEW x \in Claim, NEW row, NEW up \in BOOLEAN, ClaimTurned(x, row, up)
  PROVE  LedgerInv'
  <1> SUFFICES ASSUME NEW s \in Supplier, NEW c \in Currency PROVE TiesAt(s, c)'
    BY DEF LedgerInv
  <1> DEFINE p == purchases[row.purchase]
             hit == s = p.supplier /\ c = p.currency
             n == row.amount
             S == Posted(claims) \ {x}
  <1>1. /\ UNCHANGED <<purchases, advances, allocations, refunds>> /\ row \in ClaimRow
        /\ BookOrMirror(up, Journal(Payable, Stock, p.supplier, p.currency, n))
        /\ RefundsOf(x) = {} /\ Wrote(claims, claims', Claim, x, row)
    BY DEF ClaimTurned, ClaimJournal
  <1>2. n \in Int
    BY <1>1 DEF ClaimRow
  <1>3. \A r \in S : ClaimSupplier(r)' = ClaimSupplier(r) /\ ClaimCurrency(r)' = ClaimCurrency(r)
    BY <1>1 DEF ClaimSupplier, ClaimCurrency, Wrote, Posted
  <1>4. \A f \in Posted(refunds) : refunds[f].claim \in S
    BY <1>1, RefundsOnPosted DEF RefundsOf
  <1>5. \A f \in Posted(refunds) : RefundSupplier(f)' = RefundSupplier(f)
                                   /\ RefundedCurrency(f)' = RefundedCurrency(f)
    <2> HIDE DEF S
    <2> QED
      BY <1>1, <1>3, <1>4, RefundKeysStay
  <1>6. /\ SameSum(s, c)' = SameSum(s, c) /\ BridgedSum(s, c)' = BridgedSum(s, c)
        /\ ReceivedSum(s, c)' = ReceivedSum(s, c)
    BY <1>1, <1>5, RefundSumsSame
  <1>7. /\ ClaimSum(s, c)' = ClaimSum(s, c) + (IF hit THEN Move(up, n) ELSE 0)
        /\ PrepaidTo(s, c)' = PrepaidTo(s, c) /\ PurchaseSum(s, c)' = PurchaseSum(s, c)
    <2>1. Posted(purchases') = Posted(purchases) /\ \A q \in Posted(purchases) : purchases'[q] = purchases[q]
      BY <1>1
    <2> QED
      BY <1>1, <2>1, ClaimClaimed, PrepaidSame, PurchaseSumSame
  <1>8. \A acc \in Account : /\ gl[<<acc, s, c>>] \in Int
                             /\ gl'[<<acc, s, c>>] = gl[<<acc, s, c>>]
                                  + (IF hit THEN Move(up, Side(acc, Payable, Stock, n)) ELSE 0)
    BY <1>1, <1>2, Posts, Accounts
  <1>9. TiesAt(s, c)
    BY DEF LedgerInv
  <1>10. PurchaseSum(s, c) \in Int /\ ClaimSum(s, c) \in Int /\ SameSum(s, c) \in Int
    BY SumsTyped
  <1> HIDE DEF hit, n
  <1>11. /\ gl'[<<Prepaid, s, c>>] = gl[<<Prepaid, s, c>>]
         /\ gl'[<<Payable, s, c>>] = gl[<<Payable, s, c>>] + (IF hit THEN Move(up, n) ELSE 0)
         /\ gl'[<<Clearing, s, c>>] = gl[<<Clearing, s, c>>]
         /\ gl[<<Payable, s, c>>] \in Int
    BY <1>2, <1>8, Accounts DEF Move, Side
  <1>12. Move(up, n) \in Int
    BY <1>2 DEF Move
  <1> QED
    BY <1>6, <1>7, <1>9, <1>10, <1>11, <1>12 DEF TiesAt

LEMMA RefundClaimed ==
  ASSUME DocInv, NEW x \in Refund, NEW row, NEW up \in BOOLEAN, RefundTurned(x, row, up), NEW s, NEW c
  PROVE  ClaimSum(s, c)' = ClaimSum(s, c)
           + (IF s = ClaimSupplier(row.claim) /\ c = ClaimCurrency(row.claim)
              THEN -Move(up, row.amount) ELSE 0)
  <1> DEFINE S == ClaimSet(s, c)
             r == row.claim
             f == [d \in S |-> Remaining(d)]
             g == [d \in S |-> Remaining(d)']
             m == -Move(up, row.amount)
             hit == s = ClaimSupplier(r) /\ c = ClaimCurrency(r)
  <1>1. /\ UNCHANGED <<purchases, claims>> /\ AmountsLeftAre /\ AmountsLeftAre' /\ IsFiniteSet(Filled(claims))
        /\ row \in RefundRow /\ IsPosted(claims, r)
    BY AmountsLeft, AmountsLeftNext DEF RefundTurned, DocInv, FiniteRows
  <1>2. row.amount \in Int /\ r \in Claim
    <2>1. row.amount \in Amount /\ r \in Claim
      BY <1>1 DEF RefundRow
    <2> QED
      BY <2>1, Numbers
  <1>3. /\ S \subseteq Posted(claims) /\ Posted(claims') = Posted(claims)
        /\ ClaimSet(s, c)' = S /\ (r \in S <=> hit)
    BY <1>1, <1>2 DEF ClaimSet, ClaimSupplier, ClaimCurrency, Posted, DocInv, TypeOK
  <1>4. IsFiniteSet(S)
    BY <1>1, <1>3, PostedFinite
  <1>5. IntOn(f, S) /\ IntOn(g, S)
    BY <1>1, <1>3 DEF IntOn, AmountsLeftAre
  <1>6. /\ \A d : Refunded(d)' = Refunded(d) + (IF d = r THEN Move(up, row.amount) ELSE 0)
        /\ \A d : Refunded(d) \in Nat
    BY RefundMoves, TakenTyped
  <1>7. \A d \in S : g[d] = f[d] + (IF d = r THEN m ELSE 0)
    <2> SUFFICES ASSUME NEW d \in S PROVE Remaining(d)' = Remaining(d) + (IF d = r THEN m ELSE 0)
      OBVIOUS
    <2>1. /\ Remaining(d) = claims[d].amount - Refunded(d)
          /\ Remaining(d)' = claims[d].amount - Refunded(d)'
      BY <1>1, <1>3 DEF AmountsLeftAre
    <2>2. claims[d].amount \in Int
      BY <1>3, AmountsTyped
    <2>3. Refunded(d)' = Refunded(d) + (IF d = r THEN Move(up, row.amount) ELSE 0) /\ Refunded(d) \in Nat
      BY <1>6
    <2> QED
      BY <1>2, <2>1, <2>2, <2>3 DEF Move
  <1>8. m \in Int
    BY <1>2 DEF Move
  <1>9. ClaimSum(s, c) = SumFunctionOnSet(f, S)
    BY DEF ClaimSum, Sum
  <1>10. ClaimSum(s, c)' = SumFunctionOnSet(g, S)
    <2>1. ClaimSum(s, c)' = SumFunctionOnSet([d \in ClaimSet(s, c)' |-> Remaining(d)'], ClaimSet(s, c)')
      BY DEF ClaimSum, Sum
    <2> HIDE DEF S
    <2> QED
      BY <1>3, <2>1
  <1>11. /\ \A d \in S \ {r} : g[d] = f[d]
         /\ r \in S => g[r] = f[r] + m
    <2>1. \A d \in S : f[d] \in Int
      BY <1>5 DEF IntOn
    <2> HIDE DEF S, r, f, g, m
    <2> QED
      BY <1>7, <2>1
  <1> HIDE DEF S, r, f, g, m, hit
  <1>12. SumFunctionOnSet(g, S) = SumFunctionOnSet(f, S) + (IF r \in S THEN m ELSE 0)
    BY ZenonT(30), <1>4, <1>5, <1>8, <1>11, SumMoved
  <1>13. ClaimSum(s, c)' = ClaimSum(s, c) + (IF hit THEN m ELSE 0)
    BY <1>3, <1>9, <1>10, <1>12
  <1> QED
    BY <1>13 DEF hit, m, r

\* S and T are selections of refunds before and after one is turned.
Chosen(X, Y, i, up, S, T, hit) ==
  /\ S \subseteq Posted(X) /\ T \subseteq Posted(Y) /\ hit \in BOOLEAN
  /\ \A j \in Refund \ {i} : j \in S <=> j \in T
  /\ IF up THEN i \in T <=> hit ELSE i \in S <=> hit

AmountOver(X, S) == SumFunctionOnSet([j \in S |-> X[j].amount], S)
PaidOver(X, S) == SumFunctionOnSet([j \in S |-> X[j].paid], S)

LEMMA RefundSelected ==
  ASSUME DocInv, NEW x \in Refund, NEW row, NEW up \in BOOLEAN, RefundTurned(x, row, up),
         NEW S, NEW T, NEW hit, Chosen(refunds, refunds', x, up, S, T, hit)
  PROVE  /\ AmountOver(refunds', T) = AmountOver(refunds, S) + (IF hit THEN Move(up, row.amount) ELSE 0)
         /\ PaidOver(refunds', T) = PaidOver(refunds, S) + (IF hit THEN Move(up, row.paid) ELSE 0)
  <1> DEFINE X == refunds
             Y == refunds'
             n == row.amount
             k == row.paid
             f == [j \in S |-> X[j].amount]
             g == [j \in T |-> Y[j].amount]
             d == [j \in S |-> X[j].paid]
             e == [j \in T |-> Y[j].paid]
  <1>1. /\ Turning(X, Y, Refund, x, row, up) /\ row \in RefundRow
        /\ ~up => X[x].amount = n /\ X[x].paid = k
        /\ Table(X, Refund, RefundRow) /\ Table(Y, Refund, RefundRow)
    BY Tables, TablesNext DEF RefundTurned, Turning, DocInv, FiniteRows
  <1>2. n \in Int /\ k \in Int
    <2>1. n \in Amount /\ k \in Nat
      BY <1>1 DEF RefundRow
    <2> QED
      BY <2>1, Numbers
  <1>3. /\ Y[x] = row /\ S \subseteq Refund /\ \A j \in Refund : j # x => Y[j] = X[j]
        /\ S \subseteq Posted(X) /\ T \subseteq Posted(Y) /\ hit \in BOOLEAN
    BY <1>1 DEF Turning, Wrote, Chosen, Posted
  <1>4. /\ \A j \in S : f[j] \in Int /\ d[j] \in Int
        /\ \A j \in T : g[j] \in Int /\ e[j] \in Int
    <2>1. /\ \A j \in Posted(X) : X[j].amount \in Nat /\ X[j].paid \in Nat
          /\ \A j \in Posted(Y) : Y[j].amount \in Nat /\ Y[j].paid \in Nat
      BY <1>1, RowAmounts
    <2> QED
      BY <1>3, <2>1
  <1>5. \A j \in S \ {x} : j \in T /\ g[j] = f[j] /\ e[j] = d[j]
    BY <1>3 DEF Chosen
  <1>6. /\ IF up THEN (x \in T <=> hit) /\ (hit => g[x] = n) ELSE (x \in S <=> hit) /\ (hit => f[x] = n)
        /\ IF up THEN (x \in T <=> hit) /\ (hit => e[x] = k) ELSE (x \in S <=> hit) /\ (hit => d[x] = k)
    BY <1>1, <1>3 DEF Chosen
  <1>7. \A j \in Refund \ {x} : j \in S <=> j \in T
    BY DEF Chosen
  <1> HIDE DEF X, Y, n, k, f, g, d, e
  <1>8. /\ Selected(X, Y, Refund, x, up, S, T, f, g, n, hit)
        /\ Selected(X, Y, Refund, x, up, S, T, d, e, k, hit)
    BY <1>2, <1>3, <1>4, <1>5, <1>6, <1>7 DEF Selected
  <1>9. /\ SumFunctionOnSet(g, T) = SumFunctionOnSet(f, S) + (IF hit THEN Move(up, n) ELSE 0)
        /\ SumFunctionOnSet(e, T) = SumFunctionOnSet(d, S) + (IF hit THEN Move(up, k) ELSE 0)
    BY <1>1, <1>8, TableTurned
  <1> QED
    BY <1>9 DEF X, Y, n, k, f, g, d, e, AmountOver, PaidOver

LEMMA RefundSums ==
  ASSUME DocInv, NEW x \in Refund, NEW row, NEW up \in BOOLEAN, RefundTurned(x, row, up), NEW s, NEW c
  PROVE  LET r == row.claim
             mine == s = ClaimSupplier(r)
         IN /\ SameSum(s, c)' = SameSum(s, c)
                 + (IF mine /\ c = ClaimCurrency(r) /\ row.currency = c THEN Move(up, row.amount) ELSE 0)
            /\ BridgedSum(s, c)' = BridgedSum(s, c)
                 + (IF mine /\ c = ClaimCurrency(r) /\ row.currency # c THEN Move(up, row.amount) ELSE 0)
            /\ ReceivedSum(s, c)' = ReceivedSum(s, c)
                 + (IF mine /\ c # ClaimCurrency(r) /\ row.currency = c THEN Move(up, row.paid) ELSE 0)
  <1> DEFINE r == row.claim
             mine == s = ClaimSupplier(r)
             same == mine /\ c = ClaimCurrency(r) /\ row.currency = c
             bridged == mine /\ c = ClaimCurrency(r) /\ row.currency # c
             received == mine /\ c # ClaimCurrency(r) /\ row.currency = c
             X == refunds
             Y == refunds'
  <1>1. /\ Turning(X, Y, Refund, x, row, up) /\ UNCHANGED <<purchases, claims>>
        /\ ~up => X[x].claim = r /\ X[x].currency = row.currency
    BY DEF RefundTurned, Turning, DocInv, FiniteRows
  <1>2. /\ Y[x] = row /\ Posted(X) \subseteq Refund /\ Posted(Y) \subseteq Refund
        /\ \A j \in Refund : j # x => Y[j] = X[j]
        /\ \A j \in Refund \ {x} : j \in Posted(X) <=> j \in Posted(Y)
        /\ (x \in Posted(Y) <=> up) /\ (x \in Posted(X) <=> ~up)
    BY <1>1 DEF Turning, Wrote, Posted, TurnedStatus, IsPosted
  <1>3. \A j \in Refund \ {x} : /\ RefundSupplier(j)' = RefundSupplier(j)
                                /\ RefundedCurrency(j)' = RefundedCurrency(j)
                                /\ refunds'[j].currency = refunds[j].currency
    BY <1>1, <1>2 DEF RefundSupplier, RefundedCurrency, ClaimSupplier, ClaimCurrency
  <1>4. /\ up => /\ RefundSupplier(x)' = ClaimSupplier(r) /\ RefundedCurrency(x)' = ClaimCurrency(r)
                 /\ refunds'[x].currency = row.currency
        /\ ~up => /\ RefundSupplier(x) = ClaimSupplier(r) /\ RefundedCurrency(x) = ClaimCurrency(r)
                  /\ refunds[x].currency = row.currency
    BY <1>1, <1>2 DEF RefundSupplier, RefundedCurrency, ClaimSupplier, ClaimCurrency
  <1>5. Chosen(refunds, refunds', x, up, SameSet(s, c), SameSet(s, c)', same)
    BY <1>2, <1>3, <1>4 DEF Chosen, SameSet
  <1>6. Chosen(refunds, refunds', x, up, BridgedSet(s, c), BridgedSet(s, c)', bridged)
    BY <1>2, <1>3, <1>4 DEF Chosen, BridgedSet
  <1>7. Chosen(refunds, refunds', x, up, ReceivedSet(s, c), ReceivedSet(s, c)', received)
    BY <1>2, <1>3, <1>4 DEF Chosen, ReceivedSet
  <1> HIDE DEF same, bridged, received
  <1>8. SameSum(s, c)' = SameSum(s, c) + (IF same THEN Move(up, row.amount) ELSE 0)
    <2> DEFINE S == SameSet(s, c)
               T == SameSet(s, c)'
    <2>1. SameSum(s, c) = AmountOver(refunds, S) /\ SameSum(s, c)' = AmountOver(refunds', T)
      BY DEF SameSum, Sum, AmountOver
    <2> HIDE DEF S, T
    <2>2. Chosen(refunds, refunds', x, up, S, T, same)
      BY <1>5 DEF S, T
    <2>3. AmountOver(refunds', T) = AmountOver(refunds, S) + (IF same THEN Move(up, row.amount) ELSE 0)
      BY <2>2, RefundSelected
    <2> QED
      BY <2>1, <2>3
  <1>9. BridgedSum(s, c)' = BridgedSum(s, c) + (IF bridged THEN Move(up, row.amount) ELSE 0)
    <2> DEFINE S == BridgedSet(s, c)
               T == BridgedSet(s, c)'
    <2>1. BridgedSum(s, c) = AmountOver(refunds, S) /\ BridgedSum(s, c)' = AmountOver(refunds', T)
      BY DEF BridgedSum, Sum, AmountOver
    <2> HIDE DEF S, T
    <2>2. Chosen(refunds, refunds', x, up, S, T, bridged)
      BY <1>6 DEF S, T
    <2>3. AmountOver(refunds', T) = AmountOver(refunds, S) + (IF bridged THEN Move(up, row.amount) ELSE 0)
      BY <2>2, RefundSelected
    <2> QED
      BY <2>1, <2>3
  <1>10. ReceivedSum(s, c)' = ReceivedSum(s, c) + (IF received THEN Move(up, row.paid) ELSE 0)
    <2> DEFINE S == ReceivedSet(s, c)
               T == ReceivedSet(s, c)'
    <2>1. ReceivedSum(s, c) = PaidOver(refunds, S) /\ ReceivedSum(s, c)' = PaidOver(refunds', T)
      BY DEF ReceivedSum, Sum, PaidOver
    <2> HIDE DEF S, T
    <2>2. Chosen(refunds, refunds', x, up, S, T, received)
      BY <1>7 DEF S, T
    <2>3. PaidOver(refunds', T) = PaidOver(refunds, S) + (IF received THEN Move(up, row.paid) ELSE 0)
      BY <2>2, RefundSelected
    <2> QED
      BY <2>1, <2>3
  <1> QED
    BY <1>8, <1>9, <1>10 DEF same, bridged, received

\* What the journal of a refund does to the three accounts of the ledger.
LEMMA RefundBooked ==
  ASSUME DocInv, NEW x \in Refund, NEW row, NEW up \in BOOLEAN, RefundTurned(x, row, up),
         NEW s \in Supplier, NEW c \in Currency
  PROVE  LET r == row.claim
             mine == s = ClaimSupplier(r)
             own == row.currency = ClaimCurrency(r)
             n == Move(up, row.amount)
             here == mine /\ c = ClaimCurrency(r)
         IN /\ gl[<<Payable, s, c>>] \in Int /\ gl[<<Clearing, s, c>>] \in Int
            /\ gl'[<<Prepaid, s, c>>] = gl[<<Prepaid, s, c>>]
            /\ gl'[<<Payable, s, c>>] =
                 gl[<<Payable, s, c>>] + (IF here THEN IF own THEN n ELSE -n ELSE 0)
            /\ gl'[<<Clearing, s, c>>] =
                 gl[<<Clearing, s, c>>] + (IF here /\ ~own THEN n ELSE 0)
                   - (IF mine /\ c = row.currency /\ ~own THEN Move(up, row.paid) ELSE 0)
  <1> DEFINE r == row.claim
             t == ClaimSupplier(r)
             e == ClaimCurrency(r)
             n == row.amount
             k == row.paid
  <1>1. row \in RefundRow /\ BookOrMirror(up, RefundJournal(row))
    BY DEF RefundTurned
  <1>2. n \in Int /\ k \in Int
    <2>1. n \in Amount /\ k \in Nat
      BY <1>1 DEF RefundRow
    <2> QED
      BY <2>1, Numbers
  <1>3. CASE row.currency = e
    <2>1. BookOrMirror(up, Journal(Payable, Cash, t, e, n))
      BY <1>1, <1>3 DEF RefundJournal, ClaimSupplier
    <2>2. \A acc \in Account : /\ gl[<<acc, s, c>>] \in Int
                               /\ gl'[<<acc, s, c>>] = gl[<<acc, s, c>>]
                                    + (IF s = t /\ c = e THEN Move(up, Side(acc, Payable, Cash, n)) ELSE 0)
      BY <1>2, <2>1, Posts, Accounts
    <2>3. /\ gl'[<<Prepaid, s, c>>] = gl[<<Prepaid, s, c>>] /\ gl'[<<Clearing, s, c>>] = gl[<<Clearing, s, c>>]
          /\ gl'[<<Payable, s, c>>] = gl[<<Payable, s, c>>] + (IF s = t /\ c = e THEN Move(up, n) ELSE 0)
          /\ gl[<<Payable, s, c>>] \in Int /\ gl[<<Clearing, s, c>>] \in Int
      BY <1>2, <2>2, Accounts DEF Move, Side
    <2> QED
      BY <1>3, <2>3
  <1>4. CASE row.currency # e
    <2> DEFINE claim == Journal(Clearing, Payable, t, e, n)
               cash == Journal(Cash, Clearing, t, row.currency, k)
               f == [key \in Account \X Supplier \X Currency |-> claim[key] + cash[key]]
    <2>1. /\ claim \in [Account \X Supplier \X Currency -> Int]
          /\ cash \in [Account \X Supplier \X Currency -> Int]
      BY <1>2, JournalTyped
    <2>2. f \in [Account \X Supplier \X Currency -> Int]
      <3> HIDE DEF claim, cash
      <3> QED
        BY <2>1
    <2>3. BookOrMirror(up, f)
      BY <1>1, <1>4 DEF RefundJournal, ClaimSupplier
    <2>4. \A acc \in Account : /\ claim[<<acc, s, c>>] = IF s = t /\ c = e THEN Side(acc, Clearing, Payable, n) ELSE 0
                               /\ cash[<<acc, s, c>>]
                                    = IF s = t /\ c = row.currency THEN Side(acc, Cash, Clearing, k) ELSE 0
      BY <1>2, JournalAt, Accounts
    <2>5. \A acc \in Account : f[<<acc, s, c>>] = claim[<<acc, s, c>>] + cash[<<acc, s, c>>]
      <3> HIDE DEF claim, cash
      <3> QED
        OBVIOUS
    <2> HIDE DEF claim, cash, f
    <2>6. \A acc \in Account : /\ gl[<<acc, s, c>>] \in Int
                               /\ gl'[<<acc, s, c>>] = gl[<<acc, s, c>>] + Move(up, f[<<acc, s, c>>])
      BY ZenonT(30), <2>2, <2>3, GlMoves
    <2>7. /\ f[<<Prepaid, s, c>>] = 0
          /\ f[<<Payable, s, c>>] = IF s = t /\ c = e THEN -n ELSE 0
          /\ f[<<Clearing, s, c>>] =
               (IF s = t /\ c = e THEN n ELSE 0) - (IF s = t /\ c = row.currency THEN k ELSE 0)
      BY <1>2, <2>4, <2>5, Accounts DEF Side
    <2>8. /\ gl'[<<Prepaid, s, c>>] = gl[<<Prepaid, s, c>>] + Move(up, f[<<Prepaid, s, c>>])
          /\ gl'[<<Payable, s, c>>] = gl[<<Payable, s, c>>] + Move(up, f[<<Payable, s, c>>])
          /\ gl'[<<Clearing, s, c>>] = gl[<<Clearing, s, c>>] + Move(up, f[<<Clearing, s, c>>])
          /\ gl[<<Prepaid, s, c>>] \in Int /\ gl[<<Payable, s, c>>] \in Int /\ gl[<<Clearing, s, c>>] \in Int
      BY <2>6, Accounts
    <2> HIDE DEF n, k, t, e
    <2>9. /\ gl'[<<Prepaid, s, c>>] = gl[<<Prepaid, s, c>>]
          /\ gl'[<<Payable, s, c>>] = gl[<<Payable, s, c>>] + (IF s = t /\ c = e THEN -Move(up, n) ELSE 0)
      BY <1>2, <2>7, <2>8 DEF Move
    <2>10. gl'[<<Clearing, s, c>>] = gl[<<Clearing, s, c>>] + (IF s = t /\ c = e THEN Move(up, n) ELSE 0)
                                       - (IF s = t /\ c = row.currency THEN Move(up, k) ELSE 0)
      BY <1>2, <2>7, <2>8 DEF Move
    <2> QED
      BY <1>4, <2>8, <2>9, <2>10 DEF n, k, t, e
  <1> QED
    BY <1>3, <1>4

LEMMA RefundLedger ==
  ASSUME DocInv, SourceInv, LedgerInv, NEW x \in Refund, NEW row, NEW up \in BOOLEAN, RefundTurned(x, row, up)
  PROVE  LedgerInv'
  <1> SUFFICES ASSUME NEW s \in Supplier, NEW c \in Currency PROVE TiesAt(s, c)'
    BY DEF LedgerInv
  <1> DEFINE r == row.claim
             mine == s = ClaimSupplier(r)
             e == ClaimCurrency(r)
             d == row.currency
             n == Move(up, row.amount)
             k == Move(up, row.paid)
             P == gl[<<Prepaid, s, c>>]
             Q == gl[<<Payable, s, c>>]
             C == gl[<<Clearing, s, c>>]
  <1>1. UNCHANGED <<purchases, advances, allocations, claims>> /\ row \in RefundRow
    BY DEF RefundTurned
  <1>2. n \in Int /\ k \in Int
    <2>1. row.amount \in Amount /\ row.paid \in Nat
      BY <1>1 DEF RefundRow
    <2> QED
      BY <2>1, Numbers DEF Move
  <1>3. /\ Q \in Int /\ C \in Int /\ P' = P
        /\ Q' = Q + (IF mine /\ c = e THEN IF d = e THEN n ELSE -n ELSE 0)
        /\ C' = C + (IF mine /\ c = e /\ d # e THEN n ELSE 0) - (IF mine /\ c = d /\ d # e THEN k ELSE 0)
    BY RefundBooked
  <1>4. ClaimSum(s, c)' = ClaimSum(s, c) + (IF mine /\ c = e THEN -n ELSE 0)
    BY RefundClaimed
  <1>5. /\ SameSum(s, c)' = SameSum(s, c) + (IF mine /\ c = e /\ d = c THEN n ELSE 0)
        /\ BridgedSum(s, c)' = BridgedSum(s, c) + (IF mine /\ c = e /\ d # c THEN n ELSE 0)
        /\ ReceivedSum(s, c)' = ReceivedSum(s, c) + (IF mine /\ c # e /\ d = c THEN k ELSE 0)
    BY RefundSums
  <1>6. PrepaidTo(s, c)' = PrepaidTo(s, c) /\ PurchaseSum(s, c)' = PurchaseSum(s, c)
    <2>1. Posted(purchases') = Posted(purchases) /\ \A q \in Posted(purchases) : purchases'[q] = purchases[q]
      BY <1>1
    <2> QED
      BY <1>1, <2>1, PrepaidSame, PurchaseSumSame
  <1>7. /\ P = PrepaidTo(s, c) /\ Q = ClaimSum(s, c) - PurchaseSum(s, c) + 2 * SameSum(s, c)
        /\ C = BridgedSum(s, c) - ReceivedSum(s, c)
    BY DEF LedgerInv, TiesAt
  <1>8. /\ PurchaseSum(s, c) \in Int /\ ClaimSum(s, c) \in Int /\ SameSum(s, c) \in Int
        /\ BridgedSum(s, c) \in Int /\ ReceivedSum(s, c) \in Int
    BY SumsTyped
  <1> HIDE DEF mine, e, d, n, k, P, Q, C
  <1>9. Q' = ClaimSum(s, c)' - PurchaseSum(s, c)' + 2 * SameSum(s, c)'
    BY <1>2, <1>3, <1>4, <1>5, <1>6, <1>7, <1>8
  <1>10. C' = BridgedSum(s, c)' - ReceivedSum(s, c)'
    BY <1>2, <1>3, <1>5, <1>7, <1>8
  <1> QED
    BY <1>3, <1>6, <1>7, <1>9, <1>10 DEF TiesAt, P, Q, C

LEMMA LedgerStep ==
  ASSUME DocInv, SourceInv, LedgerInv, [Next]_vars
  PROVE  LedgerInv'
  <1>1. CASE Next
    BY <1>1, StepIs, SavedLedger, PostedLedger, AdvanceLedger, AllocationLedger, ClaimLedger, RefundLedger
  <1>2. CASE UNCHANGED vars
    <2>1. PurchaseSaved
      BY <1>2, DocInvStep DEF vars, PurchaseSaved, Posted, IsPosted
    <2> QED
      BY <2>1, SavedLedger
  <1> QED
    BY <1>1, <1>2
-----------------------------------------------------------------------------
(* The inductive invariant and the theorems. *)
AccountInv == DocInv /\ SourceInv /\ NeverOvercommitted /\ ClaimedWithin /\ LedgerInv

LEMMA NothingYet ==
  Init => NeverOvercommitted /\ ClaimedWithin /\ LedgerInv
  <1> SUFFICES ASSUME Init PROVE NeverOvercommitted /\ ClaimedWithin /\ LedgerInv
    OBVIOUS
  <1>1. /\ Posted(purchases) = {} /\ Posted(advances) = {} /\ Posted(claims) = {} /\ Posted(refunds) = {}
        /\ \A k \in Account \X Supplier \X Currency : gl[k] = 0
    BY DEF Init, Posted, IsPosted, Absent
  <1>2. NeverOvercommitted /\ ClaimedWithin
    BY <1>1 DEF NeverOvercommitted, ClaimedWithin
  <1>3. ASSUME NEW s \in Supplier, NEW c \in Currency PROVE TiesAt(s, c)
    <2>1. /\ Owned(advances, s, c) = {} /\ Owned(purchases, s, c) = {} /\ ClaimSet(s, c) = {}
          /\ SameSet(s, c) = {} /\ BridgedSet(s, c) = {} /\ ReceivedSet(s, c) = {}
      BY <1>1 DEF Owned, ClaimSet, SameSet, BridgedSet, ReceivedSet
    <2>2. /\ PrepaidTo(s, c) = 0 /\ PurchaseSum(s, c) = 0 /\ ClaimSum(s, c) = 0
          /\ SameSum(s, c) = 0 /\ BridgedSum(s, c) = 0 /\ ReceivedSum(s, c) = 0
      BY <2>1, SumEmpty DEF PrepaidTo, PurchaseSum, ClaimSum, SameSum, BridgedSum, ReceivedSum, Sum
    <2>3. /\ gl[<<Prepaid, s, c>>] = 0 /\ gl[<<Payable, s, c>>] = 0 /\ gl[<<Clearing, s, c>>] = 0
      BY <1>1, Accounts
    <2> QED
      BY <2>2, <2>3 DEF TiesAt
  <1> QED
    BY <1>2, <1>3 DEF LedgerInv

LEMMA AccountInvHolds == Spec => []AccountInv
  <1>1. Init => AccountInv
    BY DocInvInit, SourceInvInit, NothingYet DEF AccountInv
  <1>2. AccountInv /\ [Next]_vars => AccountInv'
    <2> SUFFICES ASSUME AccountInv, [Next]_vars PROVE AccountInv'
      OBVIOUS
    <2>1. DocInv /\ SourceInv /\ NeverOvercommitted /\ ClaimedWithin /\ LedgerInv
      BY DEF AccountInv
    <2> QED
      BY <2>1, DocInvStep, SourceInvStep, AmountsStep, ClaimedStep, LedgerStep DEF AccountInv
  <1> QED
    BY <1>1, <1>2, PTL DEF Spec

\* Every row of the account keeps its type: what a return claims back and what
\* a refund pays are positive whole cents, for any lines, rates and discounts
\* (purchases/services.py, purchases/supplier_refund_services.py).
THEOREM SupplierTypeCorrect == Spec => []TypeOK
  <1>1. AccountInv => TypeOK
    BY DEF AccountInv, DocInv
  <1> QED
    BY <1>1, AccountInvHolds, PTL

\* No advance, purchase or claim is used beyond its amount, whatever was
\* reversed in between: allocate_supplier_advance, create_supplier_refund and
\* their reversals measure themselves against the rows that stand.
THEOREM NothingIsOvercommitted == Spec => []NeverOvercommitted
  <1>1. AccountInv => NeverOvercommitted
    BY DEF AccountInv
  <1> QED
    BY <1>1, AccountInvHolds, PTL

\* However a line is returned piece by piece, its rounded claims exceed its cost
\* by half a cent each and half a step per unit at most
\* (post_purchase_return and post_transit_purchase_return).
THEOREM ClaimsStayWithinCost == Spec => []ClaimsWithinCost
  <1>1. AccountInv => ClaimsWithinCost
    BY CostBound DEF AccountInv
  <1> QED
    BY <1>1, AccountInvHolds, PTL

\* Every line bears its share of the discount to the cent, and the last line no
\* more than the rounding of the others (_allocate).
THEOREM DiscountIsShared == Spec => []DiscountIsFair
  <1>1. AccountInv => DiscountIsFair
    BY DiscountBound DEF AccountInv
  <1> QED
    BY <1>1, AccountInvHolds, PTL

\* 1500, 2110 and 1910 are what the open documents of a supplier add up to in
\* every currency, through every reversal; a refund in the claim's own currency
\* moves 2110 away from them by twice its amount.
THEOREM DocumentsTie == Spec => []SupplierLedgerTies
  <1>1. AccountInv => SupplierLedgerTies
    BY LedgerTies DEF AccountInv
  <1> QED
    BY <1>1, AccountInvHolds, PTL
=============================================================================
