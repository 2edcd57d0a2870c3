\* Two payments and two allocations over invoices in two currencies with a
\* return of any of them or of a cash sale, or three returns of one line, two
\* refunds, a payment and its allocation.
SPECIFICATION MCSpec
CONSTANTS
  s0 = s0  s1 = s1  s2 = s2  s3 = s3  p1 = p1  p2 = p2  x1 = x1  x2 = x2
  r1 = r1  r2 = r2  r3 = r3  f1 = f1  f2 = f2
  Currency = {"AFN", "USD"}
  Base = "AFN"
  Sale = {s0, s1, s2, s3}
  SaleCurrency <- MCCurrencies
  Total <- MCTotals
  Quantity <- MCUnits
  CreditSale = {s0, s1, s2}
  Payment = {p1, p2}
  Allocation = {x1, x2}
  Return = {r1, r2, r3}
  Refund = {f1, f2}
  Amount = {1, 3}
  Rate <- MCRate
  None = None
SYMMETRY Symmetry
CHECK_DEADLOCK FALSE
INVARIANTS TypeOK NeverOverdrawn ReceivableTies CreditTies
INVARIANTS EntitlementIsExact RefundsAreBacked
PROPERTY ReturnsTakeOnlyWhatIsOwed
