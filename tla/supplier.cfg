\* A purchase, an advance allocated twice, two claims and two refunds.
SPECIFICATION Spec
CONSTANTS
  s1 = s1  s2 = s2  p1 = p1  p2 = p2  a1 = a1  a2 = a2  x1 = x1  x2 = x2
  r1 = r1  r2 = r2  f1 = f1  f2 = f2
  Supplier = {s1, s2}
  Currency = {"AFN", "USD"}
  Base = "AFN"
  Purchase = {p1}
  Advance = {a1}
  Allocation = {x1, x2}
  Claim = {r1, r2}
  Refund = {f1, f2}
  Lines <- MCLines
  Discount = {3}
  Freight = {1}
  Quantity = {1, 2}
  Amount = {1, 3}
  Rate <- MCRate
  Cent = 100
SYMMETRY Symmetry
CHECK_DEADLOCK FALSE
INVARIANTS TypeOK NothingOutlivesItsSource NeverOvercommitted ClaimsWithinCost DiscountIsFair SupplierLedgerTies
