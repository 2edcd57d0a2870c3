\* A claim refunded in its own currency.
SPECIFICATION Spec
CONSTANTS
  s1 = s1  s2 = s2  p1 = p1  p2 = p2  a1 = a1  a2 = a2  x1 = x1  x2 = x2
  r1 = r1  r2 = r2  f1 = f1  f2 = f2
  Supplier = {s1, s2}
  Currency = {"AFN", "USD"}
  Base = "AFN"
  Purchase = {p1}
  Advance = {}
  Allocation = {}
  Claim = {r1}
  Refund = {f1}
  Lines <- MCOneLine
  Discount = {0}
  Freight = {0}
  Quantity = {1}
  Amount = {1, 3}
  Rate <- MCRate
  Cent = 100
CHECK_DEADLOCK FALSE
INVARIANT RefundsSettleClaims
