\* A lot whose unsold units go back to the supplier while a sold one travels.
SPECIFICATION Spec
CONSTANTS
  l0 = l0  l1 = l1  l2 = l2  w1 = w1  w2 = w2
  c1 = c1  c2 = c2  c3 = c3  r1 = r1  r2 = r2  p1 = p1  p2 = p2
  Line = {l1, l2}
  TransitLine = {l1, l2}
  Quantity <- MCSold
  Warehouse = {w1, w2}
  Allocated <- MCNothingIssued
  Check = {c1}
  Return = {r1}
  CallerKey = {}
  NoKey = NoKey
  Original = 3
  Destination = w1
  SupplierReturn = {p1}
SYMMETRY Symmetry
CHECK_DEADLOCK FALSE
INVARIANT ClosedLotIsAccountedFor
