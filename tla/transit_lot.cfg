\* Two sales, a supplier return, a loss and the deliveries of a lot of three, or
\* three checks and two returns of a line issued from two warehouses.
SPECIFICATION MCSpec
CONSTANTS
  l0 = l0  l1 = l1  l2 = l2  w1 = w1  w2 = w2
  c1 = c1  c2 = c2  c3 = c3  r1 = r1  r2 = r2  p1 = p1  p2 = p2
  Line = {l0, l1, l2}
  TransitLine = {l1, l2}
  Quantity <- MCOrders
  Warehouse = {w1, w2}
  Allocated <- MCIssued
  Check = {c1, c2, c3}
  Return = {r1, r2}
  CallerKey = {}
  NoKey = NoKey
  Original = 3
  Destination = w1
  SupplierReturn = {p1}
SYMMETRY Symmetry
CHECK_DEADLOCK FALSE
INVARIANTS TypeOK UnitsAreConserved CustomersReceiveWhatArrived ServedInOrder LotStatusIsHonest
INVARIANTS CustodyWithinOwnership ReleasesMatchChecks ReturnedWasDelivered
