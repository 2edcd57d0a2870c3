\* Three movements in two warehouses and two landed costs.
SPECIFICATION CostSpec
CONSTANTS
  w1 = w1  w2 = w2
  Warehouse = {w1, w2}
  Day = {1}
  Quantity = {1, 2}
  Total = {20}
  Cost = {}
  Temporary = {31}
  Cent = 3
  MaxMoves = 3
  Backdated = FALSE
  Amount = {5}
  Weight = {1}
  MaxCosts = 2
SYMMETRY Symmetry
CHECK_DEADLOCK FALSE
INVARIANTS LayeredInventoryTies ResidualIsRounding
