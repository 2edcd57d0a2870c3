\* One landed cost over two receipts that filled one obligation.
SPECIFICATION CostSpec
CONSTANTS
  w1 = w1  w2 = w2
  Warehouse = {w1}
  Day = {1}
  Quantity = {1, 2}
  Total = {20}
  Cost = {}
  Temporary = {31}
  Cent = 3
  MaxMoves = 3
  Backdated = FALSE
  Amount = {5}
  Weight = {1}
  MaxCosts = 1
CHECK_DEADLOCK FALSE
PROPERTY AllocatedCostReconciles
