\* Four movements of one product in two warehouses.
SPECIFICATION Spec
CONSTANTS
  w1 = w1  w2 = w2
  Warehouse = {w1, w2}
  Day = {1}
  Quantity = {1, 2}
  Total = {20}
  Cost = {25}
  Temporary = {31}
  Cent = 3
  MaxMoves = 4
  Backdated = FALSE
SYMMETRY Symmetry
CHECK_DEADLOCK FALSE
INVARIANTS TypeOK InventoryTies CyclesStartClean AverageIsBetweenCosts ReturnsWithinSource
PROPERTY ObligationsAreServed
