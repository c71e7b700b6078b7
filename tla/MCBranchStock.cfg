SPECIFICATION Spec
CONSTANTS
  k1 = k1
  k2 = k2
  r1 = r1
  r2 = r2
  x1 = x1
  None = None
  Keys = {k1, k2}
  Reservations = {r1, r2}
  Exchanges = {x1}
  Jobs = {j1, j2}
  Wants <- MCWants
  Units = {1}
  Replacement <- MCReplacement
  Original <- MCOriginal
  MaxQuantity = 2
INVARIANTS
  StockLedger
PROPERTIES
  OrderIsWhatWasReserved
SYMMETRY Interchangeable
