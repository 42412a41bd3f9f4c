SPECIFICATION Spec
CONSTANTS
  Browsers = {b1}
  Requests = {r1}
  Items = {i1}
  Prices = {1}
  Fee = 1
  MaxFills = 2
  MaxEdits = 1
CHECK_DEADLOCK FALSE
INVARIANTS PlacedIsOrdered
