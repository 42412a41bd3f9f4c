SPECIFICATION Spec
CONSTANTS
  Browsers = {b1, b2}
  Requests = {r1, r2}
  Items = {i1}
  Prices = {1}
  Fee = 1
  MaxFills = 2
  MaxEdits = 1
INVARIANTS TypeOK ChargesMatchOrders ChargedOnce OneCustomerPerBrowser
PROPERTIES PaymentEnds
CHECK_DEADLOCK FALSE
