SPECIFICATION Spec
CONSTANTS
  Items <- AllItems
  OptionsOf <- SomeOptions
  Prices <- PrintChanges
  Fee = 1
  Faults = {"gone_away"}
  MaxAdds = 5
INVARIANTS TypeOK CartIsBalanced
PROPERTIES TotalsAgree OnlyLastOptionTakesItem
CHECK_DEADLOCK FALSE
