SPECIFICATION Spec
CONSTANTS
  Items <- OnlyFrame
  OptionsOf <- SomeOptions
  Prices <- OnePrice
  Fee = 1
  Faults = {}
  MaxAdds = 1
PROPERTIES GrandTotalIsCharged
CHECK_DEADLOCK FALSE
