SPECIFICATION Spec
CONSTANTS
  Items <- OnlyPrint
  OptionsOf <- SomeOptions
  Prices <- OnePrice
  Fee = 1
  Faults = {}
  MaxAdds = 2
PROPERTIES RemovedRowIsGone
CHECK_DEADLOCK FALSE
