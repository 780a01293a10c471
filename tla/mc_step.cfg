SPECIFICATION Spec
CONSTANTS
  WorldSize = 2
  MaxTokenLen = 4
  Epochs = 2
  ResponseLength = 3
  Unit = 2520
  Cases <- SomeCases
INVARIANTS BalancedRight InStep WeighedRight AdvantagesRight
