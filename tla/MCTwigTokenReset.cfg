SPECIFICATION BoundedSpec
CONSTANTS
  Account = {alice, bob}
  Symbol = {twig}
  IntMax = 15
  AssetMax = 7
  MaxSupplies = {3, 5}
  Quantities = {1, 2}
  HoldingsBound = 5
PROPERTY DriftOnlyByReset
