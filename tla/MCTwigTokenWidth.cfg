SPECIFICATION OperatingSpec
CONSTANTS
  Account = {alice, bob}
  Symbol = {twig}
  IntMax = 15
  AssetMax = 7
  MaxSupplies = {5}
  Quantities = {1, 2, 15}
  HoldingsBound = 0
INVARIANT HoldingsWithinMax
