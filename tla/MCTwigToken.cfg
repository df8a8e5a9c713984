SPECIFICATION OperatingSpec
CONSTANTS
  Account = {alice, bob, carol}
  Symbol = {twig, gold}
  IntMax = 15
  AssetMax = 7
  MaxSupplies = {0, 4, 6, 8}
  Quantities = {1, 2}
  HoldingsBound = 0
SYMMETRY AccountSymmetry
INVARIANTS TypeOK SupplyIsBacked SupplyBelowMax NoRowNoBalance
