SPECIFICATION BoundedSpec
CONSTANTS
  Name = {alice, bob}
  Key = {k1, k2}
  Votes = {0, 1}
  MaxProducers = 2
  BlocksPerMinute = 3
  MaxIds = 2
PROPERTY ElectionsAMinuteApart
