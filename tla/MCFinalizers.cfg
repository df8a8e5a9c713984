SPECIFICATION BoundedSpec
CONSTANTS
  Name = {alice, bob, carol}
  Key = {k1, k2, k3}
  Votes = {0, 1, 2}
  MaxProducers = 2
  BlocksPerMinute = 1
  MaxIds = 3
SYMMETRY NameAndKeySymmetry
INVARIANTS TypeOK KeysAreUnique TablesAgree ProposedKeyIsActive OneEntryEach ElectionIsAccepted
PROPERTY ElectsActiveProducers
