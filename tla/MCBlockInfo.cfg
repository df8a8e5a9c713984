SPECIFICATION BoundedSpec
CONSTANTS
  Window = 4
  PruneLimit = 2
  Deployed = {0, 3}
  MaxHeight = 14
  Offsets = {0, 1, 6}
  Sizes = {0, 1, 2, 3, 4, 5}
INVARIANTS TypeOK WithinWindow BatchesAligned RecentBatchesAreFound
PROPERTY BacklogShrinks
