SPECIFICATION BoundedSpec
CONSTANTS
  Window = 4
  PruneLimit = 2
  Deployed = {0}
  MaxHeight = 14
  Offsets = {0}
  Sizes = {1}
INVARIANT LatestIsReported
