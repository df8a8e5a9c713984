SPECIFICATION BoundedSpec
CONSTANTS
  Producer = {alice, bob}
  User = user
  Chunks = chunks
  Bank = bank
  Team = team
  Board = board
  World = world
  Eosio = eosio
  IntMax = 16000
  AssetMax = 8000
  ChunksPerEpoch = 2
  EmissionEpochs = 3
  MaxSupply = 2405
  InitialSupply = 4
  Odds = 4
  RollDigits = 100
  RollSplit = 65
  Rolls = {0, 24, 25, 199}
  Callee = {game, dud}
  Broken = {dud}
  Index = {1}
  Moody = {bob}
  Gifts = {400}
  MaxEpoch = 5
  MaxGifts = 1
  MaxResets = 1
INVARIANTS TypeOK Solvency VestingSchedule SupplyFollowsLottery AbortsAreForeseen RollsAreFair NoChunkWithoutGift
PROPERTIES ActivatedAsIs EmitsToTheEnd
