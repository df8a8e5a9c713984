SPECIFICATION FairSpec
CONSTANTS
  Producer = {alice, bob}
  User = user
  Chunks = chunks
  Bank = bank
  Team = team
  Board = board
  World = world
  Eosio = eosio
  IntMax = 16000
  AssetMax = 8000
  ChunksPerEpoch = 2
  EmissionEpochs = 2
  MaxSupply = 1600
  InitialSupply = 800
  Odds = 4
  RollDigits = 100
  RollSplit = 65
  Rolls = {0, 24, 25, 199}
  Callee = {game, dud}
  Broken = {dud}
  Index = {}
  Moody = {}
  Gifts = {}
  MaxEpoch = 3
  MaxGifts = 2
  MaxResets = 0
PROPERTY EmissionCompletes
