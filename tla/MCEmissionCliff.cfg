SPECIFICATION Spec
CONSTANTS
  Producer = {alice, bob}
  User = user
  Chunks = chunks
  Bank = bank
  Team = team
  Board = board
  World = world
  Eosio = eosio
  IntMax = 16000
  AssetMax = 8000
  ChunksPerEpoch = 2
  EmissionEpochs = 3
  MaxSupply = 2400
  InitialSupply = 80
  Odds = 4
  RollDigits = 100
  RollSplit = 65
  Rolls = {0, 24, 25, 199}
  Callee = {game, dud}
  Broken = {dud}
  Index = {}
  Moody = {}
  Gifts = {}
  MaxEpoch = 4
  MaxGifts = 2
  MaxResets = 0
INVARIANT VestsGradually
