SPECIFICATION BoundedSpec
CONSTANTS
  eosio = eosio
  names = names
  eosioNames = eosioNames
  gem = gem
  aGem = aGem
  alice = alice
  bob = bob
  plain = plain
  owner = owner
  active = active
  custom = custom
  Top = {eosio, names, gem}
  Dotted = {eosioNames, aGem}
  Plain = {alice, bob, plain}
  Suffix <- MCSuffix
  Eosio = eosio
  Initial = {eosio, eosioNames, alice, bob}
  Permission = {owner, active, custom}
  Owner = owner
  Active = active
  Depths = {0, 3, 4}
  Lists <- MCLists
INVARIANTS TypeOK NeverLockedOut NamesAreReserved
