----------------------------- MODULE MCAccounts -----------------------------
(* Instances of Accounts for TLC. *)
EXTENDS Accounts

CONSTANTS eosio, names, eosioNames, gem, aGem, alice, bob, plain,
          owner, active, custom

MCSuffix == [n \in {eosioNames, aGem} |-> IF n = aGem THEN gem ELSE names]

MCLists == {{}, {custom}, {active}, {owner, custom}}

\* Bound: the limits and permissions are those of alice, and only eosio and bob are
\* whitelisted.
Few ==
  /\ DOMAIN limits' \subseteq {alice}
  /\ \A a \in accounts' \ {alice} : perms'[a] = {owner, active}
  /\ DOMAIN whitelist' \subseteq {eosio, bob}

BoundedSpec == Init /\ [][Next /\ Few]_vars
=============================================================================
