------------------------------ MODULE TwigToken ------------------------------
(***************************************************************************)
(* The fungible-token contract twig.token: the supplies singleton, the     *)
(* accounts table, and every action that changes one of them.              *)
(*                                                                         *)
(* Every action of the contract is atomic: a failed check aborts it and    *)
(* leaves no trace.  An action is therefore split into the predicate CanX, *)
(* the conjunction of its checks, and the action X, enabled when CanX      *)
(* holds.  Modules that run token actions inside a larger transaction use  *)
(* CanX to see whether that transaction aborts.                            *)
(*                                                                         *)
(* Data abstraction.  A fungible_pairs map is a function on Symbol whose   *)
(* value is 0 where the map has no entry; the code erases balance entries  *)
(* that reach 0 and rejects amounts that are not positive, so an entry     *)
(* never holds 0.  The vector of assets of a transfer holds at most one    *)
(* asset per symbol here: the loop checks and moves one asset after the    *)
(* other, so a vector that repeats a symbol does what a series of          *)
(* transfers does.                                                         *)
(*                                                                         *)
(* Authority is not modelled: the configuration actions, issue and retire  *)
(* are the contract account's own, the others those of the account they    *)
(* name first.                                                             *)
(***************************************************************************)
EXTENDS Integers, FiniteSets, Totals

CONSTANTS
  Account,     \* the accounts of the chain
  Symbol,      \* the token symbols
  IntMax,      \* the largest int64_t; amounts are stored in that type
  AssetMax,    \* the largest amount asset::is_valid accepts, 2^62 - 1
  MaxSupplies, \* the amounts setsupplies is called with
  Quantities   \* the amounts issue, retire and transfer are called with

ASSUME TokenAssumption ==
  /\ IsFiniteSet(Account)
  /\ IntMax \in Nat /\ AssetMax \in Nat /\ 2 * AssetMax <= IntMax
  /\ MaxSupplies \subseteq Int
  /\ Quantities \subseteq 1..IntMax

VARIABLES
  configured,  \* whether the singletons exist
  supply,      \* supplies.supply
  max_supply,  \* supplies.max_supply; 0 where the symbol is not registered
  rows,        \* the owners that have a row in the accounts table
  balance      \* their balances; an owner without a row holds nothing

vars == <<configured, supply, max_supply, rows, balance>>

-----------------------------------------------------------------------------
(* 64-bit arithmetic. *)

Int64 == (-IntMax - 1)..IntMax

\* The sum of two int64_t, which wraps around in the compiled contract.
Add(x, y) ==
  LET sum == x + y
  IN  CASE sum > IntMax      -> sum - 2 * (IntMax + 1)
        [] sum < -IntMax - 1 -> sum + 2 * (IntMax + 1)
        [] OTHER             -> sum

\* The check x - y >= 0 on two int64_t.  When the difference overflows, which is
\* undefined, the compiler may have kept the wrapped difference or have compared
\* x with y.
Covers(x, y) == x >= y \/ Add(x, -y) >= 0

Nothing == [s \in Symbol |-> 0]

\* The maps an action that takes tokens is called with.
TokenMaps == [Symbol -> {0} \cup Quantities]

Listed(tokens) == {s \in Symbol : tokens[s] # 0}

Registered == {s \in Symbol : max_supply[s] # 0}

\* What all the accounts hold of a symbol.
Holdings(s) == Total([a \in Account |-> balance[a][s]], Account)

-----------------------------------------------------------------------------
(* Before cfginit has run there is no singleton and no account. *)
Init ==
  /\ configured = FALSE
  /\ supply = Nothing /\ max_supply = Nothing
  /\ rows = {}
  /\ balance = [a \in Account |-> Nothing]

(* Contract configuration. *)

\* cfginit overwrites the supplies singleton with an empty one, whatever the
\* accounts hold.
cfginit ==
  /\ configured' = TRUE
  /\ supply' = Nothing /\ max_supply' = Nothing
  /\ UNCHANGED <<rows, balance>>

\* cfgdestruct removes the singletons and keeps the accounts.
cfgdestruct ==
  /\ configured' = FALSE
  /\ supply' = Nothing /\ max_supply' = Nothing
  /\ UNCHANGED <<rows, balance>>

\* Mutant of IsMaximum: asset::is_valid is not consulted.
IsPositive(n) == n > 0

\* What asset::is_valid and the check that follows it accept.
IsMaximum(n) == n \in 1..AssetMax

setsupplies(maxima) ==
  /\ configured
  /\ \A s \in DOMAIN maxima : s \notin Registered /\ IsMaximum(maxima[s])
  /\ max_supply' = [s \in Symbol |->
                      IF s \in DOMAIN maxima THEN maxima[s] ELSE max_supply[s]]
  /\ supply' = [s \in Symbol |-> IF s \in DOMAIN maxima THEN 0 ELSE supply[s]]
  /\ UNCHANGED <<configured, rows, balance>>

\* Mutant of CanForget: the supply need not have been retired.
CanForgetHeld(s) == s \in Registered

CanForget(s) == s \in Registered /\ supply[s] = 0

rmvsupply(symbols) ==
  /\ configured
  /\ \A s \in symbols : CanForget(s)
  /\ max_supply' = [s \in Symbol |->
                      IF s \in symbols THEN 0 ELSE max_supply[s]]
  /\ supply' = [s \in Symbol |-> IF s \in symbols THEN 0 ELSE supply[s]]
  /\ UNCHANGED <<configured, rows, balance>>

-----------------------------------------------------------------------------
(* Contract administration. *)

\* Mutant of CanIssue: the supply may reach its maximum.
CanIssueUpToMax(tokens) ==
  /\ configured
  /\ \A s \in Listed(tokens) :
       s \in Registered /\ Add(supply[s], tokens[s]) <= max_supply[s]

\* The cap is checked on the wrapped sum, and a supply may not reach it.
CanIssue(tokens) ==
  /\ configured
  /\ \A s \in Listed(tokens) :
       s \in Registered /\ Add(supply[s], tokens[s]) < max_supply[s]

issue(owner, tokens) ==
  /\ CanIssue(tokens)
  /\ supply' = [s \in Symbol |-> Add(supply[s], tokens[s])]
  /\ balance' = [balance EXCEPT ![owner] =
                   [s \in Symbol |-> Add(balance[owner][s], tokens[s])]]
  /\ rows' = rows \cup {owner}
  /\ UNCHANGED <<configured, max_supply>>

CanRetire(owner, tokens) ==
  /\ configured
  /\ owner \in rows
  /\ \A s \in Listed(tokens) : /\ s \in Registered
                               /\ Covers(supply[s], tokens[s])
                               /\ Covers(balance[owner][s], tokens[s])

retire(owner, tokens) ==
  /\ CanRetire(owner, tokens)
  /\ supply' = [s \in Symbol |-> Add(supply[s], -tokens[s])]
  /\ balance' = [balance EXCEPT ![owner] =
                   [s \in Symbol |-> Add(balance[owner][s], -tokens[s])]]
  /\ UNCHANGED <<configured, max_supply, rows>>

-----------------------------------------------------------------------------
(* User actions. *)

\* Nothing in the code ever writes a row of the unboxed table, so claimdrops
\* finds none of the indices it is given and only succeeds with an empty list:
\* it then sends itself an issue of no token, which opens the owner's row.
claimdrops(owner) == issue(owner, Nothing)

open(owner) ==
  /\ rows' = rows \cup {owner}
  /\ UNCHANGED <<configured, supply, max_supply, balance>>

\* Mutant of CanClose: the balances are not looked at.
CanCloseHolding(owner) == owner \in rows

CanClose(owner) == owner \in rows /\ balance[owner] = Nothing

close(owner) ==
  /\ CanClose(owner)
  /\ rows' = rows \ {owner}
  /\ UNCHANGED <<configured, supply, max_supply, balance>>

\* Mutant of CanTransfer: an account may pay itself.
CanTransferToSelf(from, to, tokens) ==
  /\ Listed(tokens) # {}
  /\ from \in rows
  /\ \A s \in Listed(tokens) : /\ tokens[s] \in 1..AssetMax
                               /\ Covers(balance[from][s], tokens[s])

\* Mutant of CanTransfer: an amount of nothing may be paid.
CanTransferNothing(from, to, tokens) ==
  /\ from # to
  /\ from \in rows
  /\ \A s \in Listed(tokens) : /\ tokens[s] \in 1..AssetMax
                               /\ Covers(balance[from][s], tokens[s])

CanTransfer(from, to, tokens) ==
  /\ from # to
  /\ Listed(tokens) # {}
  /\ from \in rows
  /\ \A s \in Listed(tokens) : /\ tokens[s] \in 1..AssetMax
                               /\ Covers(balance[from][s], tokens[s])

transfer(from, to, tokens) ==
  /\ CanTransfer(from, to, tokens)
  /\ balance' = [balance EXCEPT
                   ![from] = [s \in Symbol |->
                                Add(balance[from][s], -tokens[s])],
                   ![to] = [s \in Symbol |-> Add(balance[to][s], tokens[s])]]
  /\ rows' = rows \cup {to}
  /\ UNCHANGED <<configured, supply, max_supply>>

-----------------------------------------------------------------------------
(* The actions of a contract in operation, and those that reset it. *)
Operate ==
  \/ \E S \in SUBSET Symbol : \E maxima \in [S -> MaxSupplies] :
       setsupplies(maxima)
  \/ \E S \in SUBSET Symbol : rmvsupply(S)
  \/ \E owner \in Account, tokens \in TokenMaps :
       \/ issue(owner, tokens)
       \/ retire(owner, tokens)
  \/ \E owner \in Account : open(owner) \/ close(owner) \/ claimdrops(owner)
  \/ \E from, to \in Account, tokens \in TokenMaps : transfer(from, to, tokens)

Reset == cfginit \/ cfgdestruct

Next == Operate \/ Reset

Spec == Init /\ [][Next]_vars

\* A reset while the accounts hold no more than bound of any symbol.
BoundedReset(bound) == Reset /\ \A s \in Symbol : Holdings(s) <= bound

\* A contract that was configured once, at deployment, and not reset since.
Deployed ==
  /\ configured = TRUE
  /\ supply = Nothing /\ max_supply = Nothing
  /\ rows = {}
  /\ balance = [a \in Account |-> Nothing]

OperatingSpec == Deployed /\ [][Operate]_vars

-----------------------------------------------------------------------------
(* Properties. *)

\* Every table entry has the type the contract stores it in.
TypeOK ==
  /\ configured \in BOOLEAN
  /\ supply \in [Symbol -> Int64]
  /\ max_supply \in [Symbol -> 0..AssetMax]
  /\ rows \in SUBSET Account
  /\ balance \in [Account -> [Symbol -> Int64]]

\* The recorded supply of every symbol is what the accounts hold of it: issue
\* and retire move both by the same amount, transfer, open and close neither,
\* and rmvsupply forgets a symbol only when nobody holds it.
SupplyIsBacked == \A s \in Symbol : supply[s] = Holdings(s)

\* The check of issue keeps the supply of a registered symbol below its
\* maximum, so that no later addition to a balance overflows either.
SupplyBelowMax ==
  \A s \in Symbol : /\ supply[s] >= 0
                    /\ s \in Registered => supply[s] < max_supply[s]
                    /\ s \notin Registered => supply[s] = 0

\* close deletes no value and nothing else deletes a row: an owner without a
\* row in the accounts table holds nothing.
NoRowNoBalance == \A a \in Account \ rows : balance[a] = Nothing

\* The difference between what the accounts hold and the recorded supply.
Drift == [s \in Symbol |-> Holdings(s) - supply[s]]

\* Only cfginit and cfgdestruct, which forget the supplies while the accounts
\* keep their balances, can separate the supply from the holdings; no later
\* action widens or repairs the gap.
DriftOnlyByReset == [][Drift' = Drift \/ Reset]_vars

\* The message of the check in issue says that a fungible cannot be issued
\* above its maximum supply: no account ever holds more than that.
HoldingsWithinMax ==
  \A s \in Registered, a \in Account : balance[a][s] <= max_supply[s]
=============================================================================
