--------------------------- MODULE TwigTokenProofs ---------------------------
(***************************************************************************)
(* The ledger of a deployed twig.token keeps its invariants, for every set *)
(* of accounts and symbols and for every width of the integers, when no    *)
(* single amount exceeds AssetMax.  Without that hypothesis the sum that   *)
(* issue compares with the maximum may wrap around, which is what the run  *)
(* issue_wraps_around shows.                                               *)
(*                                                                         *)
(* A reset ledger is no longer backed, but what separates the supply from  *)
(* the holdings then stays as it is.  The lemmas on the actions are stated *)
(* for a gap of any size that the integers leave room for; a ledger in     *)
(* operation is the case of no gap.                                        *)
(***************************************************************************)
EXTENDS TwigToken, TotalsTheorems

\* No call names an amount that asset::is_valid would reject.
SaneQuantities == Quantities \subseteq 1..AssetMax

\* TypeOK without the room that int64_t leaves: nothing is ever negative.
NatTypeOK ==
  /\ configured \in BOOLEAN
  /\ supply \in [Symbol -> Nat]
  /\ max_supply \in [Symbol -> 0..AssetMax]
  /\ rows \in SUBSET Account
  /\ balance \in [Account -> [Symbol -> Nat]]

\* What a reset does not disturb.
Ledger == NatTypeOK /\ SupplyBelowMax /\ NoRowNoBalance

\* The inductive invariant.  The bound on supplies and the fact that they are
\* backed bound each balance, and with it every sum the contract computes.
IInv == Ledger /\ SupplyIsBacked

\* What the accounts hold of a symbol beyond its supply.
Gap(s) == Holdings(s) - supply[s]

\* The inductive invariant of a contract that is reset now and then: no symbol
\* has more than bound tokens too many.
ResetInv(bound) == Ledger /\ \A s \in Symbol : Gap(s) \in 0..bound

\* A step that moves the supply and the holdings together.
GapsKept == \A s \in Symbol : Gap(s)' = Gap(s)

\* The amounts that fit in an int64_t beside AssetMax.
Bounds == {bound \in Nat : bound + AssetMax <= IntMax}

(* A sum that fits does not wrap around. *)
LEMMA AddSmall ==
  ASSUME NEW x \in Int, NEW y \in Int, x + y \in 0..IntMax
  PROVE  Add(x, y) = x + y
BY TokenAssumption DEF Add

(* The check of a debit is a plain comparison. *)
LEMMA CoversSmall ==
  ASSUME NEW x \in 0..IntMax, NEW y \in 0..IntMax
  PROVE  Covers(x, y) <=> x >= y
<1>1. Add(x, -y) = x - y
  BY TokenAssumption DEF Add
<1>2. QED  BY <1>1, TokenAssumption DEF Covers

(* The amounts a call names are sane. *)
LEMMA TokensSmall ==
  ASSUME SaneQuantities, NEW tokens \in TokenMaps, NEW s \in Symbol
  PROVE  tokens[s] \in 0..AssetMax
<1>1. tokens[s] \in {0} \cup Quantities
  BY DEF TokenMaps
<1>2. CASE tokens[s] = 0
  BY <1>2, TokenAssumption
<1>3. CASE tokens[s] \in Quantities
  <2>1. tokens[s] \in 1..AssetMax
    BY <1>3 DEF SaneQuantities
  <2>2. QED  BY <2>1, TokenAssumption
<1>4. QED  BY <1>1, <1>2, <1>3

(* What the holdings of a symbol are before and after a step. *)
LEMMA HoldingsType ==
  ASSUME NatTypeOK, NEW s \in Symbol
  PROVE  /\ [a \in Account |-> balance[a][s]] \in [Account -> Nat]
         /\ Holdings(s) \in Nat
         /\ \A a \in Account : balance[a][s] <= Holdings(s)
<1> DEFINE held == [a \in Account |-> balance[a][s]]
<1>1. held \in [Account -> Nat]
  BY DEF NatTypeOK
<1>2. IsFiniteSet(Account)
  BY TokenAssumption
<1>3. Total(held, Account) \in Nat
  BY <1>1, <1>2, TotalType
<1>4. ASSUME NEW a \in Account
      PROVE  balance[a][s] <= Total(held, Account)
  <2>1. held[a] <= Total(held, Account)
    BY <1>1, <1>2, TotalBound
  <2>2. held[a] = balance[a][s]
    OBVIOUS
  <2>3. QED  BY <2>1, <2>2
<1>5. QED  BY <1>1, <1>3, <1>4 DEF Holdings

(* No supply reaches AssetMax. *)
LEMMA SmallSupply ==
  ASSUME Ledger, NEW s \in Symbol
  PROVE  supply[s] \in 0..AssetMax
<1>1. supply[s] \in Nat /\ max_supply[s] \in 0..AssetMax /\ AssetMax \in Nat
  BY TokenAssumption DEF Ledger, NatTypeOK
<1>2. CASE s \in Registered
  <2>1. supply[s] < max_supply[s]
    BY <1>2 DEF Ledger, SupplyBelowMax
  <2>2. QED  BY <1>1, <2>1
<1>3. CASE s \notin Registered
  <2>1. supply[s] = 0
    BY <1>3 DEF Ledger, SupplyBelowMax
  <2>2. QED  BY <1>1, <2>1
<1>4. QED  BY <1>2, <1>3

(* What an account holds, and what two accounts hold, is part of the holdings, *)
(* which exceed the supply by the gap.                                         *)
LEMMA SmallBalances ==
  ASSUME NEW bound \in Bounds, ResetInv(bound), NEW s \in Symbol
  PROVE  /\ \A a \in Account : /\ balance[a][s] \in 0..IntMax
                              /\ balance[a][s] <= supply[s] + bound
         /\ \A a, b \in Account :
              a # b => balance[a][s] + balance[b][s] \in 0..IntMax
<1> DEFINE held == [a \in Account |-> balance[a][s]]
<1>1. NatTypeOK /\ Ledger /\ Gap(s) \in 0..bound
  BY DEF ResetInv, Ledger
<1>2. /\ held \in [Account -> Nat] /\ Holdings(s) \in Nat
      /\ \A a \in Account : balance[a][s] <= Holdings(s)
  BY <1>1, HoldingsType
<1>3. supply[s] \in 0..AssetMax
  BY <1>1, SmallSupply
<1>4. /\ bound \in Nat /\ bound + AssetMax <= IntMax
      /\ AssetMax \in Nat /\ IntMax \in Nat
  BY TokenAssumption DEF Bounds
<1>5. Holdings(s) <= supply[s] + bound /\ Holdings(s) <= IntMax
  BY <1>1, <1>2, <1>3, <1>4 DEF Gap
<1>6. ASSUME NEW a \in Account
      PROVE  balance[a][s] \in 0..IntMax /\ balance[a][s] <= supply[s] + bound
  <2>1. balance[a][s] \in Nat
    BY <1>1 DEF NatTypeOK
  <2>2. QED  BY <2>1, <1>2, <1>3, <1>4, <1>5
<1>7. ASSUME NEW a \in Account, NEW b \in Account, a # b
      PROVE  balance[a][s] + balance[b][s] \in 0..IntMax
  <2> DEFINE merged == [held EXCEPT ![a] = held[a] + held[b], ![b] = 0]
  <2>1. held[a] = balance[a][s] /\ held[b] = balance[b][s]
    OBVIOUS
  <2>2. held[a] \in Nat /\ held[b] \in Nat
    BY <1>2
  <2>3. Holdings(s) = Total(held, Account) /\ IsFiniteSet(Account)
    BY TokenAssumption DEF Holdings
  <2> HIDE DEF held
  <2>4. merged \in [Account -> Nat]
    BY <1>2, <2>2
  <2>5. merged[a] = held[a] + held[b] /\ merged[b] = 0
    BY <1>2, <1>7
  <2>6. \A c \in Account \ {a, b} : merged[c] = held[c]
    BY <1>2
  <2> HIDE DEF merged
  <2>7. merged[a] + merged[b] = held[a] + held[b]
    BY <2>2, <2>5
  <2>8. Total(merged, Account) = Total(held, Account)
    BY <1>2, <1>7, <2>3, <2>4, <2>6, <2>7, TotalMove
  <2>9. merged[a] <= Total(merged, Account)
    BY <2>3, <2>4, TotalBound
  <2>10. QED  BY <1>2, <1>4, <1>5, <2>1, <2>2, <2>3, <2>5, <2>8, <2>9
<1>8. QED  BY <1>6, <1>7

(* A step that changes one account's balance of a symbol changes the holdings *)
(* of that symbol by as much.                                                 *)
LEMMA HoldingsChange ==
  ASSUME NatTypeOK, NatTypeOK', NEW s \in Symbol, NEW owner \in Account,
         \A a \in Account \ {owner} : balance'[a][s] = balance[a][s]
  PROVE  Holdings(s)' = Holdings(s) - balance[owner][s] + balance'[owner][s]
<1> DEFINE held == [a \in Account |-> balance[a][s]]
           then == [a \in Account |-> balance'[a][s]]
<1>1. held \in [Account -> Nat] /\ then \in [Account -> Nat]
  BY DEF NatTypeOK
<1>2. \A a \in Account \ {owner} : then[a] = held[a]
  OBVIOUS
<1>3. Total(then, Account) = Total(held, Account) - held[owner] + then[owner]
  BY <1>1, <1>2, TokenAssumption, TotalChange
<1>4. held[owner] = balance[owner][s] /\ then[owner] = balance'[owner][s]
  OBVIOUS
<1>5. QED  BY <1>3, <1>4 DEF Holdings

(* A step that keeps every balance keeps the holdings. *)
LEMMA HoldingsSame ==
  ASSUME UNCHANGED balance, NEW s \in Symbol
  PROVE  Holdings(s)' = Holdings(s)
BY DEF Holdings

-----------------------------------------------------------------------------
(* Before cfginit, and in a freshly deployed contract, nobody holds anything. *)
LEMMA EmptyInv ==
  ASSUME configured \in BOOLEAN, supply = Nothing, max_supply = Nothing,
         rows = {}, balance = [a \in Account |-> Nothing]
  PROVE  Ledger /\ \A s \in Symbol : Gap(s) = 0
<1> USE DEF Nothing
<1>1. NatTypeOK
  BY TokenAssumption DEF NatTypeOK
<1>2. \A s \in Symbol : Gap(s) = 0
  <2> SUFFICES ASSUME NEW s \in Symbol PROVE Gap(s) = 0
    OBVIOUS
  <2> DEFINE held == [a \in Account |-> balance[a][s]]
  <2>1. \A a \in Account : held[a] = 0
    OBVIOUS
  <2>2. Total(held, Account) = 0
    BY <2>1, TotalZero
  <2>3. QED  BY <2>2 DEF Gap, Holdings
<1>3. SupplyBelowMax
  BY DEF SupplyBelowMax, Registered
<1>4. NoRowNoBalance
  BY DEF NoRowNoBalance
<1>5. QED  BY <1>1, <1>2, <1>3, <1>4 DEF Ledger

(* A step that changes neither supplies nor balances keeps the gaps. *)
LEMMA GapsSame ==
  ASSUME UNCHANGED <<supply, balance>>
  PROVE  GapsKept
BY HoldingsSame DEF GapsKept, Gap

(* Registering symbols: a symbol registered anew had no supply, so that *)
(* resetting its supply to 0 changes nothing.                           *)
LEMMA SetsuppliesStep ==
  ASSUME Ledger, NEW S \in SUBSET Symbol, NEW maxima \in [S -> MaxSupplies],
         setsupplies(maxima)
  PROVE  Ledger' /\ GapsKept
<1> USE DEF setsupplies
<1>1. supply' = supply
  <2>1. \A s \in Symbol : supply'[s] = supply[s]
    BY DEF Ledger, SupplyBelowMax
  <2>2. QED  BY <2>1 DEF Ledger, NatTypeOK
<1>2. NatTypeOK'
  BY <1>1, TokenAssumption DEF Ledger, NatTypeOK, IsMaximum
<1>3. SupplyBelowMax'
  BY <1>1, TokenAssumption
  DEF Ledger, NatTypeOK, SupplyBelowMax, Registered, IsMaximum
<1>4. NoRowNoBalance'
  BY DEF Ledger, NoRowNoBalance
<1>5. QED  BY <1>1, <1>2, <1>3, <1>4, GapsSame DEF Ledger

(* Forgetting symbols without supply. *)
LEMMA RmvsupplyStep ==
  ASSUME Ledger, NEW S \in SUBSET Symbol, rmvsupply(S)
  PROVE  Ledger' /\ GapsKept
<1> USE DEF rmvsupply, CanForget
<1>1. supply' = supply
  <2>1. \A s \in Symbol : supply'[s] = supply[s]
    OBVIOUS
  <2>2. QED  BY <2>1 DEF Ledger, NatTypeOK
<1>2. NatTypeOK'
  BY <1>1, TokenAssumption DEF Ledger, NatTypeOK
<1>3. SupplyBelowMax'
  BY <1>1, TokenAssumption DEF Ledger, NatTypeOK, SupplyBelowMax, Registered
<1>4. NoRowNoBalance'
  BY DEF Ledger, NoRowNoBalance
<1>5. QED  BY <1>1, <1>2, <1>3, <1>4, GapsSame DEF Ledger

(* Issuing: the new supply is compared with the maximum before it is stored, *)
(* and the owner receives what the supply gains.                             *)
LEMMA IssueStep ==
  ASSUME SaneQuantities, NEW bound \in Bounds, ResetInv(bound),
         NEW owner \in Account, NEW tokens \in TokenMaps, issue(owner, tokens)
  PROVE  Ledger' /\ GapsKept
<1> USE DEF issue
<1>1. \A s \in Symbol : tokens[s] \in 0..AssetMax
  BY TokensSmall
<1>2. Ledger /\ NatTypeOK
  BY DEF ResetInv, Ledger
<1>3. ASSUME NEW s \in Symbol
      PROVE  /\ Add(supply[s], tokens[s]) = supply[s] + tokens[s]
             /\ s \in Registered => supply[s] + tokens[s] < max_supply[s]
             /\ s \notin Registered => tokens[s] = 0
  <2>1. supply[s] \in 0..AssetMax /\ tokens[s] \in 0..AssetMax
    BY <1>1, <1>2, SmallSupply
  <2>2. Add(supply[s], tokens[s]) = supply[s] + tokens[s]
    BY <2>1, TokenAssumption, AddSmall
  <2>3. CASE s \in Listed(tokens)
    <3>1. s \in Registered /\ Add(supply[s], tokens[s]) < max_supply[s]
      BY <2>3 DEF CanIssue
    <3>2. QED  BY <2>2, <3>1
  <2>4. CASE s \notin Listed(tokens)
    <3>1. tokens[s] = 0
      BY <2>4 DEF Listed
    <3>2. s \in Registered => supply[s] < max_supply[s]
      BY <1>2 DEF Ledger, SupplyBelowMax
    <3>3. QED  BY <2>1, <2>2, <3>1, <3>2
  <2>5. QED  BY <2>3, <2>4
<1>4. ASSUME NEW s \in Symbol
      PROVE  Add(balance[owner][s], tokens[s]) = balance[owner][s] + tokens[s]
  <2>1. /\ balance[owner][s] \in 0..IntMax
        /\ balance[owner][s] <= supply[s] + bound
    BY SmallBalances
  <2>2. supply[s] \in 0..AssetMax /\ tokens[s] \in 0..AssetMax
    BY <1>1, <1>2, SmallSupply
  <2>3. /\ bound \in Nat /\ bound + AssetMax <= IntMax
        /\ AssetMax \in Nat /\ IntMax \in Nat
    BY TokenAssumption DEF Bounds
  <2>4. supply[s] + tokens[s] <= AssetMax
    <3>1. CASE s \in Registered
      <4>1. max_supply[s] \in 0..AssetMax
        BY <1>2 DEF NatTypeOK
      <4>2. supply[s] + tokens[s] < max_supply[s]
        BY <1>3, <3>1
      <4>3. QED  BY <2>2, <2>3, <4>1, <4>2
    <3>2. CASE s \notin Registered
      BY <1>3, <2>2, <2>3, <3>2
    <3>3. QED  BY <3>1, <3>2
  <2>5. balance[owner][s] + tokens[s] \in 0..IntMax
    BY <2>1, <2>2, <2>3, <2>4
  <2>6. QED  BY <2>1, <2>2, <2>5, AddSmall
<1>5. ASSUME NEW s \in Symbol
      PROVE  /\ supply'[s] = supply[s] + tokens[s]
             /\ balance'[owner][s] = balance[owner][s] + tokens[s]
             /\ \A a \in Account \ {owner} : balance'[a][s] = balance[a][s]
  BY <1>2, <1>3, <1>4 DEF NatTypeOK
<1>6. NatTypeOK'
  <2>1. supply' \in [Symbol -> Nat]
    <3>1. \A s \in Symbol : Add(supply[s], tokens[s]) \in Nat
      BY <1>1, <1>2, <1>3, TokenAssumption DEF NatTypeOK
    <3>2. QED  BY <3>1
  <2>2. balance' \in [Account -> [Symbol -> Nat]]
    <3>1. \A s \in Symbol : Add(balance[owner][s], tokens[s]) \in Nat
      BY <1>1, <1>2, <1>4, TokenAssumption DEF NatTypeOK
    <3>2. [s \in Symbol |-> Add(balance[owner][s], tokens[s])] \in [Symbol -> Nat]
      BY <3>1
    <3>3. QED  BY <1>2, <3>2 DEF NatTypeOK
  <2>3. QED  BY <1>2, <2>1, <2>2 DEF NatTypeOK
<1>7. GapsKept
  <2> SUFFICES ASSUME NEW s \in Symbol PROVE Gap(s)' = Gap(s)
    BY DEF GapsKept
  <2>1. Holdings(s)' = Holdings(s) - balance[owner][s] + balance'[owner][s]
    BY <1>2, <1>5, <1>6, HoldingsChange
  <2>2. Holdings(s) \in Nat
    BY <1>2, HoldingsType
  <2>3. supply[s] \in Nat /\ balance[owner][s] \in Nat /\ tokens[s] \in Int
    BY <1>1, <1>2 DEF NatTypeOK
  <2>4. QED  BY <1>5, <2>1, <2>2, <2>3 DEF Gap
<1>8. SupplyBelowMax'
  <2> SUFFICES ASSUME NEW s \in Symbol
               PROVE  /\ supply'[s] >= 0
                      /\ s \in Registered' => supply'[s] < max_supply'[s]
                      /\ s \notin Registered' => supply'[s] = 0
    BY DEF SupplyBelowMax
  <2>1. /\ supply[s] \in Nat /\ tokens[s] \in 0..AssetMax
        /\ supply'[s] = supply[s] + tokens[s]
    BY <1>1, <1>2, <1>5 DEF NatTypeOK
  <2>2. max_supply' = max_supply /\ Registered' = Registered
    BY DEF Registered
  <2>3. s \notin Registered => supply[s] = 0
    BY <1>2 DEF Ledger, SupplyBelowMax
  <2>4. QED  BY <1>3, <2>1, <2>2, <2>3
<1>9. NoRowNoBalance'
  BY <1>2 DEF Ledger, NoRowNoBalance, NatTypeOK
<1>10. QED  BY <1>6, <1>7, <1>8, <1>9 DEF Ledger

(* Retiring: the owner loses what the supply loses. *)
LEMMA RetireStep ==
  ASSUME SaneQuantities, NEW bound \in Bounds, ResetInv(bound),
         NEW owner \in Account, NEW tokens \in TokenMaps, retire(owner, tokens)
  PROVE  Ledger' /\ GapsKept
<1> USE DEF retire
<1>1. \A s \in Symbol : tokens[s] \in 0..AssetMax
  BY TokensSmall
<1>2. Ledger /\ NatTypeOK
  BY DEF ResetInv, Ledger
<1>3. ASSUME NEW s \in Symbol
      PROVE  /\ Add(supply[s], -tokens[s]) = supply[s] - tokens[s]
             /\ Add(balance[owner][s], -tokens[s]) = balance[owner][s] - tokens[s]
             /\ supply[s] >= tokens[s] /\ balance[owner][s] >= tokens[s]
  <2>1. /\ supply[s] \in 0..IntMax /\ balance[owner][s] \in 0..IntMax
        /\ tokens[s] \in 0..IntMax /\ IntMax \in Nat
    BY <1>1, <1>2, SmallSupply, SmallBalances, TokenAssumption
  <2>2. supply[s] >= tokens[s] /\ balance[owner][s] >= tokens[s]
    <3>1. CASE s \in Listed(tokens)
      <4>1. Covers(supply[s], tokens[s]) /\ Covers(balance[owner][s], tokens[s])
        BY <3>1 DEF CanRetire
      <4>2. QED  BY <2>1, <4>1, CoversSmall
    <3>2. CASE s \notin Listed(tokens)
      BY <2>1, <3>2 DEF Listed
    <3>3. QED  BY <3>1, <3>2
  <2>3. /\ supply[s] + (-tokens[s]) \in 0..IntMax
        /\ balance[owner][s] + (-tokens[s]) \in 0..IntMax
        /\ -tokens[s] \in Int
    BY <2>1, <2>2
  <2>4. /\ Add(supply[s], -tokens[s]) = supply[s] + (-tokens[s])
        /\ Add(balance[owner][s], -tokens[s]) = balance[owner][s] + (-tokens[s])
    BY <2>1, <2>3, AddSmall
  <2>5. QED  BY <2>1, <2>2, <2>4
<1>4. ASSUME NEW s \in Symbol
      PROVE  /\ supply'[s] = supply[s] - tokens[s]
             /\ balance'[owner][s] = balance[owner][s] - tokens[s]
             /\ \A a \in Account \ {owner} : balance'[a][s] = balance[a][s]
  BY <1>2, <1>3 DEF NatTypeOK
<1>5. NatTypeOK'
  <2>1. \A s \in Symbol : /\ Add(supply[s], -tokens[s]) \in Nat
                          /\ Add(balance[owner][s], -tokens[s]) \in Nat
    <3> SUFFICES ASSUME NEW s \in Symbol
                 PROVE  /\ Add(supply[s], -tokens[s]) \in Nat
                        /\ Add(balance[owner][s], -tokens[s]) \in Nat
      OBVIOUS
    <3>1. supply[s] \in Nat /\ balance[owner][s] \in Nat /\ tokens[s] \in Nat
      BY <1>1, <1>2, TokenAssumption DEF NatTypeOK
    <3>2. QED  BY <1>3, <3>1
  <2>2. [s \in Symbol |-> Add(balance[owner][s], -tokens[s])] \in [Symbol -> Nat]
    BY <2>1
  <2>3. balance' \in [Account -> [Symbol -> Nat]]
    BY <1>2, <2>2 DEF NatTypeOK
  <2>4. supply' \in [Symbol -> Nat]
    BY <2>1
  <2>5. QED  BY <1>2, <2>3, <2>4 DEF NatTypeOK
<1>6. GapsKept
  <2> SUFFICES ASSUME NEW s \in Symbol PROVE Gap(s)' = Gap(s)
    BY DEF GapsKept
  <2>1. Holdings(s)' = Holdings(s) - balance[owner][s] + balance'[owner][s]
    BY <1>2, <1>4, <1>5, HoldingsChange
  <2>2. Holdings(s) \in Nat
    BY <1>2, HoldingsType
  <2>3. supply[s] \in Nat /\ balance[owner][s] \in Nat /\ tokens[s] \in Int
    BY <1>1, <1>2 DEF NatTypeOK
  <2>4. QED  BY <1>4, <2>1, <2>2, <2>3 DEF Gap
<1>7. SupplyBelowMax'
  <2> SUFFICES ASSUME NEW s \in Symbol
               PROVE  /\ supply'[s] >= 0
                      /\ s \in Registered' => supply'[s] < max_supply'[s]
                      /\ s \notin Registered' => supply'[s] = 0
    BY DEF SupplyBelowMax
  <2>1. /\ supply[s] \in 0..AssetMax /\ tokens[s] \in 0..AssetMax
        /\ supply'[s] = supply[s] - tokens[s] /\ supply[s] >= tokens[s]
    BY <1>1, <1>2, <1>3, <1>4, SmallSupply
  <2>2. max_supply' = max_supply /\ Registered' = Registered
    BY DEF Registered
  <2>3. /\ s \in Registered => supply[s] < max_supply[s]
        /\ s \notin Registered => supply[s] = 0
    BY <1>2 DEF Ledger, SupplyBelowMax
  <2>4. max_supply[s] \in 0..AssetMax
    BY <1>2 DEF NatTypeOK
  <2>5. QED  BY <2>1, <2>2, <2>3, <2>4, TokenAssumption
<1>8. NoRowNoBalance'
  BY <1>2 DEF Ledger, NoRowNoBalance, NatTypeOK, CanRetire
<1>9. QED  BY <1>5, <1>6, <1>7, <1>8 DEF Ledger

(* Opening a row. *)
LEMMA OpenStep ==
  ASSUME Ledger, NEW owner \in Account, open(owner)
  PROVE  Ledger' /\ GapsKept
<1> USE DEF open
<1>1. NatTypeOK'
  BY DEF Ledger, NatTypeOK
<1>2. SupplyBelowMax'
  BY DEF Ledger, SupplyBelowMax, Registered
<1>3. NoRowNoBalance'
  BY DEF Ledger, NoRowNoBalance
<1>4. QED  BY <1>1, <1>2, <1>3, GapsSame DEF Ledger

(* Closing a row: the row held nothing. *)
LEMMA CloseStep ==
  ASSUME Ledger, NEW owner \in Account, close(owner)
  PROVE  Ledger' /\ GapsKept
<1> USE DEF close, CanClose
<1>1. NatTypeOK'
  BY DEF Ledger, NatTypeOK
<1>2. SupplyBelowMax'
  BY DEF Ledger, SupplyBelowMax, Registered
<1>3. NoRowNoBalance'
  BY DEF Ledger, NoRowNoBalance
<1>4. QED  BY <1>1, <1>2, <1>3, GapsSame DEF Ledger

(* A transfer: one account gains what the other loses, and the recipient ends *)
(* with no more than the two held before.                                     *)
LEMMA TransferStep ==
  ASSUME SaneQuantities, NEW bound \in Bounds, ResetInv(bound),
         NEW from \in Account, NEW to \in Account, NEW tokens \in TokenMaps,
         transfer(from, to, tokens)
  PROVE  Ledger' /\ GapsKept
<1> USE DEF transfer
<1>1. from # to
  BY DEF CanTransfer
<1>2. Ledger /\ NatTypeOK
  BY DEF ResetInv, Ledger
<1>3. ASSUME NEW s \in Symbol
      PROVE  /\ Add(balance[from][s], -tokens[s]) = balance[from][s] - tokens[s]
             /\ Add(balance[to][s], tokens[s]) = balance[to][s] + tokens[s]
             /\ balance[from][s] \in Nat /\ balance[to][s] \in Nat
             /\ tokens[s] \in Nat /\ balance[from][s] >= tokens[s]
  <2>1. balance[from][s] \in 0..IntMax /\ balance[to][s] \in 0..IntMax
    BY SmallBalances
  <2>2. balance[from][s] + balance[to][s] \in 0..IntMax
    BY <1>1, SmallBalances
  <2>3. tokens[s] \in 0..IntMax /\ IntMax \in Nat
    BY TokensSmall, TokenAssumption
  <2>4. balance[from][s] >= tokens[s]
    <3>1. CASE s \in Listed(tokens)
      <4>1. Covers(balance[from][s], tokens[s])
        BY <3>1 DEF CanTransfer
      <4>2. QED  BY <2>1, <2>3, <4>1, CoversSmall
    <3>2. CASE s \notin Listed(tokens)
      BY <2>1, <3>2 DEF Listed
    <3>3. QED  BY <3>1, <3>2
  <2>5. /\ balance[from][s] + (-tokens[s]) \in 0..IntMax
        /\ balance[to][s] + tokens[s] \in 0..IntMax
        /\ -tokens[s] \in Int
    BY <2>1, <2>2, <2>3, <2>4
  <2>6. /\ Add(balance[from][s], -tokens[s]) = balance[from][s] + (-tokens[s])
        /\ Add(balance[to][s], tokens[s]) = balance[to][s] + tokens[s]
    BY <2>1, <2>3, <2>5, AddSmall
  <2>7. QED  BY <2>1, <2>3, <2>4, <2>6
<1>4. ASSUME NEW s \in Symbol
      PROVE  /\ balance'[from][s] = balance[from][s] - tokens[s]
             /\ balance'[to][s] = balance[to][s] + tokens[s]
             /\ \A a \in Account \ {from, to} : balance'[a][s] = balance[a][s]
  BY <1>1, <1>2, <1>3 DEF NatTypeOK
<1>5. NatTypeOK'
  <2>1. \A s \in Symbol : /\ Add(balance[from][s], -tokens[s]) \in Nat
                          /\ Add(balance[to][s], tokens[s]) \in Nat
    <3> SUFFICES ASSUME NEW s \in Symbol
                 PROVE  /\ Add(balance[from][s], -tokens[s]) \in Nat
                        /\ Add(balance[to][s], tokens[s]) \in Nat
      OBVIOUS
    <3>1. QED  BY <1>3
  <2>2. /\ [s \in Symbol |-> Add(balance[from][s], -tokens[s])] \in [Symbol -> Nat]
        /\ [s \in Symbol |-> Add(balance[to][s], tokens[s])] \in [Symbol -> Nat]
    BY <2>1
  <2>3. balance' \in [Account -> [Symbol -> Nat]]
    BY <1>2, <2>2 DEF NatTypeOK
  <2>4. QED  BY <1>2, <2>3 DEF NatTypeOK
<1>6. GapsKept
  <2> SUFFICES ASSUME NEW s \in Symbol PROVE Gap(s)' = Gap(s)
    BY DEF GapsKept
  <2> DEFINE held == [a \in Account |-> balance[a][s]]
             then == [a \in Account |-> balance'[a][s]]
  <2>1. held \in [Account -> Nat] /\ then \in [Account -> Nat]
    BY <1>2, <1>5 DEF NatTypeOK
  <2>2. then[from] + then[to] = held[from] + held[to]
    <3>1. /\ balance[from][s] \in Nat /\ balance[to][s] \in Nat
          /\ tokens[s] \in Nat
      BY <1>3
    <3>2. /\ balance'[from][s] = balance[from][s] - tokens[s]
          /\ balance'[to][s] = balance[to][s] + tokens[s]
      BY <1>4
    <3> HIDE DEF transfer
    <3>3. balance'[from][s] + balance'[to][s] = balance[from][s] + balance[to][s]
      BY <3>1, <3>2
    <3>4. QED  BY <3>3
  <2>3. \A a \in Account \ {from, to} : then[a] = held[a]
    BY <1>4
  <2>4. IsFiniteSet(Account)
    BY TokenAssumption
  <2>5. Holdings(s) = Total(held, Account) /\ Holdings(s)' = Total(then, Account)
    BY DEF Holdings
  <2> HIDE DEF held, then
  <2>6. Total(then, Account) = Total(held, Account)
    BY <1>1, <2>1, <2>2, <2>3, <2>4, TotalMove
  <2>7. supply' = supply
    OBVIOUS
  <2>8. QED  BY <2>5, <2>6, <2>7 DEF Gap
<1>7. SupplyBelowMax'
  BY <1>2 DEF Ledger, SupplyBelowMax, Registered
<1>8. NoRowNoBalance'
  BY <1>2 DEF Ledger, NoRowNoBalance, NatTypeOK, CanTransfer
<1>9. QED  BY <1>5, <1>6, <1>7, <1>8 DEF Ledger

-----------------------------------------------------------------------------
(* Every step of a contract in operation moves supplies and holdings together. *)
LEMMA OperateStep ==
  ASSUME SaneQuantities, NEW bound \in Bounds, ResetInv(bound), [Operate]_vars
  PROVE  Ledger' /\ GapsKept
<1> DEFINE Kept == Ledger' /\ GapsKept
<1>1. ASSUME NEW S \in SUBSET Symbol, NEW maxima \in [S -> MaxSupplies],
             setsupplies(maxima)
      PROVE  Kept
  BY <1>1, SetsuppliesStep DEF ResetInv
<1>2. ASSUME NEW S \in SUBSET Symbol, rmvsupply(S)
      PROVE  Kept
  BY <1>2, RmvsupplyStep DEF ResetInv
<1>3. ASSUME NEW owner \in Account, NEW tokens \in TokenMaps,
             issue(owner, tokens)
      PROVE  Kept
  BY <1>3, IssueStep
<1>4. ASSUME NEW owner \in Account, NEW tokens \in TokenMaps,
             retire(owner, tokens)
      PROVE  Kept
  BY <1>4, RetireStep
<1>5. ASSUME NEW owner \in Account, open(owner)
      PROVE  Kept
  BY <1>5, OpenStep DEF ResetInv
<1>6. ASSUME NEW owner \in Account, close(owner)
      PROVE  Kept
  BY <1>6, CloseStep DEF ResetInv
<1>7. ASSUME NEW owner \in Account, claimdrops(owner)
      PROVE  Kept
  <2>1. Nothing \in TokenMaps
    BY DEF Nothing, TokenMaps
  <2>2. QED  BY <1>7, <2>1, IssueStep DEF claimdrops
<1>8. ASSUME NEW from \in Account, NEW to \in Account, NEW tokens \in TokenMaps,
             transfer(from, to, tokens)
      PROVE  Kept
  BY <1>8, TransferStep
<1>9. CASE UNCHANGED vars
  <2>1. UNCHANGED <<configured, supply, max_supply, rows, balance>>
    BY <1>9 DEF vars
  <2>2. Ledger'
    BY <2>1 DEF ResetInv, Ledger, NatTypeOK, SupplyBelowMax, Registered,
                NoRowNoBalance
  <2>3. QED  BY <2>1, <2>2, GapsSame
<1>10. QED
  BY <1>1, <1>2, <1>3, <1>4, <1>5, <1>6, <1>7, <1>8, <1>9 DEF Operate

(* A ledger that is backed is one without gaps. *)
LEMMA BackedInv ==
  IInv <=> ResetInv(0)
<1>1. ASSUME Ledger, NEW s \in Symbol
      PROVE  supply[s] = Holdings(s) <=> Gap(s) \in 0..0
  <2>1. supply[s] \in Nat /\ NatTypeOK
    BY <1>1 DEF Ledger, NatTypeOK
  <2>2. Holdings(s) \in Nat
    BY <2>1, HoldingsType
  <2>3. QED  BY <2>1, <2>2 DEF Gap
<1>2. QED  BY <1>1 DEF IInv, ResetInv, SupplyIsBacked

(* The integers leave room for a ledger without gaps. *)
LEMMA NoGapBound == 0 \in Bounds
BY TokenAssumption DEF Bounds

(* A bounded reset: what the accounts hold becomes the gap. *)
LEMMA ResetStep ==
  ASSUME NEW bound \in Bounds, ResetInv(bound), BoundedReset(bound)
  PROVE  ResetInv(bound)'
<1>1. Ledger /\ NatTypeOK
  BY DEF ResetInv, Ledger
<1>2. /\ configured' \in BOOLEAN
      /\ supply' = [s \in Symbol |-> 0] /\ max_supply' = [s \in Symbol |-> 0]
      /\ UNCHANGED <<rows, balance>>
  BY DEF BoundedReset, Reset, cfginit, cfgdestruct, Nothing
<1>3. NatTypeOK'
  BY <1>1, <1>2, TokenAssumption DEF NatTypeOK
<1>4. SupplyBelowMax'
  BY <1>2 DEF SupplyBelowMax, Registered
<1>5. NoRowNoBalance'
  BY <1>1, <1>2 DEF Ledger, NoRowNoBalance
<1>6. ASSUME NEW s \in Symbol
      PROVE  Gap(s)' \in 0..bound
  <2>1. supply'[s] = 0 /\ Holdings(s)' = Holdings(s)
    BY <1>2, HoldingsSame
  <2>2. Holdings(s) \in Nat /\ Holdings(s) <= bound /\ bound \in Nat
    BY <1>1, HoldingsType DEF Bounds, BoundedReset
  <2>3. QED  BY <2>1, <2>2 DEF Gap
<1>7. QED  BY <1>3, <1>4, <1>5, <1>6 DEF ResetInv, Ledger

(* The invariant holds in every state of a contract in operation. *)
THEOREM Invariance ==
  ASSUME SaneQuantities
  PROVE  OperatingSpec => []IInv
<1>1. Deployed => ResetInv(0)
  <2> SUFFICES ASSUME Deployed PROVE ResetInv(0)
    OBVIOUS
  <2>1. Ledger /\ \A s \in Symbol : Gap(s) = 0
    BY EmptyInv DEF Deployed
  <2>2. QED  BY <2>1 DEF ResetInv
<1>2. ResetInv(0) /\ [Operate]_vars => ResetInv(0)'
  <2> SUFFICES ASSUME ResetInv(0), [Operate]_vars PROVE ResetInv(0)'
    OBVIOUS
  <2>1. Ledger' /\ GapsKept
    BY NoGapBound, OperateStep
  <2>2. QED  BY <2>1 DEF ResetInv, GapsKept
<1>3. ResetInv(0) => IInv
  BY BackedInv
<1>4. QED  BY <1>1, <1>2, <1>3, PTL DEF OperatingSpec

(* Every stored amount fits in its int64_t field. *)
THEOREM TypeCorrect ==
  ASSUME SaneQuantities
  PROVE  OperatingSpec => []TypeOK
<1>1. IInv => TypeOK
  <2> SUFFICES ASSUME IInv PROVE TypeOK
    OBVIOUS
  <2>1. ASSUME NEW s \in Symbol
        PROVE  /\ supply[s] \in Int64
               /\ \A a \in Account : balance[a][s] \in Int64
    <3>1. \A a \in Account : balance[a][s] \in 0..IntMax
      BY BackedInv, NoGapBound, SmallBalances
    <3>2. supply[s] \in 0..AssetMax
      BY SmallSupply DEF IInv
    <3>3. QED  BY <3>1, <3>2, TokenAssumption DEF Int64
  <2>2. supply \in [Symbol -> Int64]
    BY <2>1 DEF IInv, Ledger, NatTypeOK
  <2>3. balance \in [Account -> [Symbol -> Int64]]
    BY <2>1 DEF IInv, Ledger, NatTypeOK
  <2>4. QED  BY <2>2, <2>3 DEF IInv, Ledger, NatTypeOK, TypeOK
<1>2. QED  BY <1>1, Invariance, PTL

(* The recorded supply is what the accounts hold. *)
THEOREM Backed ==
  ASSUME SaneQuantities
  PROVE  OperatingSpec => []SupplyIsBacked
<1>1. IInv => SupplyIsBacked
  BY DEF IInv
<1>2. QED  BY <1>1, Invariance, PTL

(* The supply of a registered symbol stays below its maximum. *)
THEOREM BelowMax ==
  ASSUME SaneQuantities
  PROVE  OperatingSpec => []SupplyBelowMax
<1>1. IInv => SupplyBelowMax
  BY DEF IInv, Ledger
<1>2. QED  BY <1>1, Invariance, PTL

(* No account holds more of a symbol than its maximum supply: when amounts are *)
(* sane, issue keeps what its message says.                                    *)
THEOREM HoldersBelowMax ==
  ASSUME SaneQuantities
  PROVE  OperatingSpec => []HoldingsWithinMax
<1>1. IInv => HoldingsWithinMax
  <2> SUFFICES ASSUME IInv, NEW s \in Registered, NEW a \in Account
               PROVE  balance[a][s] <= max_supply[s]
    BY DEF HoldingsWithinMax
  <2>1. s \in Symbol
    BY DEF Registered
  <2>2. balance[a][s] <= Holdings(s) /\ Holdings(s) \in Nat
    BY <2>1, HoldingsType DEF IInv, Ledger
  <2>3. Holdings(s) = supply[s] /\ supply[s] < max_supply[s]
    BY <2>1 DEF IInv, Ledger, SupplyIsBacked, SupplyBelowMax
  <2>4. max_supply[s] \in Int /\ balance[a][s] \in Nat
    BY <2>1, TokenAssumption DEF IInv, Ledger, NatTypeOK
  <2>5. QED  BY <2>2, <2>3, <2>4
<1>2. QED  BY <1>1, Invariance, PTL

(* No value is deleted with a row: whoever has none holds nothing. *)
THEOREM NoValueLost ==
  ASSUME SaneQuantities
  PROVE  OperatingSpec => []NoRowNoBalance
<1>1. IInv => NoRowNoBalance
  BY DEF IInv, Ledger
<1>2. QED  BY <1>1, Invariance, PTL

(* A contract that is reset at any time, but never while the accounts hold so  *)
(* much that another maximum supply would not fit in an int64_t, never has     *)
(* less than its supply in the accounts, and at most bound more.               *)
THEOREM ResetInvariance ==
  ASSUME SaneQuantities, NEW bound \in Bounds
  PROVE  Init /\ [][Operate \/ BoundedReset(bound)]_vars => []ResetInv(bound)
<1>1. Init => ResetInv(bound)
  <2> SUFFICES ASSUME Init PROVE ResetInv(bound)
    OBVIOUS
  <2>1. Ledger /\ \A s \in Symbol : Gap(s) = 0
    BY EmptyInv DEF Init
  <2>2. bound \in Nat
    BY DEF Bounds
  <2>3. QED  BY <2>1, <2>2 DEF ResetInv
<1>2. ResetInv(bound) /\ [Operate \/ BoundedReset(bound)]_vars => ResetInv(bound)'
  <2> SUFFICES ASSUME ResetInv(bound), [Operate \/ BoundedReset(bound)]_vars
               PROVE  ResetInv(bound)'
    OBVIOUS
  <2>1. CASE [Operate]_vars
    <3>1. Ledger' /\ GapsKept
      BY <2>1, OperateStep
    <3>2. QED  BY <3>1 DEF ResetInv, GapsKept
  <2>2. CASE BoundedReset(bound)
    BY <2>2, ResetStep
  <2>3. QED  BY <2>1, <2>2
<1>3. QED  BY <1>1, <1>2, PTL

(* The supply and the holdings are separated by a reset and by nothing else: *)
(* whatever a reset left too much, no later action widens or repairs the gap. *)
THEOREM DriftOnlyFromReset ==
  ASSUME SaneQuantities, NEW bound \in Bounds
  PROVE  Init /\ [][Operate \/ BoundedReset(bound)]_vars => DriftOnlyByReset
<1>1. ResetInv(bound) /\ [Operate \/ BoundedReset(bound)]_vars
        => [Drift' = Drift \/ Reset]_vars
  <2> SUFFICES ASSUME ResetInv(bound), [Operate]_vars
               PROVE  Drift' = Drift
    BY DEF BoundedReset
  <2>1. \A s \in Symbol : Gap(s)' = Gap(s)
    BY OperateStep DEF GapsKept
  <2>2. Drift = [s \in Symbol |-> Gap(s)]
    BY DEF Drift, Gap
  <2>3. Drift' = [s \in Symbol |-> Gap(s)']
    BY DEF Drift, Gap
  <2>4. QED  BY <2>1, <2>2, <2>3
<1>2. QED  BY <1>1, ResetInvariance, PTL DEF DriftOnlyByReset
=============================================================================
