--------------------------- MODULE EmissionProofs ---------------------------
(***************************************************************************)
(* Proofs about Emission: that the bank can always pay what it owes, that  *)
(* its books and the supply follow the lottery, why a block can fail, and  *)
(* that every table keeps its type.                                        *)
(*                                                                         *)
(* They all follow from one inductive invariant, IInv, which says what is  *)
(* true in the middle of a block: what the queue of inline actions is made *)
(* of, that the accounts it moves tokens from hold them, and how far the   *)
(* books are behind the lottery.  The module defines the invariant, states *)
(* what a queue moves, and then has one lemma per action.                  *)
(***************************************************************************)
EXTENDS Emission, TotalsTheorems

-----------------------------------------------------------------------------
(* The inductive invariant.                                                *)
(*                                                                         *)
(* Most of it is said of a record s, such as State and saved are, and of a *)
(* queue q of inline actions: it holds of the state with the queue that is *)
(* pending, and of the state before the block with no queue, which is what *)
(* an abort leads to.                                                      *)

Next0(q, act) == q # <<>> /\ Head(q).act = act

\* An amount that an inline action moves from an account in F to one in G.
Moved(e, F, G) ==
  IF e.act = "transfer" /\ e.from \in F /\ e.to \in G THEN e.amount ELSE 0

\* All that the queue moves from F to G.
Flow(q, F, G) == Sum([i \in DOMAIN q |-> Moved(q[i], F, G)])

\* The ledger of the core token: sound, with a supply below its maximum that is
\* what the accounts hold, and no balance without a row.
Ledger(s) ==
  /\ s.supply \in [Symbol -> 0..(MaxSupply - 1)]
  /\ s.rows \in SUBSET Account
  /\ s.balance \in [Account -> [Symbol -> Nat]]
  /\ s.supply[Twig] = Total([a \in Account |-> s.balance[a][Twig]], Account)
  /\ \A a \in Account \ s.rows : s.balance[a][Twig] = 0

Due(row) == row.vested + Outstanding(row)

VestingRow == [vested : Nat, unvesting_total : Amount, unvested : Nat, epoch : Epoch]

\* What was deposited for a payee, and for all of them.
DepositedFor(s, p) == Total(s.deposits[p], Epoch)
Deposited(s) == Total([p \in Payee |-> DepositedFor(s, p)], Payee)
PaidOut(s) == Total(s.paid, Payee)

\* What the vesting table says that the bank owes.
RowsDue(s) == Total([p \in DOMAIN s.vesting |-> Due(s.vesting[p])], DOMAIN s.vesting)

\* The bank holds what it owes, it has paid no more than it was sent, and the
\* payees still hold what they were paid.
Vault(s, q) ==
  /\ DOMAIN s.vesting \subseteq Payee
  /\ \A p \in DOMAIN s.vesting :
       /\ s.vesting[p] \in VestingRow
       /\ s.vesting[p].unvested <= s.vesting[p].unvesting_total
  /\ s.deposits \in [Payee -> [Epoch -> Nat]]
  /\ s.paid \in [Payee -> Nat]
  /\ s.balance[Bank][Twig] >= RowsDue(s) + Flow(q, {Bank}, Account)
  /\ s.balance[Bank][Twig] + PaidOut(s) >= Deposited(s)
  /\ \A p \in Payee : s.paid[p] <= s.balance[p][Twig]

\* The epoch that the rows of the bank are in: the last one, until the bank has
\* been told that a new one has started.
BooksEpoch(s, q) ==
  IF Next0(q, "onepoch") THEN s.lucky.epoch - 1 ELSE s.lucky.epoch

Before(s, p, e) == IF e > 1 THEN s.deposits[p][e - 1] ELSE 0

\* What was deposited for a payee before the last epoch of the books.
Past(s, p, e) == Total(s.deposits[p], {d \in Epoch : d < e - 1})

\* VestingSchedule in the middle of a block.
Books(s, q) ==
  LET e == BooksEpoch(s, q)
  IN  /\ e \in Epoch
      /\ \A p \in DOMAIN s.vesting :
           LET row == s.vesting[p]
           IN  /\ row.epoch = e
               /\ row.vested = s.deposits[p][e]
               /\ row.unvesting_total = Before(s, p, e)
               /\ s.paid[p] + Flow(q, {Bank}, {p}) = row.unvested + Past(s, p, e)
      /\ \A p \in Payee \ DOMAIN s.vesting :
           /\ \A d \in Epoch : s.deposits[p][d] = 0
           /\ s.paid[p] + Flow(q, {Bank}, {p}) = 0
      /\ \A p \in Payee, d \in Epoch : d > e => s.deposits[p][d] = 0

\* ChunksFound, of a given state of the lottery.
FoundBy(l) ==
  {c \in Epoch \X (1..ChunksPerEpoch) :
    /\ c[1] <= EmissionEpochs
    /\ \/ c[1] < l.epoch
       \/ c[1] = l.epoch /\ c[2] > l.chunks}

\* Whether the chunk that was found last is still to be issued.
IssueIsDue(s, q) ==
  \/ Next0(q, "issue")
  \/ Next0(q, "onchunk") /\ s.lucky.epoch < EmissionEpochs + 1

\* SupplyFollowsLottery in the middle of a block.
Issued(s, q) ==
  s.supply[Twig] + (IF IssueIsDue(s, q) THEN ChunkIssue ELSE 0)
    = InitialSupply + ChunkIssue * Cardinality(FoundBy(s.lucky))

Lottery(s) ==
  s.lucky \in [epoch : Epoch, chunks : 0..ChunksPerEpoch,
               producer : Producer \cup {Eosio}]

Sound(s, q) ==
  /\ Lottery(s) /\ Ledger(s) /\ Vault(s, q)
  /\ resets = 0 => Books(s, q) /\ Issued(s, q)

\* A transfer that shares out a chunk, and one that pays what has vested.
Share(to, memo) ==
  [act : {"transfer"}, from : {Chunks}, to : {to}, amount : Nat, memo : {memo}]

Shares ==
  Share(Bank, "team_share") \cup Share(Board, "board_share")
    \cup Share(Bank, "producer_share") \cup Share(World, "Refilling World")

Payouts ==
  [act : {"transfer"}, from : {Bank}, to : Payee, amount : Nat \ {0},
   memo : {"Distributing"}]

Starts == {OnChunk, OnEpoch(lucky.epoch), Issue(ChunkIssue)}

Called == {Callback(rngcalls[i].contract) : i \in Active}

Rest == Shares \cup Payouts \cup Called

\* The queue of a block: its first action may be onchunk, onepoch or the issue, the
\* others are transfers and callbacks; onchunk comes before all transfers; and
\* the chunks account holds what is going to be sent from it.
Queue ==
  /\ pending \in Seq(Starts \cup Rest)
  /\ \A i \in DOMAIN pending : i > 1 => pending[i] \notin Starts
  /\ Running("onchunk") =>
       \A i \in DOMAIN pending : i > 1 => pending[i] \in Called
  /\ Flow(pending, {Chunks}, Account)
       <= Held(Chunks) + IF Running("issue") THEN ChunkIssue ELSE 0

\* A transaction runs in a block whose producer is known.
Transaction ==
  ~Quiet => /\ installed /\ lucky.producer \in Producer
            /\ Sound(saved, <<>>)

Tables ==
  /\ configured = TRUE /\ max_supply = One(MaxSupply)
  /\ installed \in BOOLEAN /\ refusing \in SUBSET Moody
  /\ DOMAIN rngcalls \in SUBSET Index /\ IsFiniteSet(DOMAIN rngcalls)
  /\ \A i \in DOMAIN rngcalls :
       rngcalls[i] \in [contract : Callee, active : BOOLEAN]
  /\ gifts \in 0..MaxGifts /\ resets \in 0..MaxResets

IInv == Sound(State, pending) /\ Queue /\ Transaction /\ Tables

-----------------------------------------------------------------------------
(* The constants. *)

(* What is known of the numbers. *)
LEMMA Constants ==
  /\ MaxSupply \in Nat /\ MaxSupply <= AssetMax /\ 2 * AssetMax <= IntMax
  /\ AssetMax \in Nat /\ IntMax \in Nat
  /\ InitialSupply \in 0..(MaxSupply - 1)
  /\ ChunksPerEpoch \in Nat \ {0} /\ EmissionEpochs \in Nat \ {0}
  /\ MaxEpoch \in Nat \ {0} /\ MaxGifts \in Nat /\ MaxResets \in Nat
  /\ Twig \in Symbol /\ \A s \in Symbol : s = Twig
BY EmissionAssumption DEF Symbol

(* The accounts are finitely many, and those that pay others are no payees. *)
LEMMA Accounts ==
  /\ IsFiniteSet(Account) /\ IsFiniteSet(Payee) /\ Payee \subseteq Account
  /\ IsFiniteSet(Epoch)
  /\ {User, Chunks, Bank, Board, World} \subseteq Account
  /\ {User, Chunks, Bank, Board, World} \cap Payee = {}
  /\ Bank # Chunks /\ Bank # User /\ Bank # World /\ Bank # Board
  /\ Chunks # User /\ Chunks # World /\ Chunks # Board
  /\ Producer \subseteq Payee /\ Team \in Payee
<1> DEFINE others == <<User, Chunks, Bank, Team, Board, World>>
<1>1. \A i, j \in 1..6 : others[i] = others[j] => i = j
  BY EmissionAssumption DEF IsInjective
<1>2. /\ others[1] = User /\ others[2] = Chunks /\ others[3] = Bank
      /\ others[4] = Team /\ others[5] = Board /\ others[6] = World
  OBVIOUS
<1> HIDE DEF others
<1>3. /\ Bank # Chunks /\ Bank # User /\ Bank # World /\ Bank # Board
      /\ Chunks # User /\ Chunks # World /\ Chunks # Board
      /\ Team \notin {User, Chunks, Bank, Board, World}
  BY <1>1, <1>2
<1>4. IsFiniteSet(Producer)
  BY EmissionAssumption
<1>5. IsFiniteSet({User, Chunks, Bank, Team, Board, World})
  <2>1. IsFiniteSet({User}) /\ IsFiniteSet({Chunks}) /\ IsFiniteSet({Bank})
        /\ IsFiniteSet({Team}) /\ IsFiniteSet({Board}) /\ IsFiniteSet({World})
    BY FS_Singleton
  <2>2. IsFiniteSet({User} \cup {Chunks} \cup {Bank} \cup {Team} \cup {Board}
                    \cup {World})
    BY <2>1, FS_Union
  <2>3. QED  BY <2>2
<1>6. IsFiniteSet(Account)
  BY <1>4, <1>5, FS_Union DEF Account
<1>7. IsFiniteSet(Payee)
  BY <1>4, FS_AddElement DEF Payee
<1>8. IsFiniteSet(Epoch)
  BY Constants, FS_Interval DEF Epoch
<1>9. QED  BY <1>3, <1>6, <1>7, <1>8, EmissionAssumption DEF Account, Payee

-----------------------------------------------------------------------------
(* The ledger. *)

(* No balance exceeds the supply, which is below its maximum. *)
LEMMA LedgerBounds ==
  ASSUME NEW s, Ledger(s)
  PROVE  /\ s.supply[Twig] \in 0..(MaxSupply - 1)
         /\ \A a \in Account : s.balance[a][Twig] \in 0..s.supply[Twig]
<1> DEFINE held == [a \in Account |-> s.balance[a][Twig]]
<1>1. held \in [Account -> Nat] /\ s.supply[Twig] = Total(held, Account)
  BY Constants DEF Ledger
<1>2. s.supply[Twig] \in 0..(MaxSupply - 1)
  BY Constants DEF Ledger
<1>3. ASSUME NEW a \in Account
      PROVE  s.balance[a][Twig] \in 0..s.supply[Twig]
  <2>1. held[a] <= Total(held, Account)
    BY <1>1, Accounts, TotalBound
  <2>2. held[a] = s.balance[a][Twig] /\ s.balance[a][Twig] \in Nat
    BY <1>1
  <2>3. QED  BY <1>1, <1>2, <2>1, <2>2, Constants
<1>4. QED  BY <1>2, <1>3

(* Amounts below the maximum supply are added without wrapping around. *)
LEMMA AddSmall ==
  ASSUME NEW x \in 0..AssetMax, NEW y \in (-AssetMax)..AssetMax
  PROVE  T!Add(x, y) = x + y
BY Constants DEF T!Add

(* The check of a debit is a comparison. *)
LEMMA CoversSmall ==
  ASSUME NEW x \in 0..AssetMax, NEW y \in 0..AssetMax
  PROVE  T!Covers(x, y) <=> x >= y
<1>1. T!Add(x, -y) = x - y
  BY Constants DEF T!Add
<1>2. QED  BY <1>1, Constants DEF T!Covers

(* A transfer of the token contract moves the amount, and only that. *)
LEMMA TransferEffect ==
  ASSUME Ledger(State), NEW from \in Account, NEW to \in Account, NEW n \in Nat,
         T!transfer(from, to, One(n))
  PROVE  /\ from # to /\ n > 0 /\ n <= balance[from][Twig]
         /\ balance'[from][Twig] = balance[from][Twig] - n
         /\ balance'[to][Twig] = balance[to][Twig] + n
         /\ \A a \in Account \ {from, to} : balance'[a][Twig] = balance[a][Twig]
         /\ supply' = supply /\ configured' = configured
         /\ max_supply' = max_supply
         /\ Ledger(State)'
<1>1. /\ supply \in [Symbol -> 0..(MaxSupply - 1)] /\ rows \in SUBSET Account
      /\ balance \in [Account -> [Symbol -> Nat]]
      /\ supply[Twig] = Total([a \in Account |-> balance[a][Twig]], Account)
      /\ \A a \in Account \ rows : balance[a][Twig] = 0
  BY DEF Ledger, State
<1>2. T!Listed(One(n)) # {} /\ from # to /\ from \in rows
  BY DEF T!transfer, T!CanTransfer
<1>3. Twig \in T!Listed(One(n)) /\ One(n)[Twig] = n
  BY <1>2, Constants DEF T!Listed, One
<1>4. n \in 1..AssetMax /\ T!Covers(balance[from][Twig], n)
  BY <1>3 DEF T!transfer, T!CanTransfer
<1>5. /\ balance[from][Twig] \in 0..AssetMax
      /\ balance[to][Twig] \in 0..AssetMax
  <2>1. /\ supply[Twig] \in 0..(MaxSupply - 1)
        /\ \A a \in Account : balance[a][Twig] \in 0..supply[Twig]
    BY LedgerBounds DEF State
  <2>2. QED  BY <2>1, Constants
<1>6. n <= balance[from][Twig]
  BY <1>4, <1>5, CoversSmall
<1>7. /\ T!Add(balance[from][Twig], -n) = balance[from][Twig] + (-n)
      /\ T!Add(balance[to][Twig], n) = balance[to][Twig] + n
  <2>1. -n \in (-AssetMax)..AssetMax /\ n \in (-AssetMax)..AssetMax
    BY <1>4, Constants
  <2>2. QED  BY <1>5, <2>1, AddSmall
<1>8. balance' = [balance EXCEPT
                    ![from] = [s \in Symbol |-> T!Add(balance[from][s], -One(n)[s])],
                    ![to] = [s \in Symbol |-> T!Add(balance[to][s], One(n)[s])]]
  BY DEF T!transfer
<1>9. /\ balance'[from][Twig] = balance[from][Twig] - n
      /\ balance'[to][Twig] = balance[to][Twig] + n
      /\ \A a \in Account \ {from, to} : balance'[a] = balance[a]
  BY <1>1, <1>2, <1>3, <1>5, <1>7, <1>8, Constants
<1>10. balance' \in [Account -> [Symbol -> Nat]]
  <2>1. \A s \in Symbol : /\ T!Add(balance[from][s], -One(n)[s]) \in Nat
                          /\ T!Add(balance[to][s], One(n)[s]) \in Nat
    BY <1>3, <1>4, <1>5, <1>6, <1>7, Constants
  <2>2. QED  BY <1>1, <1>8, <2>1
<1>11. /\ supply' = supply /\ rows' = rows \cup {to}
       /\ configured' = configured /\ max_supply' = max_supply
  BY DEF T!transfer
<1>12. Total([a \in Account |-> balance'[a][Twig]], Account)
         = Total([a \in Account |-> balance[a][Twig]], Account)
  <2> DEFINE held == [a \in Account |-> balance[a][Twig]]
             then == [a \in Account |-> balance'[a][Twig]]
  <2>1. held \in [Account -> Nat] /\ then \in [Account -> Nat]
    BY <1>1, <1>10, Constants
  <2>2. then[from] + then[to] = held[from] + held[to]
    BY <1>4, <1>5, <1>9
  <2>3. \A a \in Account \ {from, to} : then[a] = held[a]
    BY <1>9
  <2> HIDE DEF held, then
  <2>4. Total(then, Account) = Total(held, Account)
    BY <1>2, <2>1, <2>2, <2>3, Accounts, TotalMove
  <2>5. QED  BY <2>4 DEF held, then
<1>13. \A a \in Account \ rows' : balance'[a][Twig] = 0
  BY <1>1, <1>2, <1>9, <1>11
<1>14. Ledger(State)'
  BY <1>1, <1>10, <1>11, <1>12, <1>13 DEF Ledger, State
<1>15. QED  BY <1>2, <1>4, <1>6, <1>9, <1>11, <1>14

(* An issue of the token contract adds to the supply and to its owner. *)
LEMMA IssueEffect ==
  ASSUME Ledger(State), Tables, NEW n \in 0..AssetMax, T!issue(Chunks, One(n))
  PROVE  /\ balance'[Chunks][Twig] = balance[Chunks][Twig] + n
         /\ \A a \in Account \ {Chunks} : balance'[a][Twig] = balance[a][Twig]
         /\ supply'[Twig] = supply[Twig] + n /\ configured' = configured
         /\ max_supply' = max_supply
         /\ Ledger(State)'
<1>1. /\ supply \in [Symbol -> 0..(MaxSupply - 1)] /\ rows \in SUBSET Account
      /\ balance \in [Account -> [Symbol -> Nat]]
      /\ supply[Twig] = Total([a \in Account |-> balance[a][Twig]], Account)
      /\ \A a \in Account \ rows : balance[a][Twig] = 0
  BY DEF Ledger, State
<1>2. One(n)[Twig] = n /\ max_supply[Twig] = MaxSupply /\ Chunks \in Account
  BY Constants, Accounts DEF One, Tables
<1>3. supply[Twig] \in 0..AssetMax /\ balance[Chunks][Twig] \in 0..AssetMax
  <2>1. /\ supply[Twig] \in 0..(MaxSupply - 1)
        /\ \A a \in Account : balance[a][Twig] \in 0..supply[Twig]
    BY LedgerBounds DEF State
  <2>2. QED  BY <1>2, <2>1, Constants
<1>4. /\ T!Add(supply[Twig], n) = supply[Twig] + n
      /\ T!Add(balance[Chunks][Twig], n) = balance[Chunks][Twig] + n
  <2>1. n \in (-AssetMax)..AssetMax
    BY Constants
  <2>2. QED  BY <1>3, <2>1, AddSmall
<1>5. supply[Twig] + n \in 0..(MaxSupply - 1)
  <2>1. CASE n = 0
    BY <1>1, <2>1, Constants
  <2>2. CASE n # 0
    <3>1. Twig \in T!Listed(One(n))
      BY <1>2, <2>2, Constants DEF T!Listed
    <3>2. T!Add(supply[Twig], One(n)[Twig]) < max_supply[Twig]
      BY <3>1 DEF T!issue, T!CanIssue
    <3>3. QED  BY <1>2, <1>3, <1>4, <3>2, Constants
  <2>3. QED  BY <2>1, <2>2
<1>6. /\ supply' = [s \in Symbol |-> T!Add(supply[s], One(n)[s])]
      /\ balance' = [balance EXCEPT ![Chunks] =
                       [s \in Symbol |-> T!Add(balance[Chunks][s], One(n)[s])]]
      /\ rows' = rows \cup {Chunks}
      /\ configured' = configured /\ max_supply' = max_supply
  BY DEF T!issue
<1>7. /\ supply'[Twig] = supply[Twig] + n
      /\ balance'[Chunks][Twig] = balance[Chunks][Twig] + n
      /\ \A a \in Account \ {Chunks} : balance'[a] = balance[a]
  BY <1>1, <1>2, <1>4, <1>6, Constants
<1>8. supply' \in [Symbol -> 0..(MaxSupply - 1)]
  BY <1>2, <1>4, <1>5, <1>6, Constants
<1>9. balance' \in [Account -> [Symbol -> Nat]]
  <2>1. \A s \in Symbol : T!Add(balance[Chunks][s], One(n)[s]) \in Nat
    BY <1>2, <1>3, <1>4, Constants
  <2>2. QED  BY <1>1, <1>6, <2>1
<1>10. supply'[Twig] = Total([a \in Account |-> balance'[a][Twig]], Account)
  <2> DEFINE held == [a \in Account |-> balance[a][Twig]]
             then == [a \in Account |-> balance'[a][Twig]]
  <2>1. held \in [Account -> Nat] /\ then \in [Account -> Nat]
    BY <1>1, <1>9, Constants
  <2>2. /\ then[Chunks] = held[Chunks] + n /\ held[Chunks] \in Nat
        /\ \A a \in Account \ {Chunks} : then[a] = held[a]
    BY <1>2, <1>3, <1>7
  <2> HIDE DEF held, then
  <2>3. /\ Total(then, Account) = Total(held, Account) - held[Chunks] + then[Chunks]
        /\ Total(held, Account) \in Nat
    BY <1>2, <2>1, <2>2, Accounts, TotalChange, TotalType
  <2>4. Total(then, Account) = Total(held, Account) + n
    BY <2>2, <2>3, Constants
  <2>5. QED  BY <1>1, <1>7, <2>4 DEF held, then
<1>11. \A a \in Account \ rows' : balance'[a][Twig] = 0
  BY <1>1, <1>6, <1>7
<1>12. rows' \in SUBSET Account
  BY <1>1, <1>2, <1>6
<1>13. Ledger(State)'
  BY <1>8, <1>9, <1>10, <1>11, <1>12 DEF Ledger, State
<1>14. QED  BY <1>6, <1>7, <1>13

(* A row that opens or closes moves nothing. *)
LEMMA RowEffect ==
  ASSUME Ledger(State), T!open(Chunks) \/ T!close(Chunks)
  PROVE  /\ UNCHANGED <<configured, supply, max_supply, balance>>
         /\ Ledger(State)'
<1>1. UNCHANGED <<configured, supply, max_supply, balance>>
  BY DEF T!open, T!close
<1>2. CASE T!open(Chunks)
  BY <1>1, <1>2, Accounts DEF T!open, Ledger, State
<1>3. CASE T!close(Chunks)
  <2>1. balance[Chunks][Twig] = 0 /\ rows' = rows \ {Chunks}
    BY <1>3, Constants DEF T!close, T!CanClose, T!Nothing
  <2>2. QED  BY <1>1, <2>1 DEF Ledger, State
<1>4. QED  BY <1>1, <1>2, <1>3

-----------------------------------------------------------------------------
(* What a queue moves. *)

Amounts(S) == \A e \in S : e.act = "transfer" => e.amount \in Nat

(* The flow of a queue is the sum of a sequence of natural numbers. *)
LEMMA FlowSeq ==
  ASSUME NEW S, Amounts(S), NEW q \in Seq(S), NEW F, NEW G
  PROVE  /\ [i \in DOMAIN q |-> Moved(q[i], F, G)] \in Seq(Nat)
         /\ Flow(q, F, G) \in Nat
<1>1. \A e \in S : Moved(e, F, G) \in Nat
  BY DEF Amounts, Moved
<1>2. DOMAIN q = 1..Len(q) /\ Len(q) \in Nat /\ \A i \in 1..Len(q) : q[i] \in S
  OBVIOUS
<1>3. \A i \in 1..Len(q) : Moved(q[i], F, G) \in Nat
  BY <1>1, <1>2
<1>4. [i \in 1..Len(q) |-> Moved(q[i], F, G)] \in Seq(Nat)
  BY <1>2, <1>3, IsASeq
<1>5. QED  BY <1>2, <1>4, SumType DEF Flow

(* What two queues move, one after the other. *)
LEMMA FlowConcat ==
  ASSUME NEW S, Amounts(S), NEW q \in Seq(S), NEW r \in Seq(S), NEW F, NEW G
  PROVE  /\ Flow(q \o r, F, G) = Flow(q, F, G) + Flow(r, F, G)
         /\ q \o r \in Seq(S)
<1> DEFINE x == [i \in DOMAIN q |-> Moved(q[i], F, G)]
           y == [i \in DOMAIN r |-> Moved(r[i], F, G)]
           z == [i \in DOMAIN (q \o r) |-> Moved((q \o r)[i], F, G)]
<1>1. x \in Seq(Nat) /\ y \in Seq(Nat)
  BY FlowSeq
<1>2. /\ q \o r \in Seq(S) /\ Len(q \o r) = Len(q) + Len(r)
      /\ \A i \in 1..(Len(q) + Len(r)) :
           (q \o r)[i] = IF i <= Len(q) THEN q[i] ELSE r[i - Len(q)]
  BY ConcatProperties
<1>3. z \in Seq(Nat)
  BY <1>2, FlowSeq
<1>4. /\ DOMAIN q = 1..Len(q) /\ DOMAIN r = 1..Len(r)
      /\ Len(q) \in Nat /\ Len(r) \in Nat
      /\ DOMAIN (q \o r) = 1..(Len(q) + Len(r))
  BY <1>2
<1>5. /\ Len(x) = Len(q) /\ Len(y) = Len(r) /\ Len(z) = Len(q) + Len(r)
  BY <1>1, <1>3, <1>4
<1>6. x \o y \in Seq(Nat) /\ Len(x \o y) = Len(x) + Len(y)
      /\ \A i \in 1..(Len(x) + Len(y)) :
           (x \o y)[i] = IF i <= Len(x) THEN x[i] ELSE y[i - Len(x)]
  BY <1>1, ConcatProperties
<1>7. \A i \in 1..(Len(q) + Len(r)) : z[i] = (x \o y)[i]
  <2> SUFFICES ASSUME NEW i \in 1..(Len(q) + Len(r))
               PROVE  z[i] = (x \o y)[i]
    OBVIOUS
  <2>1. z[i] = Moved((q \o r)[i], F, G)
    BY <1>4
  <2>2. CASE i <= Len(q)
    <3>1. (q \o r)[i] = q[i] /\ i \in 1..Len(q)
      BY <1>2, <1>4, <2>2
    <3>2. (x \o y)[i] = x[i]
      BY <1>5, <1>6, <2>2
    <3>3. x[i] = Moved(q[i], F, G)
      BY <1>4, <3>1
    <3>4. QED  BY <2>1, <3>1, <3>2, <3>3
  <2>3. CASE ~(i <= Len(q))
    <3>1. (q \o r)[i] = r[i - Len(q)] /\ i - Len(q) \in 1..Len(r)
      BY <1>2, <1>4, <2>3
    <3>2. (x \o y)[i] = y[i - Len(q)]
      BY <1>5, <1>6, <2>3
    <3>3. y[i - Len(q)] = Moved(r[i - Len(q)], F, G)
      BY <1>4, <3>1
    <3>4. QED  BY <2>1, <3>1, <3>2, <3>3
  <2>4. QED  BY <2>2, <2>3
<1>8. Flow(q \o r, F, G) = Sum(z) /\ Flow(q, F, G) = Sum(x) /\ Flow(r, F, G) = Sum(y)
  BY DEF Flow
<1> HIDE DEF x, y, z
<1>9. z = x \o y
  BY <1>3, <1>5, <1>6, <1>7, SeqEqual
<1>10. Sum(x \o y) = Sum(x) + Sum(y)
  BY <1>1, SumConcat
<1>11. QED  BY <1>2, <1>8, <1>9, <1>10

(* Nothing is moved when no action moves anything. *)
LEMMA FlowZero ==
  ASSUME NEW q, NEW F, NEW G, \A i \in DOMAIN q : Moved(q[i], F, G) = 0
  PROVE  Flow(q, F, G) = 0
BY SumZero DEF Flow

(* What one action moves. *)
LEMMA FlowOne ==
  ASSUME NEW e, NEW F, NEW G, Moved(e, F, G) \in Nat
  PROVE  Flow(<<e>>, F, G) = Moved(e, F, G)
<1> DEFINE x == [i \in DOMAIN <<e>> |-> Moved(<<e>>[i], F, G)]
<1>1. DOMAIN x = {1} /\ x[1] = Moved(e, F, G)
  OBVIOUS
<1>2. Flow(<<e>>, F, G) = Total(x, DOMAIN x)
  BY DEF Flow, Sum
<1> HIDE DEF x
<1>3. Total(x, {1}) = x[1]
  BY <1>1, TotalOne
<1>4. QED  BY <1>1, <1>2, <1>3

(* What the head moves, and what the rest does. *)
LEMMA FlowTail ==
  ASSUME NEW S, Amounts(S), NEW q \in Seq(S), q # <<>>, NEW F, NEW G
  PROVE  /\ Flow(q, F, G) = Moved(Head(q), F, G) + Flow(Tail(q), F, G)
         /\ Tail(q) \in Seq(S) /\ Head(q) \in S
         /\ Moved(Head(q), F, G) \in Nat
<1>1. Tail(q) \in Seq(S) /\ Head(q) \in S /\ q = <<Head(q)>> \o Tail(q)
  OBVIOUS
<1>2. Moved(Head(q), F, G) \in Nat
  BY <1>1 DEF Amounts, Moved
<1>3. Flow(<<Head(q)>>, F, G) = Moved(Head(q), F, G)
  BY <1>2, FlowOne
<1>4. Flow(<<Head(q)>> \o Tail(q), F, G)
        = Flow(<<Head(q)>>, F, G) + Flow(Tail(q), F, G)
  <2> DEFINE h == <<Head(q)>>
             t == Tail(q)
  <2>1. h \in Seq(S) /\ t \in Seq(S)
    BY <1>1
  <2> HIDE DEF h, t
  <2>2. Flow(h \o t, F, G) = Flow(h, F, G) + Flow(t, F, G)
    BY <2>1, FlowConcat
  <2>3. QED  BY <2>2 DEF h, t
<1>5. QED  BY <1>1, <1>2, <1>3, <1>4

-----------------------------------------------------------------------------
(* The queue of a block. *)

(* What the inline actions are. *)
LEMMA Kinds ==
  /\ Amounts(Starts \cup Rest) /\ Amounts(Rest) /\ Amounts(Called)
  /\ \A e \in Starts : e.act \in {"onchunk", "onepoch", "issue"}
  /\ \A e \in Rest : e.act \in {"transfer", "callback"}
  /\ \A e \in Called : e.act = "callback" /\ \E i \in Active : e.contract = rngcalls[i].contract
  /\ \A e \in Shares : /\ e.act = "transfer" /\ e.from = Chunks
                       /\ e.to \in {Bank, Board, World} /\ e.amount \in Nat
  /\ \A e \in Payouts : /\ e.act = "transfer" /\ e.from = Bank /\ e.to \in Payee
                        /\ e.amount \in Nat \ {0}
<1>1. \A e \in Starts : e.act \in {"onchunk", "onepoch", "issue"}
  BY DEF Starts, OnChunk, OnEpoch, Issue
<1>2. \A e \in Called : e.act = "callback" /\ \E i \in Active : e.contract = rngcalls[i].contract
  BY DEF Called, Callback
<1>3. \A e \in Shares : /\ e.act = "transfer" /\ e.from = Chunks
                        /\ e.to \in {Bank, Board, World} /\ e.amount \in Nat
  BY DEF Shares, Share
<1>4. \A e \in Payouts : /\ e.act = "transfer" /\ e.from = Bank /\ e.to \in Payee
                         /\ e.amount \in Nat \ {0}
  BY DEF Payouts
<1>5. QED  BY <1>1, <1>2, <1>3, <1>4 DEF Rest, Amounts

(* The first action of a block runs first: none of them comes later. *)
LEMMA RestOfQueue ==
  ASSUME Queue, ~Quiet
  PROVE  /\ pending \in Seq(Starts \cup Rest) /\ pending # <<>>
         /\ Head(pending) \in Starts \cup Rest
         /\ Tail(pending) \in Seq(Rest)
         /\ \A i \in DOMAIN Tail(pending) :
              i + 1 \in DOMAIN pending /\ Tail(pending)[i] = pending[i + 1]
<1>1. pending \in Seq(Starts \cup Rest) /\ pending # <<>>
  BY DEF Queue, Quiet
<1>2. /\ Head(pending) \in Starts \cup Rest
      /\ Tail(pending) \in Seq(Starts \cup Rest)
      /\ Len(Tail(pending)) = Len(pending) - 1
      /\ \A i \in 1..Len(Tail(pending)) : Tail(pending)[i] = pending[i + 1]
  BY <1>1, HeadTailProperties
<1>3. /\ DOMAIN Tail(pending) = 1..Len(Tail(pending))
      /\ DOMAIN pending = 1..Len(pending)
      /\ Len(Tail(pending)) \in Nat
  BY <1>1, <1>2
<1>4. \A i \in DOMAIN Tail(pending) :
        i + 1 \in DOMAIN pending /\ Tail(pending)[i] = pending[i + 1]
  BY <1>2, <1>3
<1>5. \A i \in 1..Len(Tail(pending)) : Tail(pending)[i] \in Rest
  <2> SUFFICES ASSUME NEW i \in 1..Len(Tail(pending))
               PROVE  Tail(pending)[i] \in Rest
    OBVIOUS
  <2>1. i + 1 > 1 /\ i + 1 \in DOMAIN pending /\ Tail(pending)[i] = pending[i + 1]
    BY <1>3, <1>4
  <2>2. pending[i + 1] \notin Starts
    BY <2>1 DEF Queue
  <2>3. Tail(pending)[i] \in Starts \cup Rest
    BY <1>2
  <2>4. QED  BY <2>1, <2>2, <2>3
<1>6. Tail(pending) \in Seq(Rest)
  <2> DEFINE t == Tail(pending)
  <2>1. t \in Seq(Starts \cup Rest) /\ \A i \in 1..Len(t) : t[i] \in Rest
    BY <1>2, <1>5
  <2> HIDE DEF t
  <2>2. t = [i \in 1..Len(t) |-> t[i]] /\ Len(t) \in Nat
    BY <2>1
  <2>3. [i \in 1..Len(t) |-> t[i]] \in Seq(Rest)
    BY <2>1, <2>2, IsASeq
  <2>4. t \in Seq(Rest)
    BY <2>2, <2>3
  <2>5. QED  BY <2>4 DEF t
<1>7. QED  BY <1>1, <1>2, <1>4, <1>6

(* A queue of transfers and callbacks has no first action of a block. *)
LEMMA NoStart ==
  ASSUME NEW q \in Seq(Rest), NEW s
  PROVE  /\ ~Next0(q, "onchunk") /\ ~Next0(q, "onepoch") /\ ~Next0(q, "issue")
         /\ BooksEpoch(s, q) = s.lucky.epoch /\ ~IssueIsDue(s, q)
<1>1. q # <<>> => Head(q) \in Rest
  OBVIOUS
<1>2. /\ ~Next0(q, "onchunk") /\ ~Next0(q, "onepoch") /\ ~Next0(q, "issue")
  BY <1>1, Kinds DEF Next0
<1>3. QED  BY <1>2 DEF BooksEpoch, IssueIsDue

(* The queue of a step that leaves only transfers and callbacks. *)
LEMMA QueueOfRest ==
  ASSUME NEW q \in Seq(Rest), pending' = q, UNCHANGED <<lucky, rngcalls>>,
         balance'[Chunks][Twig] \in Nat,
         Flow(q, {Chunks}, Account) <= balance'[Chunks][Twig]
  PROVE  Queue'
<1>1. Rest' = Rest /\ Starts' = Starts /\ Called' = Called
  BY DEF Rest, Starts, Called, Active
<1>2. q \in Seq(Starts \cup Rest) /\ \A i \in DOMAIN q : q[i] \notin Starts
  <2>1. \A i \in DOMAIN q : q[i] \in Rest
    OBVIOUS
  <2>2. \A i \in DOMAIN q : q[i] \notin Starts
    BY <2>1, Kinds
  <2>3. q \in Seq(Starts \cup Rest)
    BY SeqMonotonic
  <2>4. QED  BY <2>2, <2>3
<1>3. ~Running("onchunk")' /\ ~Running("issue")'
  BY NoStart DEF Running, Quiet, Next0
<1>4. (Held(Chunks) + IF Running("issue") THEN ChunkIssue ELSE 0)'
        = balance'[Chunks][Twig]
  BY <1>3 DEF Held
<1>5. Flow(pending, {Chunks}, Account)' = Flow(q, {Chunks}, Account)
  OBVIOUS
<1>6. /\ (pending \in Seq(Starts \cup Rest))'
      /\ (\A i \in DOMAIN pending : i > 1 => pending[i] \notin Starts)'
  BY <1>1, <1>2
<1>7. QED  BY <1>3, <1>4, <1>5, <1>6 DEF Queue

(* The state before the block is not touched in the middle of it. *)
LEMMA TransactionGoesOn ==
  ASSUME Transaction, ~Quiet, NEW queue, Continue(queue),
         UNCHANGED <<installed, lucky, resets>>
  PROVE  Transaction'
<1>1. CASE queue = <<>>
  BY <1>1 DEF Transaction, Continue, Quiet
<1>2. CASE queue # <<>>
  <2>1. saved' = saved
    BY <1>2 DEF Continue
  <2>2. installed /\ lucky.producer \in Producer /\ Sound(saved, <<>>)
    BY DEF Transaction
  <2>3. Sound(saved, <<>>)'
    BY <2>1, <2>2 DEF Sound
  <2>4. QED  BY <2>2, <2>3 DEF Transaction
<1>3. QED  BY <1>1, <1>2

-----------------------------------------------------------------------------
(* The bank. *)

(* What a row owes, and what all of them do, is a natural number. *)
LEMMA DueType ==
  ASSUME NEW s, NEW q, Vault(s, q)
  PROVE  /\ IsFiniteSet(DOMAIN s.vesting)
         /\ \A p \in DOMAIN s.vesting :
              /\ Due(s.vesting[p]) \in Nat
              /\ Outstanding(s.vesting[p]) \in Nat
         /\ [p \in DOMAIN s.vesting |-> Due(s.vesting[p])]
              \in [DOMAIN s.vesting -> Nat]
         /\ RowsDue(s) \in Nat
<1>1. IsFiniteSet(DOMAIN s.vesting)
  BY Accounts, FS_Subset DEF Vault
<1>2. ASSUME NEW p \in DOMAIN s.vesting
      PROVE  Due(s.vesting[p]) \in Nat /\ Outstanding(s.vesting[p]) \in Nat
  <2>1. /\ s.vesting[p].vested \in Nat /\ s.vesting[p].unvested \in Nat
        /\ s.vesting[p].unvesting_total \in Nat
        /\ s.vesting[p].unvested <= s.vesting[p].unvesting_total
    BY Constants DEF Vault, VestingRow, Amount
  <2>2. QED  BY <2>1 DEF Due, Outstanding
<1>3. [p \in DOMAIN s.vesting |-> Due(s.vesting[p])] \in [DOMAIN s.vesting -> Nat]
  BY <1>2
<1>4. RowsDue(s) \in Nat
  BY <1>1, <1>3, TotalType DEF RowsDue
<1>5. QED  BY <1>1, <1>2, <1>3, <1>4

(* What was deposited and paid out is a natural number. *)
LEMMA HistoryType ==
  ASSUME NEW s, NEW q, Vault(s, q)
  PROVE  /\ \A p \in Payee : DepositedFor(s, p) \in Nat
         /\ [p \in Payee |-> DepositedFor(s, p)] \in [Payee -> Nat]
         /\ Deposited(s) \in Nat /\ PaidOut(s) \in Nat
<1>1. ASSUME NEW p \in Payee
      PROVE  DepositedFor(s, p) \in Nat
  <2>1. s.deposits[p] \in [Epoch -> Nat]
    BY DEF Vault
  <2>2. QED  BY <2>1, Accounts, TotalType DEF DepositedFor
<1>2. [p \in Payee |-> DepositedFor(s, p)] \in [Payee -> Nat]
  BY <1>1
<1>3. Deposited(s) \in Nat
  BY <1>2, Accounts, TotalType DEF Deposited
<1>4. PaidOut(s) \in Nat
  BY Accounts, TotalType DEF PaidOut, Vault
<1>5. QED  BY <1>1, <1>2, <1>3, <1>4

(* A step that leaves the books alone and takes no token from the bank or from *)
(* a payee keeps the bank solvent, if no payout is added to the queue.         *)
LEMMA VaultStep ==
  ASSUME NEW s, NEW t, NEW q, NEW r, Vault(s, q),
         t.vesting = s.vesting, t.deposits = s.deposits, t.paid = s.paid,
         Flow(r, {Bank}, Account) \in Nat, Flow(q, {Bank}, Account) \in Nat,
         Flow(r, {Bank}, Account) <= Flow(q, {Bank}, Account),
         \A a \in Payee \cup {Bank} :
           /\ s.balance[a][Twig] \in Nat /\ t.balance[a][Twig] \in Nat
           /\ s.balance[a][Twig] <= t.balance[a][Twig]
  PROVE  Vault(t, r)
<1>1. /\ RowsDue(t) = RowsDue(s) /\ Deposited(t) = Deposited(s)
      /\ PaidOut(t) = PaidOut(s)
  BY DEF RowsDue, Deposited, DepositedFor, PaidOut
<1>2. RowsDue(s) \in Nat /\ Deposited(s) \in Nat /\ PaidOut(s) \in Nat
  BY DueType, HistoryType
<1>3. /\ s.balance[Bank][Twig] \in Nat /\ t.balance[Bank][Twig] \in Nat
      /\ s.balance[Bank][Twig] <= t.balance[Bank][Twig]
  OBVIOUS
<1>4. /\ t.balance[Bank][Twig] >= RowsDue(t) + Flow(r, {Bank}, Account)
      /\ t.balance[Bank][Twig] + PaidOut(t) >= Deposited(t)
  <2>1. /\ s.balance[Bank][Twig] >= RowsDue(s) + Flow(q, {Bank}, Account)
        /\ s.balance[Bank][Twig] + PaidOut(s) >= Deposited(s)
    BY DEF Vault
  <2>2. QED  BY <1>1, <1>2, <1>3, <2>1
<1>5. \A p \in Payee : t.paid[p] <= t.balance[p][Twig]
  <2> SUFFICES ASSUME NEW p \in Payee
               PROVE  t.paid[p] <= t.balance[p][Twig]
    OBVIOUS
  <2>1. s.paid[p] \in Nat /\ s.paid[p] <= s.balance[p][Twig]
    BY DEF Vault
  <2>2. QED  BY <2>1
<1>6. QED  BY <1>4, <1>5 DEF Vault

(* The books are right when they do not change, and what is paid is what was *)
(* on its way.                                                             *)
LEMMA BooksMove ==
  ASSUME NEW s, NEW t, NEW q, NEW r, Books(s, q),
         t.vesting = s.vesting, t.deposits = s.deposits,
         BooksEpoch(t, r) = BooksEpoch(s, q),
         \A p \in Payee : t.paid[p] + Flow(r, {Bank}, {p})
                            = s.paid[p] + Flow(q, {Bank}, {p}),
         DOMAIN s.vesting \subseteq Payee
  PROVE  Books(t, r)
<1>1. \A p, e : Before(t, p, e) = Before(s, p, e) /\ Past(t, p, e) = Past(s, p, e)
  BY DEF Before, Past
<1> DEFINE e == BooksEpoch(s, q)
<1>2. e \in Epoch /\ BooksEpoch(t, r) = e
  BY DEF Books
<1>3. ASSUME NEW p \in DOMAIN t.vesting
      PROVE  LET row == t.vesting[p]
             IN  /\ row.epoch = e
                 /\ row.vested = t.deposits[p][e]
                 /\ row.unvesting_total = Before(t, p, e)
                 /\ t.paid[p] + Flow(r, {Bank}, {p}) = row.unvested + Past(t, p, e)
  <2>1. LET row == s.vesting[p]
        IN  /\ row.epoch = e
            /\ row.vested = s.deposits[p][e]
            /\ row.unvesting_total = Before(s, p, e)
            /\ s.paid[p] + Flow(q, {Bank}, {p}) = row.unvested + Past(s, p, e)
    BY DEF Books
  <2>2. t.paid[p] + Flow(r, {Bank}, {p}) = s.paid[p] + Flow(q, {Bank}, {p})
    OBVIOUS
  <2> HIDE DEF e
  <2>3. QED  BY <1>1, <2>1, <2>2
<1>4. ASSUME NEW p \in Payee \ DOMAIN t.vesting
      PROVE  /\ \A d \in Epoch : t.deposits[p][d] = 0
             /\ t.paid[p] + Flow(r, {Bank}, {p}) = 0
  <2>1. /\ \A d \in Epoch : s.deposits[p][d] = 0
        /\ s.paid[p] + Flow(q, {Bank}, {p}) = 0
    BY DEF Books
  <2>2. QED  BY <2>1
<1>5. \A p \in Payee, d \in Epoch : d > e => t.deposits[p][d] = 0
  BY DEF Books
<1>6. QED
  <2> HIDE DEF e
  <2>1. QED  BY <1>2, <1>3, <1>4, <1>5 DEF Books

(* They are right when neither they nor the payouts on their way change. *)
LEMMA BooksStep ==
  ASSUME NEW s, NEW t, NEW q, NEW r, Books(s, q),
         t.vesting = s.vesting, t.deposits = s.deposits, t.paid = s.paid,
         BooksEpoch(t, r) = BooksEpoch(s, q),
         \A p \in Payee : Flow(r, {Bank}, {p}) = Flow(q, {Bank}, {p}),
         DOMAIN s.vesting \subseteq Payee
  PROVE  Books(t, r)
BY BooksMove

-----------------------------------------------------------------------------
(* What every inline action may assume. *)

(* The queue of a running block, and what its first action moves. *)
LEMMA InlineFacts ==
  ASSUME IInv, ~Quiet
  PROVE  /\ Amounts(Starts \cup Rest) /\ Amounts(Rest)
         /\ pending \in Seq(Starts \cup Rest) /\ pending # <<>>
         /\ Head(pending) \in Starts \cup Rest
         /\ Tail(pending) \in Seq(Rest)
         /\ \A F, G : /\ Flow(pending, F, G)
                           = Moved(Head(pending), F, G) + Flow(Tail(pending), F, G)
                      /\ Flow(Tail(pending), F, G) \in Nat
                      /\ Flow(pending, F, G) \in Nat
                      /\ Moved(Head(pending), F, G) \in Nat
         /\ \A a \in Account : balance[a][Twig] \in Nat
<1>1. /\ pending \in Seq(Starts \cup Rest) /\ pending # <<>>
      /\ Head(pending) \in Starts \cup Rest /\ Tail(pending) \in Seq(Rest)
  BY RestOfQueue DEF IInv
<1>2. ASSUME NEW F, NEW G
      PROVE  /\ Flow(pending, F, G)
                  = Moved(Head(pending), F, G) + Flow(Tail(pending), F, G)
             /\ Flow(Tail(pending), F, G) \in Nat
             /\ Flow(pending, F, G) \in Nat
             /\ Moved(Head(pending), F, G) \in Nat
  <2> DEFINE S == Starts \cup Rest
             q == pending
             r == Tail(pending)
  <2>1. Amounts(S) /\ Amounts(Rest) /\ q \in Seq(S) /\ r \in Seq(Rest) /\ q # <<>>
    BY <1>1, Kinds
  <2> HIDE DEF S, q, r
  <2>2. Flow(q, F, G) \in Nat /\ Flow(r, F, G) \in Nat
    BY <2>1, FlowSeq
  <2>3. /\ Flow(q, F, G) = Moved(Head(q), F, G) + Flow(Tail(q), F, G)
        /\ Moved(Head(q), F, G) \in Nat
    BY <2>1, FlowTail
  <2>4. QED  BY <2>2, <2>3 DEF q, r
<1>3. \A a \in Account : balance[a][Twig] \in Nat
  BY Constants DEF IInv, Sound, Ledger, State
<1>4. QED  BY <1>1, <1>2, <1>3, Kinds

(* The tables that no inline action writes. *)
LEMMA TablesSame ==
  ASSUME Tables, UNCHANGED <<configured, max_supply, installed, contracts, gifts,
                             resets>>
  PROVE  Tables'
BY DEF Tables, contracts

(* What is to be shown of an inline action that leaves only transfers and *)
(* callbacks behind.                                                      *)
LEMMA RestStep ==
  ASSUME IInv, ~Quiet, NEW r \in Seq(Rest), Continue(r),
         UNCHANGED <<configured, max_supply, installed, contracts, lucky, gifts,
                     resets>>,
         Ledger(State'), Vault(State', r),
         resets = 0 => Books(State', r) /\ Issued(State', r),
         Flow(r, {Chunks}, Account) <= balance'[Chunks][Twig]
  PROVE  IInv'
<1>1. pending' = r /\ resets' = resets /\ rngcalls' = rngcalls
  BY DEF Continue, contracts
<1>2. Lottery(State)'
  BY DEF IInv, Sound, Lottery, State
<1>3. Sound(State, pending)'
  BY <1>1, <1>2 DEF Sound
<1>4. Tables'
  BY TablesSame DEF IInv
<1>5. Transaction'
  BY TransactionGoesOn DEF IInv
<1>6. balance'[Chunks][Twig] \in Nat
  BY Accounts, Constants DEF Ledger, State
<1>7. Queue'
  BY <1>1, <1>6, QueueOfRest
<1>8. QED  BY <1>3, <1>4, <1>5, <1>7 DEF IInv

(* A contract that is called back. *)
LEMMA CallbackInv ==
  ASSUME IInv, callback
  PROVE  IInv'
<1> DEFINE r == Tail(pending)
<1>1. ~Quiet /\ Head(pending).act = "callback" /\ Continue(r)
  BY DEF callback, Running
<1>2. UNCHANGED <<ledger, installed, contracts, lucky, vesting, deposits, paid,
                  gifts, resets>>
  BY DEF callback
<1>3. State' = State
  BY <1>2 DEF State, ledger
<1>4. r \in Seq(Rest) /\ pending # <<>> /\ \A a \in Account : balance[a][Twig] \in Nat
  BY <1>1, InlineFacts
<1>5. \A F, G : /\ Flow(r, F, G) = Flow(pending, F, G)
                /\ Flow(r, F, G) \in Nat
  <2> SUFFICES ASSUME NEW F, NEW G
               PROVE  Flow(r, F, G) = Flow(pending, F, G) /\ Flow(r, F, G) \in Nat
    OBVIOUS
  <2>1. Moved(Head(pending), F, G) = 0
    BY <1>1 DEF Moved
  <2>2. /\ Flow(pending, F, G) = Moved(Head(pending), F, G) + Flow(r, F, G)
        /\ Flow(r, F, G) \in Nat
    BY <1>1, InlineFacts
  <2>3. QED  BY <2>1, <2>2
<1> HIDE DEF r
<1>6. \A act \in {"onchunk", "onepoch", "issue"} : ~Next0(pending, act) /\ ~Next0(r, act)
  BY <1>1, <1>4, NoStart DEF Next0
<1>7. Vault(State, r)
  <2>1. Vault(State, pending)
    BY DEF IInv, Sound
  <2>2. \A a \in Payee \cup {Bank} : State.balance[a][Twig] \in Nat
    BY <1>4, Accounts DEF State
  <2>3. \A a \in Payee \cup {Bank} : State.balance[a][Twig] <= State.balance[a][Twig]
    BY <2>2
  <2>4. /\ Flow(r, {Bank}, Account) = Flow(pending, {Bank}, Account)
        /\ Flow(r, {Bank}, Account) \in Nat
    BY <1>5
  <2>5. QED  BY <2>1, <2>2, <2>3, <2>4, VaultStep
<1>8. ASSUME resets = 0
      PROVE  Books(State, r) /\ Issued(State, r)
  <2>1. Books(State, pending) /\ Issued(State, pending) /\ Vault(State, pending)
    BY <1>8 DEF IInv, Sound
  <2>2. BooksEpoch(State, r) = BooksEpoch(State, pending)
    BY <1>6 DEF BooksEpoch
  <2>3. DOMAIN State.vesting \subseteq Payee
    BY <2>1 DEF Vault
  <2>4. Books(State, r)
    BY <1>5, <2>1, <2>2, <2>3, BooksStep
  <2>5. Issued(State, r)
    BY <1>6, <2>1 DEF Issued, IssueIsDue
  <2>6. QED  BY <2>4, <2>5
<1>9. Flow(r, {Chunks}, Account) <= balance'[Chunks][Twig]
  <2>1. ~Running("issue")
    BY <1>1 DEF Running
  <2>2. Flow(pending, {Chunks}, Account) <= balance[Chunks][Twig] + 0
    BY <2>1 DEF IInv, Queue, Held
  <2>3. balance' = balance /\ balance[Chunks][Twig] \in Nat
    BY <1>2, <1>4, Accounts DEF ledger
  <2>4. QED  BY <1>5, <2>2, <2>3
<1>10. Ledger(State)
  BY DEF IInv, Sound
<1>11. QED
  BY <1>1, <1>2, <1>3, <1>4, <1>7, <1>8, <1>9, <1>10, RestStep DEF ledger

-----------------------------------------------------------------------------
(* The chunk and its shares. *)

(* Integer division. *)
LEMMA Quotient ==
  ASSUME NEW a \in Nat, NEW b \in Nat \ {0}
  PROVE  /\ a \div b \in 0..a /\ (a \div b) * b <= a
         /\ a <= b => a \div b = IF a = b THEN 1 ELSE 0
OBVIOUS

(* A chunk is an amount of the token. *)
LEMMA ChunkType == ChunkIssue \in 0..MaxSupply
<1>1. ChunksPerEpoch * EmissionEpochs \in Nat \ {0}
  BY Constants
<1>2. QED  BY <1>1, Quotient, Constants DEF ChunkIssue

(* The shares are rounded down, so that they never exceed what is shared. *)
LEMMA SharesFit ==
  ASSUME NEW n \in Nat
  PROVE  /\ WorldShare(n) \in Nat /\ TeamShare(n) \in Nat
         /\ BoardShare(n) \in Nat /\ ProducerShare(n) \in Nat
         /\ TeamShare(n) + BoardShare(n) + ProducerShare(n) + WorldShare(n) <= n
BY DEF WorldShare, TeamShare, BoardShare, ProducerShare

(* The chunk is issued: what onchunk has announced is there. *)
LEMMA IssueInv ==
  ASSUME IInv, issue
  PROVE  IInv'
<1> DEFINE r == Tail(pending)
           n == Head(pending).amount
<1>1. /\ ~Quiet /\ Head(pending).act = "issue" /\ Continue(r)
      /\ T!issue(Chunks, One(n))
      /\ UNCHANGED <<installed, contracts, lucky, vesting, deposits, paid, gifts, resets>>
  BY DEF issue, Running
<1>2. n = ChunkIssue
  <2>1. Head(pending) \in Starts
    BY <1>1, InlineFacts, Kinds
  <2>2. QED  BY <1>1, <2>1 DEF Starts, OnChunk, OnEpoch, Issue
<1>3. n \in 0..AssetMax
  BY <1>2, ChunkType, Constants
<1>4. /\ balance'[Chunks][Twig] = balance[Chunks][Twig] + n
      /\ \A a \in Account \ {Chunks} : balance'[a][Twig] = balance[a][Twig]
      /\ supply'[Twig] = supply[Twig] + n /\ configured' = configured
      /\ max_supply' = max_supply
      /\ Ledger(State)'
  <2> HIDE DEF n
  <2>1. Ledger(State) /\ Tables /\ T!issue(Chunks, One(n))
    BY <1>1 DEF IInv, Sound
  <2>2. QED  BY <1>3, <2>1, IssueEffect
<1>5. r \in Seq(Rest) /\ pending # <<>> /\ \A a \in Account : balance[a][Twig] \in Nat
  BY <1>1, InlineFacts
<1>6. \A F, G : /\ Flow(r, F, G) = Flow(pending, F, G)
                /\ Flow(r, F, G) \in Nat
  <2> SUFFICES ASSUME NEW F, NEW G
               PROVE  Flow(r, F, G) = Flow(pending, F, G) /\ Flow(r, F, G) \in Nat
    OBVIOUS
  <2>1. Moved(Head(pending), F, G) = 0
    BY <1>1 DEF Moved
  <2>2. /\ Flow(pending, F, G) = Moved(Head(pending), F, G) + Flow(r, F, G)
        /\ Flow(r, F, G) \in Nat
    BY <1>1, InlineFacts
  <2>3. QED  BY <2>1, <2>2
<1> HIDE DEF r, n
<1>7. Vault(State', r)
  <2>1. Vault(State, pending)
    BY DEF IInv, Sound
  <2>2. \A a \in Payee \cup {Bank} : /\ State.balance[a][Twig] \in Nat
                                     /\ State'.balance[a][Twig] \in Nat
                                     /\ State.balance[a][Twig] <= State'.balance[a][Twig]
    <3> SUFFICES ASSUME NEW a \in Payee \cup {Bank}
                 PROVE  /\ balance[a][Twig] \in Nat /\ balance'[a][Twig] \in Nat
                        /\ balance[a][Twig] <= balance'[a][Twig]
      BY DEF State
    <3>1. a \in Account /\ a # Chunks
      BY Accounts
    <3>2. balance[a][Twig] \in Nat /\ balance'[a][Twig] = balance[a][Twig]
      BY <1>4, <1>5, <3>1
    <3>3. QED  BY <3>2
  <2>3. /\ Flow(r, {Bank}, Account) = Flow(pending, {Bank}, Account)
        /\ Flow(r, {Bank}, Account) \in Nat
    BY <1>6
  <2>4. /\ State'.vesting = State.vesting /\ State'.deposits = State.deposits
        /\ State'.paid = State.paid
    BY <1>1 DEF State
  <2> DEFINE t == State'
  <2> HIDE DEF t
  <2>5. Vault(t, r)
    BY <2>1, <2>2, <2>3, <2>4, VaultStep DEF t
  <2>6. QED  BY <2>5 DEF t
<1>8. ASSUME resets = 0
      PROVE  Books(State', r) /\ Issued(State', r)
  <2>1. Books(State, pending) /\ Issued(State, pending) /\ Vault(State, pending)
    BY <1>8 DEF IInv, Sound
  <2>2. ~Next0(pending, "onepoch") /\ State'.lucky = State.lucky
    BY <1>1 DEF Next0, State
  <2>3. /\ BooksEpoch(State', r) = BooksEpoch(State, pending)
        /\ ~IssueIsDue(State', r)
    <3>1. BooksEpoch(State', r) = State'.lucky.epoch /\ ~IssueIsDue(State', r)
      BY <1>5, NoStart
    <3>2. QED  BY <2>2, <3>1 DEF BooksEpoch
  <2>4. DOMAIN State.vesting \subseteq Payee
    BY <2>1 DEF Vault
  <2>5. /\ State'.vesting = State.vesting /\ State'.deposits = State.deposits
        /\ State'.paid = State.paid
    BY <1>1 DEF State
  <2>6. Books(State', r)
    <3> DEFINE t == State'
    <3> HIDE DEF t
    <3>1. Books(t, r)
      BY <1>6, <2>1, <2>3, <2>4, <2>5, BooksStep DEF t
    <3>2. QED  BY <3>1 DEF t
  <2>7. IssueIsDue(State, pending)
    BY <1>1, <1>5 DEF IssueIsDue, Next0
  <2>8. State'.supply[Twig] = State.supply[Twig] + ChunkIssue
    BY <1>2, <1>4 DEF State
  <2>9. State.supply[Twig] \in Nat /\ ChunkIssue \in Nat
    BY LedgerBounds, ChunkType, Constants DEF IInv, Sound
  <2>10. State'.supply[Twig] + 0 = InitialSupply + ChunkIssue * Cardinality(FoundBy(State.lucky))
    BY <2>1, <2>7, <2>8, <2>9 DEF Issued
  <2>11. Issued(State', r)
    BY <2>2, <2>3, <2>10 DEF Issued
  <2>12. QED  BY <2>6, <2>11
<1>9. Flow(r, {Chunks}, Account) <= balance'[Chunks][Twig]
  <2>1. Running("issue")
    BY <1>1 DEF Running
  <2>2. Flow(pending, {Chunks}, Account) <= balance[Chunks][Twig] + ChunkIssue
    BY <2>1 DEF IInv, Queue, Held
  <2>3. QED  BY <1>2, <1>4, <1>6, <2>2
<1>10. Ledger(State')
  BY <1>4
<1>11. QED
  BY <1>1, <1>4, <1>5, <1>7, <1>8, <1>9, <1>10, RestStep

-----------------------------------------------------------------------------
(* Transfers. *)

(* A share of the chunk that is not sent to the bank. *)
LEMMA ShareInv ==
  ASSUME IInv, transfer, Head(pending) \in Shares
  PROVE  IInv'
<1> DEFINE r == Tail(pending)
           from == Head(pending).from
           to == Head(pending).to
           n == Head(pending).amount
<1>1. /\ ~Quiet /\ Head(pending).act = "transfer" /\ Continue(r)
      /\ ~IsDeposit(Head(pending))
      /\ T!transfer(from, to, One(n))
      /\ UNCHANGED <<installed, contracts, lucky, vesting, deposits, gifts, resets>>
  BY DEF transfer, Running
<1>2. from = Chunks /\ to \in {Board, World} /\ n \in Nat
  BY <1>1, Kinds DEF IsDeposit
<1>3. paid' = paid /\ Chunks # Bank
  BY <1>2, Accounts DEF transfer
<1>4. /\ n <= balance[Chunks][Twig]
      /\ balance'[Chunks][Twig] = balance[Chunks][Twig] - n
      /\ \A a \in Account \ {Chunks, Board, World} : balance'[a][Twig] = balance[a][Twig]
      /\ supply' = supply /\ configured' = configured
      /\ max_supply' = max_supply
      /\ Ledger(State)'
  <2> HIDE DEF n, from, to
  <2>1. Ledger(State) /\ from \in Account /\ to \in Account
    BY <1>2, Accounts DEF IInv, Sound
  <2>2. /\ n <= balance[from][Twig]
        /\ balance'[from][Twig] = balance[from][Twig] - n
        /\ \A a \in Account \ {from, to} : balance'[a][Twig] = balance[a][Twig]
        /\ supply' = supply /\ configured' = configured
        /\ max_supply' = max_supply
        /\ Ledger(State)'
    BY <1>1, <1>2, <2>1, TransferEffect
  <2>3. QED  BY <1>2, <2>2
<1>5. r \in Seq(Rest) /\ pending # <<>> /\ \A a \in Account : balance[a][Twig] \in Nat
  BY <1>1, InlineFacts
<1>6. \A F, G : /\ Flow(pending, F, G) = Moved(Head(pending), F, G) + Flow(r, F, G)
                /\ Flow(r, F, G) \in Nat /\ Flow(pending, F, G) \in Nat
  BY <1>1, InlineFacts
<1>7. \A G : Flow(r, {Bank}, G) = Flow(pending, {Bank}, G)
  <2>1. \A G : Moved(Head(pending), {Bank}, G) = 0
    BY <1>2, <1>3 DEF Moved
  <2>2. QED  BY <1>6, <2>1
<1>8. Moved(Head(pending), {Chunks}, Account) = n
  BY <1>1, <1>2, Accounts DEF Moved
<1> HIDE DEF r, n, from, to
<1>9. Vault(State', r)
  <2>1. Vault(State, pending)
    BY DEF IInv, Sound
  <2>2. \A a \in Payee \cup {Bank} : /\ State.balance[a][Twig] \in Nat
                                     /\ State'.balance[a][Twig] \in Nat
                                     /\ State.balance[a][Twig] <= State'.balance[a][Twig]
    <3> SUFFICES ASSUME NEW a \in Payee \cup {Bank}
                 PROVE  /\ balance[a][Twig] \in Nat /\ balance'[a][Twig] \in Nat
                        /\ balance[a][Twig] <= balance'[a][Twig]
      BY DEF State
    <3>1. a \in Account \ {Chunks, Board, World}
      BY Accounts
    <3>2. balance[a][Twig] \in Nat /\ balance'[a][Twig] = balance[a][Twig]
      BY <1>4, <1>5, <3>1
    <3>3. QED  BY <3>2
  <2>3. /\ Flow(r, {Bank}, Account) = Flow(pending, {Bank}, Account)
        /\ Flow(r, {Bank}, Account) \in Nat
    BY <1>6, <1>7
  <2>4. /\ State'.vesting = State.vesting /\ State'.deposits = State.deposits
        /\ State'.paid = State.paid
    BY <1>1, <1>3 DEF State
  <2> DEFINE t == State'
  <2> HIDE DEF t
  <2>5. Vault(t, r)
    BY <2>1, <2>2, <2>3, <2>4, VaultStep DEF t
  <2>6. QED  BY <2>5 DEF t
<1>10. ASSUME resets = 0
       PROVE  Books(State', r) /\ Issued(State', r)
  <2>1. Books(State, pending) /\ Issued(State, pending) /\ Vault(State, pending)
    BY <1>10 DEF IInv, Sound
  <2>2. /\ ~Next0(pending, "onepoch") /\ ~Next0(pending, "onchunk")
        /\ ~Next0(pending, "issue")
        /\ State'.lucky = State.lucky /\ State'.supply = State.supply
    BY <1>1, <1>4 DEF Next0, State
  <2>3. BooksEpoch(State', r) = State'.lucky.epoch /\ ~IssueIsDue(State', r)
    BY <1>5, NoStart
  <2>4. BooksEpoch(State, pending) = BooksEpoch(State', r) /\ ~IssueIsDue(State, pending)
    BY <2>2, <2>3 DEF BooksEpoch, IssueIsDue
  <2>5. DOMAIN State.vesting \subseteq Payee
    BY <2>1 DEF Vault
  <2>6. /\ State'.vesting = State.vesting /\ State'.deposits = State.deposits
        /\ State'.paid = State.paid
    BY <1>1, <1>3 DEF State
  <2>7. Books(State', r)
    <3> DEFINE t == State'
    <3> HIDE DEF t
    <3>1. Books(t, r)
      BY <1>7, <2>1, <2>4, <2>5, <2>6, BooksStep DEF t
    <3>2. QED  BY <3>1 DEF t
  <2>8. Issued(State', r)
    BY <2>1, <2>2, <2>3, <2>4 DEF Issued
  <2>9. QED  BY <2>7, <2>8
<1>11. Flow(r, {Chunks}, Account) <= balance'[Chunks][Twig]
  <2>1. ~Running("issue")
    BY <1>1 DEF Running
  <2>2. Flow(pending, {Chunks}, Account) <= balance[Chunks][Twig] + 0
    BY <2>1 DEF IInv, Queue, Held
  <2>3. balance[Chunks][Twig] \in Nat
    BY <1>5, Accounts
  <2>4. QED  BY <1>2, <1>4, <1>6, <1>8, <2>2, <2>3
<1>12. Ledger(State')
  BY <1>4
<1>13. QED
  BY <1>1, <1>4, <1>5, <1>9, <1>10, <1>11, <1>12, RestStep

(* A payout of the bank: what was on its way arrives. *)
LEMMA PayoutInv ==
  ASSUME IInv, transfer, Head(pending) \in Payouts
  PROVE  IInv'
<1> DEFINE r == Tail(pending)
           from == Head(pending).from
           to == Head(pending).to
           n == Head(pending).amount
<1>1. /\ ~Quiet /\ Head(pending).act = "transfer" /\ Continue(r)
      /\ T!transfer(from, to, One(n))
      /\ UNCHANGED <<installed, contracts, lucky, vesting, deposits, gifts, resets>>
  BY DEF transfer, Running
<1>2. from = Bank /\ to \in Payee /\ n \in Nat
  BY <1>1, Kinds
<1>3. paid' = [paid EXCEPT ![to] = @ + n] /\ Chunks # Bank
  BY <1>2, Accounts DEF transfer
<1>4. /\ n <= balance[Bank][Twig]
      /\ balance'[Bank][Twig] = balance[Bank][Twig] - n
      /\ balance'[to][Twig] = balance[to][Twig] + n
      /\ \A a \in Account \ {Bank, to} : balance'[a][Twig] = balance[a][Twig]
      /\ supply' = supply /\ configured' = configured
      /\ max_supply' = max_supply
      /\ Ledger(State)'
  <2> HIDE DEF n, from, to
  <2>1. Ledger(State) /\ from \in Account /\ to \in Account
    BY <1>2, Accounts DEF IInv, Sound
  <2>2. /\ n <= balance[from][Twig]
        /\ balance'[from][Twig] = balance[from][Twig] - n
        /\ balance'[to][Twig] = balance[to][Twig] + n
        /\ \A a \in Account \ {from, to} : balance'[a][Twig] = balance[a][Twig]
        /\ supply' = supply /\ configured' = configured
        /\ max_supply' = max_supply
        /\ Ledger(State)'
    BY <1>1, <1>2, <2>1, TransferEffect
  <2>3. QED  BY <1>2, <2>2
<1>5. r \in Seq(Rest) /\ pending # <<>> /\ \A a \in Account : balance[a][Twig] \in Nat
  BY <1>1, InlineFacts
<1>6. \A F, G : /\ Flow(pending, F, G) = Moved(Head(pending), F, G) + Flow(r, F, G)
                /\ Flow(r, F, G) \in Nat /\ Flow(pending, F, G) \in Nat
  BY <1>1, InlineFacts
<1>7. /\ Moved(Head(pending), {Chunks}, Account) = 0
      /\ Moved(Head(pending), {Bank}, Account) = n
      /\ Moved(Head(pending), {Bank}, {to}) = n
      /\ \A p \in Payee \ {to} : Moved(Head(pending), {Bank}, {p}) = 0
  BY <1>1, <1>2, <1>3, Accounts DEF Moved
<1>8. /\ Vault(State, pending) /\ paid \in [Payee -> Nat]
      /\ resets = 0 => Books(State, pending) /\ Issued(State, pending)
  BY DEF IInv, Sound, Vault, State
<1>9. Flow(r, {Chunks}, Account) <= balance'[Chunks][Twig]
  <2>1. ~Running("issue")
    BY <1>1 DEF Running
  <2>2. Flow(pending, {Chunks}, Account) <= balance[Chunks][Twig] + 0
    BY <2>1 DEF IInv, Queue, Held
  <2>3. Chunks \in Account /\ Chunks \notin Payee
    BY Accounts
  <2>4. balance[Chunks][Twig] \in Nat /\ balance'[Chunks][Twig] = balance[Chunks][Twig]
    BY <1>2, <1>3, <1>4, <1>5, <2>3
  <2>5. /\ Flow(pending, {Chunks}, Account)
             = Moved(Head(pending), {Chunks}, Account) + Flow(r, {Chunks}, Account)
        /\ Flow(r, {Chunks}, Account) \in Nat
    BY <1>6
  <2>6. Moved(Head(pending), {Chunks}, Account) = 0
    BY <1>7
  <2> HIDE DEF r, n, from, to
  <2>7. Flow(r, {Chunks}, Account) = Flow(pending, {Chunks}, Account)
    BY <2>5, <2>6
  <2>8. QED  BY <2>2, <2>4, <2>5, <2>7
<1> HIDE DEF r, n, from, to
<1>10. /\ paid' \in [Payee -> Nat] /\ paid'[to] = paid[to] + n
       /\ \A p \in Payee \ {to} : paid'[p] = paid[p]
  BY <1>2, <1>3, <1>8
<1>11. /\ State'.vesting = State.vesting /\ State'.deposits = State.deposits
       /\ State'.lucky = State.lucky /\ State'.supply = State.supply
       /\ State.paid = paid /\ State'.paid = paid'
       /\ State.balance = balance /\ State'.balance = balance'
  BY <1>1, <1>4 DEF State
<1>12. PaidOut(State') = PaidOut(State) + n
  <2>1. Total(paid', Payee) = Total(paid, Payee) - paid[to] + paid'[to]
    BY <1>2, <1>8, <1>10, Accounts, TotalChange
  <2>2. Total(paid, Payee) \in Nat /\ paid[to] \in Nat
    BY <1>2, <1>8, Accounts, TotalType
  <2>3. Total(paid', Payee) = Total(paid, Payee) + n
    BY <1>2, <1>10, <2>1, <2>2
  <2>4. PaidOut(State') = Total(paid', Payee) /\ PaidOut(State) = Total(paid, Payee)
    BY DEF PaidOut, State
  <2>5. QED  BY <2>3, <2>4
<1>13. Vault(State', r)
  <2> DEFINE s == State
             t == State'
  <2>1. Vault(s, pending)
    BY <1>8
  <2>2. /\ t.vesting = s.vesting /\ t.deposits = s.deposits
        /\ t.paid = paid' /\ t.balance = balance' /\ s.balance = balance
        /\ PaidOut(t) = PaidOut(s) + n /\ s.paid = paid
    BY <1>11, <1>12
  <2> HIDE DEF s, t
  <2>3. /\ RowsDue(t) = RowsDue(s) /\ Deposited(t) = Deposited(s)
    BY <2>2 DEF RowsDue, Deposited, DepositedFor
  <2>4. RowsDue(s) \in Nat /\ Deposited(s) \in Nat /\ PaidOut(s) \in Nat
    BY <2>1, DueType, HistoryType
  <2>5. balance[Bank][Twig] \in Nat
    BY <1>5, Accounts
  <2>6. /\ balance[Bank][Twig] >= RowsDue(s) + Flow(pending, {Bank}, Account)
        /\ balance[Bank][Twig] + PaidOut(s) >= Deposited(s)
    BY <2>1, <2>2 DEF Vault
  <2>7. Flow(pending, {Bank}, Account) = n + Flow(r, {Bank}, Account)
    BY <1>6, <1>7
  <2>8. balance'[Bank][Twig] >= RowsDue(t) + Flow(r, {Bank}, Account)
    BY <1>2, <1>4, <1>6, <2>3, <2>4, <2>5, <2>6, <2>7
  <2>9. balance'[Bank][Twig] + PaidOut(t) >= Deposited(t)
    BY <1>2, <1>4, <2>2, <2>3, <2>4, <2>5, <2>6
  <2>10. ASSUME NEW p \in Payee
         PROVE  paid'[p] <= balance'[p][Twig]
    <3>1. p \in Account /\ p # Bank /\ paid[p] \in Nat /\ paid[p] <= balance[p][Twig]
      BY <1>8, <2>1, <2>2, Accounts DEF Vault
    <3>2. balance[p][Twig] \in Nat
      BY <1>5, <3>1
    <3>3. CASE p = to
      BY <1>2, <1>4, <1>10, <3>1, <3>2, <3>3
    <3>4. CASE p # to
      BY <1>4, <1>10, <3>1, <3>4
    <3>5. QED  BY <3>3, <3>4
  <2>11. Vault(t, r)
    BY <1>10, <2>1, <2>2, <2>8, <2>9, <2>10 DEF Vault
  <2>12. QED  BY <2>11 DEF t
<1>14. ASSUME resets = 0
       PROVE  Books(State', r) /\ Issued(State', r)
  <2>1. Books(State, pending) /\ Issued(State, pending)
    BY <1>8, <1>14
  <2>2. /\ ~Next0(pending, "onepoch") /\ ~Next0(pending, "onchunk")
        /\ ~Next0(pending, "issue")
    BY <1>1 DEF Next0
  <2>3. BooksEpoch(State', r) = State'.lucky.epoch /\ ~IssueIsDue(State', r)
    BY <1>5, NoStart
  <2>4. BooksEpoch(State', r) = BooksEpoch(State, pending) /\ ~IssueIsDue(State, pending)
    BY <1>11, <2>2, <2>3 DEF BooksEpoch, IssueIsDue
  <2>5. DOMAIN State.vesting \subseteq Payee
    BY <1>8 DEF Vault
  <2>6. \A p \in Payee : paid'[p] + Flow(r, {Bank}, {p})
                           = paid[p] + Flow(pending, {Bank}, {p})
    <3> SUFFICES ASSUME NEW p \in Payee
                 PROVE  paid'[p] + Flow(r, {Bank}, {p})
                          = paid[p] + Flow(pending, {Bank}, {p})
      OBVIOUS
    <3>1. /\ Flow(pending, {Bank}, {p}) = Moved(Head(pending), {Bank}, {p}) + Flow(r, {Bank}, {p})
          /\ Flow(r, {Bank}, {p}) \in Nat /\ paid[p] \in Nat
      BY <1>6, <1>8
    <3>2. CASE p = to
      BY <1>2, <1>7, <1>10, <3>1, <3>2
    <3>3. CASE p # to
      BY <1>7, <1>10, <3>1, <3>3
    <3>4. QED  BY <3>2, <3>3
  <2>7. Books(State', r)
    <3> DEFINE s == State
               t == State'
    <3>1. /\ t.vesting = s.vesting /\ t.deposits = s.deposits
          /\ t.paid = paid' /\ s.paid = paid /\ Books(s, pending)
          /\ BooksEpoch(t, r) = BooksEpoch(s, pending)
          /\ DOMAIN s.vesting \subseteq Payee
      BY <1>11, <2>1, <2>4, <2>5
    <3> HIDE DEF s, t
    <3>2. Books(t, r)
      BY <2>6, <3>1, BooksMove
    <3>3. QED  BY <3>2 DEF t
  <2>8. Issued(State', r)
    BY <1>11, <2>1, <2>3, <2>4 DEF Issued
  <2>9. QED  BY <2>7, <2>8
<1>15. Ledger(State')
  BY <1>4
<1>16. QED
  BY <1>1, <1>4, <1>5, <1>9, <1>13, <1>14, <1>15, RestStep

(* A transfer that the bank is not told of. *)
LEMMA TransferInv ==
  ASSUME IInv, transfer
  PROVE  IInv'
<1>1. ~Quiet /\ Head(pending).act = "transfer"
  BY DEF transfer, Running
<1>2. Head(pending) \in Starts \cup Rest
  BY <1>1, InlineFacts
<1>3. Head(pending) \in Shares \cup Payouts
  BY <1>1, <1>2, Kinds DEF Rest
<1>4. QED  BY <1>3, ShareInv, PayoutInv

-----------------------------------------------------------------------------
(* Deposits. *)

(* A deposit releases all that is outstanding in a row, or nothing. *)
LEMMA ReleaseBound ==
  ASSUME NEW row \in VestingRow, row.unvested <= row.unvesting_total,
         lucky.chunks \in 0..ChunksPerEpoch
  PROVE  /\ Release(row) \in Nat /\ Outstanding(row) \in Nat
         /\ Release(row) <= Outstanding(row)
<1> DEFINE a == row.unvesting_total
           b == row.unvested
           c == lucky.chunks \div ChunksPerEpoch
           d == b \div a
<1>1. a \in Nat /\ b \in Nat /\ b <= a
  BY Constants DEF VestingRow, Amount
<1>2. Outstanding(row) = a - b
  BY DEF Outstanding
<1>3. c \in {0, 1}
  BY Quotient, Constants
<1>4. CASE a > 0 /\ (1 - d) - c > 0
  <2>1. d \in {0, 1}
    BY <1>1, <1>4, Quotient
  <2>2. (1 - d) - c = 1
    BY <1>3, <1>4, <2>1
  <2>3. Release(row) = Min({((1 - d) - c) * a, a - b})
    BY <1>4 DEF Release
  <2> HIDE DEF a, b, c, d
  <2>4. ((1 - d) - c) * a = a
    BY <1>1, <2>2
  <2>5. Min({a, a - b}) = a - b
    BY <1>1 DEF Min
  <2>6. Release(row) = a - b
    BY <2>3, <2>4, <2>5
  <2>7. QED  BY <1>1, <1>2, <2>6
<1>5. CASE ~(a > 0 /\ (1 - d) - c > 0)
  <2>1. Release(row) = 0
    BY <1>5 DEF Release
  <2>2. QED  BY <1>1, <1>2, <2>1
<1>6. QED  BY <1>4, <1>5

\* The queue r after a payout to p, unless there is nothing to pay.
WithPayout(p, n, r) == (IF n > 0 THEN <<Payout(p, n)>> ELSE <<>>) \o r

(* A payout is put before the rest of the queue. *)
LEMMA PayoutFirst ==
  ASSUME NEW r \in Seq(Rest), NEW p \in Payee, NEW n \in Nat
  PROVE  LET q == WithPayout(p, n, r)
         IN  /\ q \in Seq(Rest)
             /\ \A G : Flow(q, {Chunks}, G) = Flow(r, {Chunks}, G)
             /\ Flow(q, {Bank}, Account) = n + Flow(r, {Bank}, Account)
             /\ Flow(q, {Bank}, {p}) = n + Flow(r, {Bank}, {p})
             /\ \A x \in Payee \ {p} : Flow(q, {Bank}, {x}) = Flow(r, {Bank}, {x})
<1> DEFINE q == WithPayout(p, n, r)
           S == Rest
           e == Payout(p, n)
           h == <<e>>
<1>1. Amounts(S) /\ r \in Seq(S) /\ \A F, G : Flow(r, F, G) \in Nat
  BY Kinds, FlowSeq
<1>2. CASE n = 0
  <2>1. q = r
    BY <1>2 DEF WithPayout
  <2>2. Flow(r, {Bank}, Account) \in Nat /\ Flow(r, {Bank}, {p}) \in Nat
    BY <1>1
  <2>3. /\ n + Flow(r, {Bank}, Account) = Flow(r, {Bank}, Account)
        /\ n + Flow(r, {Bank}, {p}) = Flow(r, {Bank}, {p})
    BY <1>2, <2>2
  <2>4. QED  BY ONLY <2>1, <2>3, r \in Seq(Rest)
<1>3. CASE n > 0
  <2>1. e \in S /\ h \in Seq(S) /\ q = h \o r
    BY <1>3 DEF WithPayout, Payout, Transfer, Rest, Payouts
  <2>2. /\ \A G : Moved(e, {Chunks}, G) = 0
        /\ Moved(e, {Bank}, Account) = n /\ Moved(e, {Bank}, {p}) = n
        /\ \A x \in Payee \ {p} : Moved(e, {Bank}, {x}) = 0
    BY Accounts DEF Payout, Transfer, Moved
  <2> HIDE DEF e, S
  <2>3. ASSUME NEW F, NEW G, Moved(e, F, G) \in Nat
        PROVE  Flow(q, F, G) = Moved(e, F, G) + Flow(r, F, G) /\ q \in Seq(S)
    <3>1. Flow(h, F, G) = Moved(e, F, G)
      BY <2>3, FlowOne
    <3> HIDE DEF h
    <3>2. Flow(h \o r, F, G) = Flow(h, F, G) + Flow(r, F, G) /\ h \o r \in Seq(S)
      BY <1>1, <2>1, FlowConcat
    <3>3. QED  BY <2>1, <3>1, <3>2
  <2> HIDE DEF h
  <2>4. ASSUME NEW F, NEW G, Moved(e, F, G) = 0
        PROVE  Flow(q, F, G) = Flow(r, F, G)
    <3>1. Flow(q, F, G) = Moved(e, F, G) + Flow(r, F, G) /\ Flow(r, F, G) \in Nat
      BY <1>1, <2>3, <2>4
    <3>2. QED  BY <2>4, <3>1
  <2>5. Flow(q, {Bank}, Account) = n + Flow(r, {Bank}, Account) /\ q \in Seq(S)
    BY <2>2, <2>3
  <2>6. Flow(q, {Bank}, {p}) = n + Flow(r, {Bank}, {p})
    BY <2>2, <2>3
  <2>7. QED  BY <2>2, <2>4, <2>5, <2>6 DEF S
<1>4. n = 0 \/ n > 0
  OBVIOUS
<1>5. QED  BY <1>2, <1>3, <1>4

\* A deposit of m for p in epoch d, which leads from s to t and leaves row as the
\* entry of p, having put a payout of n before the queue q, which makes it r.
Recorded(s, t, q, r, m, p, n, d, row) ==
  /\ m \in Nat /\ p \in Payee /\ n \in Nat /\ d \in Epoch
  /\ row \in VestingRow /\ row.unvested <= row.unvesting_total
  /\ p \in DOMAIN s.vesting => /\ row.vested = s.vesting[p].vested + m
                               /\ row.unvesting_total = s.vesting[p].unvesting_total
                               /\ row.unvested = s.vesting[p].unvested + n
  /\ p \notin DOMAIN s.vesting =>
       row.vested = m /\ row.unvesting_total = 0 /\ row.unvested = 0 /\ n = 0
  /\ t.vesting = [y \in DOMAIN s.vesting \cup {p} |->
                    IF y = p THEN row ELSE s.vesting[y]]
  /\ t.deposits = [s.deposits EXCEPT ![p][d] = @ + m]
  /\ t.paid = s.paid
  /\ s.balance[Bank][Twig] \in Nat
  /\ t.balance[Bank][Twig] = s.balance[Bank][Twig] + m
  /\ \A y \in Payee : t.balance[y][Twig] = s.balance[y][Twig]
  /\ Flow(q, {Bank}, Account) \in Nat
  /\ Flow(r, {Bank}, Account) = n + Flow(q, {Bank}, Account)
  /\ \A x \in Payee : Flow(q, {Bank}, {x}) \in Nat
  /\ Flow(r, {Bank}, {p}) = n + Flow(q, {Bank}, {p})
  /\ \A x \in Payee \ {p} : Flow(r, {Bank}, {x}) = Flow(q, {Bank}, {x})

(* The bank stays solvent: what it owes grows by what it receives. *)
LEMMA DepositVault ==
  ASSUME NEW s, NEW t, NEW q, NEW r, NEW m, NEW p, NEW n, NEW d, NEW row,
         Vault(s, q), Recorded(s, t, q, r, m, p, n, d, row)
  PROVE  Vault(t, r)
<1>1. RowsDue(s) \in Nat /\ Deposited(s) \in Nat /\ PaidOut(s) \in Nat
  BY DueType, HistoryType
<1>2. /\ m \in Nat /\ p \in Payee /\ n \in Nat /\ d \in Epoch
      /\ row \in VestingRow /\ row.unvested <= row.unvesting_total
      /\ t.vesting = [y \in DOMAIN s.vesting \cup {p} |->
                        IF y = p THEN row ELSE s.vesting[y]]
      /\ t.deposits = [s.deposits EXCEPT ![p][d] = @ + m]
      /\ t.paid = s.paid
      /\ s.balance[Bank][Twig] \in Nat
      /\ t.balance[Bank][Twig] = s.balance[Bank][Twig] + m
      /\ \A y \in Payee : t.balance[y][Twig] = s.balance[y][Twig]
      /\ Flow(q, {Bank}, Account) \in Nat
      /\ Flow(r, {Bank}, Account) = n + Flow(q, {Bank}, Account)
  BY DEF Recorded
<1> USE <1>2
<1>3. Due(row) + n = (IF p \in DOMAIN s.vesting THEN Due(s.vesting[p]) ELSE 0) + m
  <2>1. CASE p \in DOMAIN s.vesting
    <3>1. /\ row.vested = s.vesting[p].vested + m
          /\ row.unvesting_total = s.vesting[p].unvesting_total
          /\ row.unvested = s.vesting[p].unvested + n
      BY <2>1 DEF Recorded
    <3>2. /\ s.vesting[p].vested \in Nat /\ s.vesting[p].unvested \in Nat
          /\ s.vesting[p].unvesting_total \in Nat
      BY <2>1, Constants DEF Vault, VestingRow, Amount
    <3>3. QED  BY <2>1, <3>1, <3>2 DEF Due, Outstanding
  <2>2. CASE p \notin DOMAIN s.vesting
    <3>1. row.vested = m /\ row.unvesting_total = 0 /\ row.unvested = 0 /\ n = 0
      BY <2>2 DEF Recorded
    <3>2. QED  BY <2>2, <3>1 DEF Due, Outstanding
  <2>3. QED  BY <2>1, <2>2
<1> DEFINE f == [y \in DOMAIN s.vesting |-> Due(s.vesting[y])]
           g == [y \in DOMAIN t.vesting |-> Due(t.vesting[y])]
<1>4. /\ DOMAIN t.vesting = DOMAIN s.vesting \cup {p}
      /\ t.vesting[p] = row
      /\ \A y \in DOMAIN s.vesting \ {p} : t.vesting[y] = s.vesting[y]
  OBVIOUS
<1>5. /\ DOMAIN t.vesting \subseteq Payee
      /\ \A y \in DOMAIN t.vesting :
           /\ t.vesting[y] \in VestingRow
           /\ t.vesting[y].unvested <= t.vesting[y].unvesting_total
  BY <1>4 DEF Vault
<1>6. IsFiniteSet(DOMAIN s.vesting) /\ f \in [DOMAIN s.vesting -> Nat]
  BY DueType
<1>7. Due(row) \in Nat
  <2>1. row.vested \in Nat /\ row.unvested \in Nat /\ row.unvesting_total \in Nat
    BY Constants DEF VestingRow, Amount
  <2>2. QED  BY <2>1 DEF Due, Outstanding
<1>8. /\ g[p] = Due(row) /\ \A y \in DOMAIN s.vesting \ {p} : g[y] = f[y]
      /\ RowsDue(s) = Total(f, DOMAIN s.vesting)
      /\ RowsDue(t) = Total(g, DOMAIN s.vesting \cup {p})
      /\ \A y \in DOMAIN s.vesting \cup {p} : g[y] \in Nat
  <2>1. g[p] = Due(row) /\ \A y \in DOMAIN s.vesting \ {p} : g[y] = f[y]
    BY <1>4
  <2>2. \A y \in DOMAIN s.vesting \cup {p} : g[y] \in Nat
    BY <1>6, <1>7, <2>1
  <2>3. /\ RowsDue(s) = Total(f, DOMAIN s.vesting)
        /\ RowsDue(t) = Total(g, DOMAIN s.vesting \cup {p})
    BY <1>4 DEF RowsDue
  <2>4. QED  BY <2>1, <2>2, <2>3
<1>9. p \in DOMAIN s.vesting => f[p] = Due(s.vesting[p])
  OBVIOUS
<1> HIDE DEF f, g
<1>10. RowsDue(t) + n = RowsDue(s) + m
  <2>1. CASE p \in DOMAIN s.vesting
    <3> DEFINE D == DOMAIN s.vesting
               h == [y \in D |-> g[y]]
    <3>1. h \in [D -> Nat] /\ h[p] = Due(row) /\ \A y \in D \ {p} : h[y] = f[y]
      BY <1>8, <2>1
    <3>2. D \cup {p} = D /\ Total(h, D) = Total(g, D)
      BY <2>1, TotalAgree
    <3> HIDE DEF D, h
    <3>3. Total(h, D) = Total(f, D) - f[p] + h[p]
      BY <1>6, <2>1, <3>1, TotalChange DEF D
    <3>4. RowsDue(t) = Total(h, D)
      BY <1>8, <3>2 DEF D
    <3>5. RowsDue(s) = Total(f, D) /\ f[p] \in Nat
      BY <1>6, <1>8, <2>1 DEF D
    <3>6. Due(row) + n = f[p] + m
      BY <1>9, <1>3, <2>1
    <3>7. RowsDue(t) = RowsDue(s) - f[p] + Due(row)
      BY <3>1, <3>3, <3>4, <3>5
    <3>8. QED  BY <1>1, <1>7, <3>5, <3>6, <3>7
  <2>2. CASE p \notin DOMAIN s.vesting
    <3> DEFINE D == DOMAIN s.vesting
    <3>0. IsFiniteSet(D) /\ p \notin D /\ \A y \in D \cup {p} : g[y] \in Nat
      BY <1>6, <1>8, <2>2
    <3> HIDE DEF D
    <3>1. Total(g, D \cup {p}) = Total(g, D) + g[p] /\ Total(g, D) \in Nat
      BY <3>0, TotalAdd
    <3> USE DEF D
    <3>2. Total(g, DOMAIN s.vesting) = Total(f, DOMAIN s.vesting)
      BY <1>8, <2>2, TotalAgree
    <3>3. RowsDue(t) = RowsDue(s) + Due(row)
      BY <1>8, <3>1, <3>2
    <3>4. Due(row) + n = m
      BY <1>3, <2>2
    <3>5. QED  BY <1>1, <1>7, <3>3, <3>4
  <2>3. QED  BY <2>1, <2>2
<1>11. s.deposits \in [Payee -> [Epoch -> Nat]] /\ s.paid \in [Payee -> Nat]
  BY DEF Vault
<1>12. /\ t.deposits \in [Payee -> [Epoch -> Nat]]
       /\ t.deposits[p][d] = s.deposits[p][d] + m
       /\ \A e \in Epoch \ {d} : t.deposits[p][e] = s.deposits[p][e]
       /\ \A y \in Payee \ {p} : t.deposits[y] = s.deposits[y]
  <2>1. s.deposits[p][d] + m \in Nat
    BY <1>11
  <2>2. t.deposits \in [Payee -> [Epoch -> Nat]]
    BY <1>11, <2>1
  <2>3. QED  BY <1>11, <2>2
<1>13. DepositedFor(t, p) = DepositedFor(s, p) + m
  <2>1. s.deposits[p] \in [Epoch -> Nat] /\ t.deposits[p] \in [Epoch -> Nat]
    BY <1>11, <1>12
  <2>2. Total(t.deposits[p], Epoch)
          = Total(s.deposits[p], Epoch) - s.deposits[p][d] + t.deposits[p][d]
    <3> DEFINE u == s.deposits[p]
               v == t.deposits[p]
    <3>1. /\ u \in [Epoch -> Nat] /\ v \in [Epoch -> Nat]
          /\ \A e \in Epoch \ {d} : v[e] = u[e]
      BY <1>12, <2>1
    <3> HIDE DEF u, v
    <3>2. Total(v, Epoch) = Total(u, Epoch) - u[d] + v[d]
      BY <3>1, Accounts, TotalChange
    <3>3. QED  BY <3>2 DEF u, v
  <2>3. Total(s.deposits[p], Epoch) \in Nat /\ s.deposits[p][d] \in Nat
    BY <2>1, Accounts, TotalType
  <2>4. QED  BY <1>12, <2>2, <2>3 DEF DepositedFor
<1>14. Deposited(t) = Deposited(s) + m
  <2> DEFINE u == [y \in Payee |-> DepositedFor(s, y)]
             v == [y \in Payee |-> DepositedFor(t, y)]
  <2>1. u \in [Payee -> Nat] /\ DepositedFor(s, p) \in Nat
    BY HistoryType
  <2>2. v[p] = u[p] + m /\ u[p] \in Nat
    BY <1>13, <2>1
  <2>3. \A y \in Payee \ {p} : v[y] = u[y]
    BY <1>12 DEF DepositedFor
  <2>4. v \in [Payee -> Nat]
    <3>1. \A y \in Payee : u[y] \in Nat
      BY <2>1
    <3>2. \A y \in Payee : v[y] \in Nat
      BY <2>2, <2>3, <3>1
    <3>3. v = [y \in Payee |-> v[y]]
      OBVIOUS
    <3> HIDE DEF v
    <3>4. QED  BY <3>2, <3>3
  <2>5. Deposited(s) = Total(u, Payee) /\ Deposited(t) = Total(v, Payee)
    BY DEF Deposited
  <2> HIDE DEF u, v
  <2>6. Total(v, Payee) = Total(u, Payee) - u[p] + v[p]
    BY <2>1, <2>3, <2>4, Accounts, TotalChange
  <2>7. QED  BY <1>1, <2>2, <2>5, <2>6
<1>15. PaidOut(t) = PaidOut(s)
  BY DEF PaidOut
<1>16. /\ s.balance[Bank][Twig] >= RowsDue(s) + Flow(q, {Bank}, Account)
       /\ s.balance[Bank][Twig] + PaidOut(s) >= Deposited(s)
  BY DEF Vault
<1>17. RowsDue(t) \in Nat
  <2>1. IsFiniteSet(DOMAIN s.vesting \cup {p})
    BY <1>6, FS_AddElement
  <2>2. QED  BY <1>8, <2>1, TotalNat
<1>18. t.balance[Bank][Twig] >= RowsDue(t) + Flow(r, {Bank}, Account)
  BY <1>1, <1>10, <1>16, <1>17
<1>19. t.balance[Bank][Twig] + PaidOut(t) >= Deposited(t)
  BY <1>1, <1>14, <1>15, <1>16
<1>20. \A y \in Payee : t.paid[y] <= t.balance[y][Twig]
  BY DEF Vault
<1>21. QED  BY <1>5, <1>11, <1>12, <1>18, <1>19, <1>20 DEF Vault

(* The epoch before another. *)
LEMMA EpochBefore ==
  ASSUME NEW d \in Epoch
  PROVE  d \in Nat /\ d >= 1 /\ (d > 1 => d - 1 \in Epoch /\ d - 1 < d)
BY Constants DEF Epoch

(* The books are right: what is deposited vests, and what is released is paid. *)
LEMMA DepositBooks ==
  ASSUME NEW s, NEW t, NEW q, NEW r, NEW m, NEW p, NEW n, NEW d, NEW row,
         Vault(s, q), Books(s, q), Recorded(s, t, q, r, m, p, n, d, row),
         row.epoch = d, BooksEpoch(s, q) = d, BooksEpoch(t, r) = d
  PROVE  Books(t, r)
<1>1. /\ m \in Nat /\ p \in Payee /\ n \in Nat /\ d \in Epoch
      /\ p \in DOMAIN s.vesting => /\ row.vested = s.vesting[p].vested + m
                                   /\ row.unvesting_total = s.vesting[p].unvesting_total
                                   /\ row.unvested = s.vesting[p].unvested + n
      /\ p \notin DOMAIN s.vesting =>
           row.vested = m /\ row.unvesting_total = 0 /\ row.unvested = 0 /\ n = 0
      /\ t.vesting = [y \in DOMAIN s.vesting \cup {p} |->
                        IF y = p THEN row ELSE s.vesting[y]]
      /\ t.deposits = [s.deposits EXCEPT ![p][d] = @ + m]
      /\ t.paid = s.paid
      /\ \A x \in Payee : Flow(q, {Bank}, {x}) \in Nat
      /\ Flow(r, {Bank}, {p}) = n + Flow(q, {Bank}, {p})
      /\ \A x \in Payee \ {p} : Flow(r, {Bank}, {x}) = Flow(q, {Bank}, {x})
  BY DEF Recorded
<1> USE <1>1
<1>2. /\ s.deposits \in [Payee -> [Epoch -> Nat]] /\ s.paid \in [Payee -> Nat]
      /\ DOMAIN s.vesting \subseteq Payee
      /\ \A y \in DOMAIN s.vesting : s.vesting[y] \in VestingRow
  BY DEF Vault
<1>3. /\ t.deposits[p][d] = s.deposits[p][d] + m
      /\ \A e \in Epoch \ {d} : t.deposits[p][e] = s.deposits[p][e]
      /\ \A y \in Payee \ {p} : t.deposits[y] = s.deposits[y]
  BY <1>2
<1>4. d \in Nat /\ \A e \in Epoch : e \in Nat
  BY EpochBefore
<1>5. /\ DOMAIN t.vesting = DOMAIN s.vesting \cup {p}
      /\ t.vesting[p] = row
      /\ \A y \in DOMAIN s.vesting \ {p} : t.vesting[y] = s.vesting[y]
  OBVIOUS
<1>6. /\ \A y \in DOMAIN s.vesting :
           LET own == s.vesting[y]
           IN  /\ own.epoch = d
               /\ own.vested = s.deposits[y][d]
               /\ own.unvesting_total = Before(s, y, d)
               /\ s.paid[y] + Flow(q, {Bank}, {y}) = own.unvested + Past(s, y, d)
      /\ \A y \in Payee \ DOMAIN s.vesting :
           /\ \A e \in Epoch : s.deposits[y][e] = 0
           /\ s.paid[y] + Flow(q, {Bank}, {y}) = 0
      /\ \A y \in Payee, e \in Epoch : e > d => s.deposits[y][e] = 0
  BY DEF Books
<1>7. ASSUME NEW y \in Payee
      PROVE  /\ Before(t, y, d) = Before(s, y, d)
             /\ Past(t, y, d) = Past(s, y, d)
             /\ Past(s, y, d) \in Nat
  <2>1. ASSUME NEW e \in Epoch, e < d
        PROVE  t.deposits[y][e] = s.deposits[y][e]
    BY <1>3, <1>4, <2>1
  <2> DEFINE past == {e \in Epoch : e < d - 1}
             u == s.deposits[y]
             v == t.deposits[y]
  <2>2. d > 1 => d - 1 \in Epoch /\ d - 1 < d
    BY EpochBefore
  <2>3. Before(t, y, d) = Before(s, y, d)
    BY <2>1, <2>2 DEF Before
  <2>4. \A e \in past : e \in Epoch /\ e < d
    BY ONLY <1>4
  <2>5. \A e \in past : v[e] = u[e] /\ u[e] \in Nat
    BY <1>2, <2>1, <2>4
  <2>6. IsFiniteSet(past)
    BY Accounts, FS_Subset
  <2>7. Past(t, y, d) = Total(v, past) /\ Past(s, y, d) = Total(u, past)
    BY DEF Past
  <2> HIDE DEF past, u, v
  <2>8. Total(v, past) = Total(u, past) /\ Total(u, past) \in Nat
    BY <2>5, <2>6, TotalAgree, TotalNat
  <2>9. QED  BY <2>3, <2>7, <2>8
<1>8. p \notin DOMAIN s.vesting => Before(s, p, d) = 0 /\ Past(s, p, d) = 0
  <2> SUFFICES ASSUME p \notin DOMAIN s.vesting
               PROVE  Before(s, p, d) = 0 /\ Past(s, p, d) = 0
    OBVIOUS
  <2>1. \A e \in Epoch : s.deposits[p][e] = 0
    BY <1>6
  <2>2. d > 1 => d - 1 \in Epoch
    BY EpochBefore
  <2>3. Before(s, p, d) = 0
    BY <2>1, <2>2 DEF Before
  <2>4. Past(s, p, d) = 0
    BY <2>1, TotalZero DEF Past
  <2>5. QED  BY <2>3, <2>4
<1>9. ASSUME NEW y \in DOMAIN t.vesting
      PROVE  LET own == t.vesting[y]
             IN  /\ own.epoch = d
                 /\ own.vested = t.deposits[y][d]
                 /\ own.unvesting_total = Before(t, y, d)
                 /\ t.paid[y] + Flow(r, {Bank}, {y}) = own.unvested + Past(t, y, d)
  <2>0. y \in Payee
    BY <1>2, <1>5
  <2>1. /\ y \in Payee /\ s.paid[y] \in Nat /\ Flow(q, {Bank}, {y}) \in Nat
        /\ s.deposits[y][d] \in Nat
    <3>1. s.paid[y] \in Nat /\ s.deposits[y] \in [Epoch -> Nat]
      BY <1>2, <2>0
    <3>2. s.deposits[y][d] \in Nat
      BY <3>1
    <3>3. Flow(q, {Bank}, {y}) \in Nat
      BY <2>0
    <3>4. QED  BY <2>0, <3>1, <3>2, <3>3
  <2>2. CASE y # p
    <3>1. t.vesting[y] = s.vesting[y] /\ y \in DOMAIN s.vesting
      BY <1>5, <2>2
    <3>2. t.deposits[y] = s.deposits[y] /\ Flow(r, {Bank}, {y}) = Flow(q, {Bank}, {y})
      BY <1>3, <2>1, <2>2
    <3>3. LET own == s.vesting[y]
          IN  /\ own.epoch = d
              /\ own.vested = s.deposits[y][d]
              /\ own.unvesting_total = Before(s, y, d)
              /\ s.paid[y] + Flow(q, {Bank}, {y}) = own.unvested + Past(s, y, d)
      BY <1>6, <3>1
    <3>4. QED  BY <1>7, <2>1, <3>1, <3>2, <3>3
  <2>3. CASE y = p /\ p \in DOMAIN s.vesting
    <3>1. /\ s.vesting[p].vested = s.deposits[p][d]
          /\ s.vesting[p].unvesting_total = Before(s, p, d)
          /\ s.paid[p] + Flow(q, {Bank}, {p}) = s.vesting[p].unvested + Past(s, p, d)
      BY <1>6, <2>3
    <3>2. s.vesting[p].unvested \in Nat
      BY <1>2, <2>3 DEF VestingRow
    <3>3. t.vesting[y] = row /\ row.unvested = s.vesting[p].unvested + n
      BY <1>5, <2>3
    <3>4. t.paid[y] + Flow(r, {Bank}, {y}) = s.paid[p] + (n + Flow(q, {Bank}, {p}))
      BY <2>3
    <3>5. s.paid[p] + (n + Flow(q, {Bank}, {p})) = row.unvested + Past(s, p, d)
      BY <1>7, <2>1, <2>3, <3>1, <3>2, <3>3
    <3>6. t.paid[y] + Flow(r, {Bank}, {y}) = row.unvested + Past(t, p, d)
      BY <1>7, <3>4, <3>5
    <3>7. row.vested = t.deposits[p][d] /\ row.unvesting_total = Before(t, p, d)
      BY <1>3, <1>7, <2>3, <3>1
    <3>8. QED  BY <2>3, <3>3, <3>6, <3>7
  <2>4. CASE y = p /\ p \notin DOMAIN s.vesting
    <3>1. s.deposits[p][d] = 0 /\ s.paid[p] + Flow(q, {Bank}, {p}) = 0
      BY <1>6, <2>4
    <3>2. Flow(r, {Bank}, {p}) = Flow(q, {Bank}, {p})
      BY <2>1, <2>4
    <3>3. row.unvested + Past(t, p, d) = 0 /\ Before(t, p, d) = 0
      BY <1>7, <1>8, <2>4
    <3>4. t.deposits[p][d] = m
      BY <1>3, <3>1
    <3>5. QED  BY <1>5, <2>4, <3>1, <3>2, <3>3, <3>4
  <2>5. QED  BY <2>2, <2>3, <2>4
<1>10. ASSUME NEW y \in Payee \ DOMAIN t.vesting
      PROVE  /\ \A e \in Epoch : t.deposits[y][e] = 0
             /\ t.paid[y] + Flow(r, {Bank}, {y}) = 0
  <2>1. y \in Payee \ {p} /\ y \in Payee \ DOMAIN s.vesting
    BY <1>5
  <2>2. /\ t.deposits[y] = s.deposits[y] /\ t.paid[y] = s.paid[y]
        /\ Flow(r, {Bank}, {y}) = Flow(q, {Bank}, {y})
    BY <1>3, <2>1
  <2>3. /\ \A e \in Epoch : s.deposits[y][e] = 0
        /\ s.paid[y] + Flow(q, {Bank}, {y}) = 0
    BY <1>6, <2>1
  <2>4. QED  BY <2>2, <2>3
<1>11. ASSUME NEW y \in Payee, NEW e \in Epoch, e > d
       PROVE  t.deposits[y][e] = 0
  <2>1. e # d /\ s.deposits[y][e] = 0
    BY <1>4, <1>6, <1>11
  <2>2. t.deposits[y][e] = s.deposits[y][e]
    <3>1. CASE y = p
      BY <1>3, <2>1, <3>1
    <3>2. CASE y # p
      BY <1>3, <3>2
    <3>3. QED  BY <3>1, <3>2
  <2>3. QED  BY <2>1, <2>2
<1>12. BooksEpoch(t, r) = d /\ d \in Epoch
  OBVIOUS
<1>13. QED  BY ONLY <1>9, <1>10, <1>11, <1>12, <1>1 DEF Books

(* A share that is sent to the bank, which puts it into the books. *)
LEMMA TokenDepositInv ==
  ASSUME IInv, token_deposit
  PROVE  IInv'
<1> DEFINE q == Tail(pending)
           from == Head(pending).from
           to == Head(pending).to
           m == Head(pending).amount
           p == PayeeOf(Head(pending))
           known == p \in DOMAIN vesting
           n == IF known THEN Release(vesting[p]) ELSE 0
           row == IF known THEN [vesting[p] EXCEPT !.vested = @ + m, !.unvested = @ + n]
                           ELSE NewRow(m)
           r == (IF n > 0 THEN <<Payout(p, n)>> ELSE <<>>) \o q
           d == lucky.epoch
<1>1. /\ ~Quiet /\ Head(pending).act = "transfer" /\ IsDeposit(Head(pending))
      /\ Continue(r) /\ T!transfer(from, to, One(m))
      /\ UNCHANGED <<installed, contracts, lucky, paid, gifts, resets>>
      /\ deposits' = [deposits EXCEPT ![p][d] = @ + m]
      /\ vesting' = [y \in DOMAIN vesting \cup {p} |-> IF y = p THEN row ELSE vesting[y]]
  BY DEF token_deposit, Running
<1>2. from = Chunks /\ to = Bank /\ m \in Nat
  <2>1. Head(pending) \in Starts \cup Rest
    BY <1>1, InlineFacts
  <2>2. Head(pending) \in Shares
    BY <1>1, <2>1, Kinds, Accounts DEF Rest, IsDeposit
  <2>3. QED  BY <1>1, <2>2, Kinds DEF IsDeposit
<1>3. q \in Seq(Rest) /\ pending # <<>> /\ \A a \in Account : balance[a][Twig] \in Nat
  BY <1>1, InlineFacts
<1>4. \A F, G : /\ Flow(pending, F, G) = Moved(Head(pending), F, G) + Flow(q, F, G)
                /\ Flow(q, F, G) \in Nat /\ Flow(pending, F, G) \in Nat
  BY <1>1, InlineFacts
<1>5. /\ \A G : Moved(Head(pending), {Bank}, G) = 0
      /\ Moved(Head(pending), {Chunks}, Account) = m
  BY <1>1, <1>2, Accounts DEF Moved
<1>6. /\ m <= balance[Chunks][Twig]
      /\ balance'[Chunks][Twig] = balance[Chunks][Twig] - m
      /\ balance'[Bank][Twig] = balance[Bank][Twig] + m
      /\ \A a \in Account \ {Chunks, Bank} : balance'[a][Twig] = balance[a][Twig]
      /\ supply' = supply /\ configured' = configured
      /\ max_supply' = max_supply
      /\ Ledger(State)'
  <2> HIDE DEF m, from, to
  <2>1. Ledger(State) /\ from \in Account /\ to \in Account
    BY <1>2, Accounts DEF IInv, Sound
  <2>2. /\ m <= balance[from][Twig]
        /\ balance'[from][Twig] = balance[from][Twig] - m
        /\ balance'[to][Twig] = balance[to][Twig] + m
        /\ \A a \in Account \ {from, to} : balance'[a][Twig] = balance[a][Twig]
        /\ supply' = supply /\ configured' = configured
        /\ max_supply' = max_supply
        /\ Ledger(State)'
    BY <1>1, <1>2, <2>1, TransferEffect
  <2>3. QED  BY <1>2, <2>2
<1>7. /\ Vault(State, pending) /\ d \in Epoch /\ lucky.chunks \in 0..ChunksPerEpoch
      /\ resets = 0 => Books(State, pending) /\ Issued(State, pending)
  BY DEF IInv, Sound, Lottery, State
<1>8. p \in Payee
  <2>1. lucky.producer \in Producer
    BY <1>1 DEF IInv, Transaction
  <2>2. QED  BY <2>1, Accounts DEF PayeeOf
<1>9. known => /\ vesting[p] \in VestingRow
               /\ vesting[p].unvested <= vesting[p].unvesting_total
  BY <1>7 DEF Vault, State
<1>10. /\ n \in Nat
       /\ known => n <= Outstanding(vesting[p])
  BY <1>7, <1>9, ReleaseBound
<1>11. Running("issue") = FALSE
  BY <1>1 DEF Running
<1> HIDE DEF q, from, to, m, n, p
<1>12. /\ row \in VestingRow /\ row.unvested <= row.unvesting_total
       /\ Due(row) + n = (IF p \in DOMAIN vesting THEN Due(vesting[p]) ELSE 0) + m
       /\ known => /\ row.vested = vesting[p].vested + m
                   /\ row.unvesting_total = vesting[p].unvesting_total
                   /\ row.unvested = vesting[p].unvested + n
                   /\ row.epoch = vesting[p].epoch
       /\ ~known => /\ row.vested = m /\ row.unvesting_total = 0
                    /\ row.unvested = 0 /\ n = 0 /\ row.epoch = d
  <2>1. CASE known
    <3> DEFINE old == vesting[p]
    <3>1. /\ old \in VestingRow /\ old.unvested <= old.unvesting_total
          /\ n <= Outstanding(old)
          /\ row = [old EXCEPT !.vested = @ + m, !.unvested = @ + n]
      BY <1>9, <1>10, <2>1
    <3> HIDE DEF old, row
    <3>2. /\ old.vested \in Nat /\ old.unvested \in Nat
          /\ old.unvesting_total \in Amount /\ old.epoch \in Epoch
          /\ old.unvesting_total \in Nat
      BY <3>1, Constants DEF VestingRow, Amount
    <3>3. /\ row = [vested |-> old.vested + m, unvesting_total |-> old.unvesting_total,
                    unvested |-> old.unvested + n, epoch |-> old.epoch]
      BY <3>1 DEF VestingRow
    <3>4. /\ row.vested = old.vested + m
          /\ row.unvesting_total = old.unvesting_total
          /\ row.unvested = old.unvested + n
          /\ row.epoch = old.epoch
      BY <3>3
    <3>5. row \in VestingRow
      BY <1>2, <1>10, <3>2, <3>3 DEF VestingRow
    <3>6. n <= old.unvesting_total - old.unvested
      BY <3>1 DEF Outstanding
    <3>7. /\ row.unvested <= row.unvesting_total
          /\ Due(row) + n = Due(old) + m
      BY <1>2, <1>10, <3>2, <3>4, <3>6 DEF Due, Outstanding
    <3>8. QED  BY <2>1, <3>4, <3>5, <3>7 DEF old
  <2>2. CASE ~known
    <3>1. row = NewRow(m) /\ n = 0
      BY <2>2 DEF n
    <3> HIDE DEF row
    <3>2. row = [vested |-> m, unvesting_total |-> 0, unvested |-> 0, epoch |-> d]
      BY <3>1 DEF NewRow
    <3>3. row.vested = m /\ row.unvesting_total = 0 /\ row.unvested = 0 /\ row.epoch = d
      BY <3>2
    <3>4. 0 \in Amount
      BY Constants DEF Amount
    <3>5. row \in VestingRow
      BY <1>2, <1>7, <3>2, <3>4 DEF VestingRow
    <3>6. row.unvested <= row.unvesting_total /\ Due(row) + n = m
      BY <1>2, <3>1, <3>3 DEF Due, Outstanding
    <3>7. 0 + m = m
      BY <1>2
    <3>8. QED  BY <2>2, <3>1, <3>3, <3>5, <3>6, <3>7
  <2>3. QED  BY <2>1, <2>2
<1> HIDE DEF row, r, d
<1>13. /\ r \in Seq(Rest)
       /\ \A G : Flow(r, {Chunks}, G) = Flow(q, {Chunks}, G)
       /\ Flow(r, {Bank}, Account) = n + Flow(q, {Bank}, Account)
       /\ Flow(r, {Bank}, {p}) = n + Flow(q, {Bank}, {p})
       /\ \A x \in Payee \ {p} : Flow(r, {Bank}, {x}) = Flow(q, {Bank}, {x})
  <2>1. r = WithPayout(p, n, q)
    BY DEF r, WithPayout
  <2>2. q \in Seq(Rest) /\ p \in Payee /\ n \in Nat
    BY <1>3, <1>8, <1>10
  <2> DEFINE q1 == WithPayout(p, n, q)
  <2>3. /\ q1 \in Seq(Rest)
        /\ \A G : Flow(q1, {Chunks}, G) = Flow(q, {Chunks}, G)
        /\ Flow(q1, {Bank}, Account) = n + Flow(q, {Bank}, Account)
        /\ Flow(q1, {Bank}, {p}) = n + Flow(q, {Bank}, {p})
        /\ \A x \in Payee \ {p} : Flow(q1, {Bank}, {x}) = Flow(q, {Bank}, {x})
    <3> HIDE DEF q1
    <3>1. QED  BY <2>2, PayoutFirst DEF q1
  <2>4. QED  BY <2>1, <2>3
<1>14. \A G : Flow(pending, {Bank}, G) = Flow(q, {Bank}, G)
  <2> SUFFICES ASSUME NEW G
               PROVE  Flow(pending, {Bank}, G) = Flow(q, {Bank}, G)
    OBVIOUS
  <2>1. /\ Flow(pending, {Bank}, G) = Moved(Head(pending), {Bank}, G) + Flow(q, {Bank}, G)
        /\ Flow(q, {Bank}, G) \in Nat
    BY <1>4
  <2>2. QED  BY <1>5, <2>1
<1>15. Flow(r, {Chunks}, Account) <= balance'[Chunks][Twig]
  <2>1. Flow(pending, {Chunks}, Account) <= balance[Chunks][Twig] + 0
    BY <1>11 DEF IInv, Queue, Held
  <2>2. /\ Flow(pending, {Chunks}, Account) = m + Flow(r, {Chunks}, Account)
        /\ Flow(r, {Chunks}, Account) \in Nat
    <3>1. /\ Flow(pending, {Chunks}, Account)
               = Moved(Head(pending), {Chunks}, Account) + Flow(q, {Chunks}, Account)
          /\ Flow(q, {Chunks}, Account) \in Nat
      BY <1>4
    <3>2. Flow(r, {Chunks}, Account) = Flow(q, {Chunks}, Account)
      BY <1>13
    <3>3. QED  BY <1>5, <3>1, <3>2
  <2>3. balance[Chunks][Twig] \in Nat
    BY <1>3, Accounts
  <2>4. QED  BY <1>2, <1>6, <2>1, <2>2, <2>3
<1> DEFINE s == State
           t == State'
<1>16. /\ t.vesting = [y \in DOMAIN s.vesting \cup {p} |-> IF y = p THEN row ELSE s.vesting[y]]
       /\ t.deposits = [s.deposits EXCEPT ![p][d] = @ + m]
       /\ t.paid = s.paid /\ t.lucky = s.lucky /\ t.supply = s.supply
       /\ s.vesting = vesting /\ s.balance = balance /\ t.balance = balance'
       /\ s.lucky.epoch = d
  BY <1>1, <1>6 DEF State, d
<1>17. /\ Vault(s, pending)
       /\ resets = 0 => Books(s, pending) /\ Issued(s, pending)
  BY <1>7
<1> HIDE DEF s, t
<1>18. Recorded(s, t, pending, r, m, p, n, d, row)
  <2>1. /\ s.balance[Bank][Twig] \in Nat
        /\ t.balance[Bank][Twig] = s.balance[Bank][Twig] + m
    BY <1>3, <1>6, <1>16, Accounts
  <2>2. \A y \in Payee : t.balance[y][Twig] = s.balance[y][Twig]
    BY <1>6, <1>16, Accounts
  <2>3. /\ Flow(pending, {Bank}, Account) \in Nat
        /\ Flow(r, {Bank}, Account) = n + Flow(pending, {Bank}, Account)
    BY <1>4, <1>13, <1>14
  <2>4. /\ m \in Nat /\ p \in Payee /\ n \in Nat /\ d \in Epoch
        /\ row \in VestingRow /\ row.unvested <= row.unvesting_total
    BY <1>2, <1>7, <1>8, <1>10, <1>12
  <2>5. /\ \A x \in Payee : Flow(pending, {Bank}, {x}) \in Nat
        /\ Flow(r, {Bank}, {p}) = n + Flow(pending, {Bank}, {p})
        /\ \A x \in Payee \ {p} : Flow(r, {Bank}, {x}) = Flow(pending, {Bank}, {x})
    BY <1>4, <1>13, <1>14
  <2>6. p \in DOMAIN s.vesting =>
          /\ row.vested = s.vesting[p].vested + m
          /\ row.unvesting_total = s.vesting[p].unvesting_total
          /\ row.unvested = s.vesting[p].unvested + n
    BY <1>12, <1>16
  <2>7. p \notin DOMAIN s.vesting =>
          row.vested = m /\ row.unvesting_total = 0 /\ row.unvested = 0 /\ n = 0
    BY <1>12, <1>16
  <2>8. /\ t.vesting = [y \in DOMAIN s.vesting \cup {p} |->
                            IF y = p THEN row ELSE s.vesting[y]]
        /\ t.deposits = [s.deposits EXCEPT ![p][d] = @ + m]
        /\ t.paid = s.paid
    BY <1>16
  <2>9. QED
    BY ONLY <2>1, <2>2, <2>3, <2>4, <2>5, <2>6, <2>7, <2>8 DEF Recorded
<1>19. Vault(t, r)
  BY <1>17, <1>18, DepositVault
<1>20. ASSUME resets = 0
       PROVE  Books(t, r) /\ Issued(t, r)
  <2>1. Books(s, pending) /\ Issued(s, pending)
    BY <1>17, <1>20
  <2>2. /\ ~Next0(pending, "onepoch") /\ ~Next0(pending, "onchunk")
        /\ ~Next0(pending, "issue")
    BY <1>1 DEF Next0
  <2>3. BooksEpoch(t, r) = d /\ ~IssueIsDue(t, r)
    BY <1>13, <1>16, NoStart
  <2>4. BooksEpoch(s, pending) = d /\ ~IssueIsDue(s, pending)
    BY <1>16, <2>2 DEF BooksEpoch, IssueIsDue
  <2>5. row.epoch = d
    <3>1. CASE known
      <4>1. s.vesting[p].epoch = d
        BY <1>16, <2>1, <2>4, <3>1 DEF Books
      <4>2. QED  BY <1>12, <1>16, <3>1, <4>1
    <3>2. CASE ~known
      BY <1>12, <3>2
    <3>3. QED  BY <3>1, <3>2
  <2>6. Books(t, r)
    BY <1>17, <1>18, <2>1, <2>3, <2>4, <2>5, DepositBooks
  <2>7. Issued(t, r)
    BY <1>16, <2>1, <2>3, <2>4 DEF Issued
  <2>8. QED  BY <2>6, <2>7
<1>21. Ledger(State')
  BY <1>6
<1>22. QED
  BY <1>1, <1>6, <1>13, <1>15, <1>19, <1>20, <1>21, RestStep DEF t

-----------------------------------------------------------------------------
(* The sharing of a chunk. *)

(* The queue of a step that puts a first action of a block before a rest. *)
LEMMA QueueOfStart ==
  ASSUME NEW e \in Starts', NEW r \in Seq(Rest), rngcalls' = rngcalls,
         pending' = <<e>> \o r,
         e.act = "onchunk" => r \in Seq(Called),
         balance'[Chunks][Twig] \in Nat,
         Flow(r, {Chunks}, Account)
           <= balance'[Chunks][Twig] + IF e.act = "issue" THEN ChunkIssue ELSE 0
  PROVE  /\ Queue' /\ ~Quiet' /\ Head(pending') = e
         /\ \A F, G : Flow(pending', F, G) = Flow(r, F, G)
<1>1. Rest' = Rest /\ Called' = Called
  BY DEF Rest, Called, Active
<1> DEFINE S == Starts' \cup Rest
           h == <<e>>
<1>2. \A x \in Starts' : x.act \in {"onchunk", "onepoch", "issue"}
  BY DEF Starts, OnChunk, OnEpoch, Issue
<1>3. Amounts(S)
  BY <1>2, Kinds DEF Amounts
<1>4. h \in Seq(S) /\ Len(h) = 1 /\ h[1] = e
  OBVIOUS
<1>5. r \in Seq(S)
  BY SeqMonotonic
<1>6. \A F, G : Moved(e, F, G) = 0
  BY <1>2 DEF Moved
<1>7. \A F, G : Flow(h, F, G) = 0
  BY <1>6, FlowOne
<1>8. pending' # <<>> /\ Head(pending') = e
  OBVIOUS
<1> HIDE DEF S, h
<1>9. h \o r \in Seq(S) /\ pending' = h \o r
  BY <1>3, <1>4, <1>5, FlowConcat DEF h
<1>10. \A F, G : Flow(pending', F, G) = Flow(r, F, G)
  <2> SUFFICES ASSUME NEW F, NEW G
               PROVE  Flow(pending', F, G) = Flow(r, F, G)
    OBVIOUS
  <2>1. Flow(h \o r, F, G) = Flow(h, F, G) + Flow(r, F, G)
    BY <1>3, <1>4, <1>5, FlowConcat
  <2>2. Flow(h, F, G) = 0 /\ Flow(r, F, G) \in Nat
    BY <1>3, <1>5, <1>7, FlowSeq
  <2>3. Flow(h \o r, F, G) = Flow(r, F, G)
    BY <2>1, <2>2
  <2>4. QED  BY <1>9, <2>3
<1>11. \A i \in DOMAIN pending' : i > 1 => \E j \in DOMAIN r : pending'[i] = r[j]
  <2> SUFFICES ASSUME NEW i \in DOMAIN pending', i > 1
               PROVE  \E j \in DOMAIN r : pending'[i] = r[j]
    OBVIOUS
  <2>1. /\ pending' = h \o r /\ Len(h \o r) = Len(h) + Len(r)
        /\ \A k \in 1..(Len(h) + Len(r)) :
             (h \o r)[k] = IF k <= Len(h) THEN h[k] ELSE r[k - Len(h)]
    BY <1>4, <1>5, ConcatProperties DEF h
  <2>2. /\ DOMAIN pending' = 1..(1 + Len(r)) /\ Len(r) \in Nat
        /\ DOMAIN r = 1..Len(r)
    BY <1>4, <1>5, <1>9, <2>1
  <2>3. pending'[i] = r[i - 1] /\ i - 1 \in DOMAIN r
    BY <1>4, <2>1, <2>2
  <2>4. QED  BY <2>3
<1>12. \A i \in DOMAIN pending' : i > 1 => pending'[i] \notin Starts'
  <2>1. \A j \in DOMAIN r : r[j] \in Rest
    OBVIOUS
  <2>2. \A j \in DOMAIN r : r[j] \notin Starts'
    BY <1>2, <2>1, Kinds
  <2>3. QED  BY <1>11, <2>2
<1>13. e.act = "onchunk" => \A i \in DOMAIN pending' : i > 1 => pending'[i] \in Called'
  <2>1. e.act = "onchunk" => \A j \in DOMAIN r : r[j] \in Called
    OBVIOUS
  <2>2. QED  BY <1>1, <1>11, <2>1
<1>14. pending' \in Seq(Starts' \cup Rest')
  BY <1>1, <1>9 DEF S, h
<1>15. Flow(pending', {Chunks}, Account)
         <= balance'[Chunks][Twig] + IF Running("issue")' THEN ChunkIssue ELSE 0
  BY <1>8, <1>10 DEF Running, Quiet
<1>16. Running("onchunk")' <=> e.act = "onchunk"
  BY <1>8 DEF Running, Quiet
<1>17. Queue'
  BY <1>12, <1>13, <1>14, <1>15, <1>16 DEF Queue, Held
<1>18. QED  BY <1>8, <1>10, <1>17 DEF Quiet

\* The transfers that share n tokens out.
FourShares(n) ==
  << Transfer(Chunks, Bank, TeamShare(n), "team_share"),
     Transfer(Chunks, Board, BoardShare(n), "board_share"),
     Transfer(Chunks, Bank, ProducerShare(n), "producer_share"),
     Transfer(Chunks, World, WorldShare(n), "Refilling World") >>

(* The shares take no more from the chunks account than what is shared, and *)
(* nothing from the bank.                                                   *)
LEMMA SharesFlow ==
  ASSUME NEW n \in Nat, NEW q \in Seq(Called), NEW r, r = FourShares(n) \o q
  PROVE  /\ r \in Seq(Rest) /\ FourShares(n) \in Seq(Rest) /\ q \in Seq(Rest)
         /\ Flow(r, {Chunks}, Account) \in Nat
         /\ Flow(r, {Chunks}, Account) <= n
         /\ \A G : Flow(r, {Bank}, G) = 0
<1> DEFINE t == TeamShare(n)
           b == BoardShare(n)
           p == ProducerShare(n)
           w == WorldShare(n)
           e1 == Transfer(Chunks, Bank, t, "team_share")
           e2 == Transfer(Chunks, Board, b, "board_share")
           e3 == Transfer(Chunks, Bank, p, "producer_share")
           e4 == Transfer(Chunks, World, w, "Refilling World")
           S == Rest
<1>1. /\ t \in Nat /\ b \in Nat /\ p \in Nat /\ w \in Nat
      /\ ((t + b) + p) + w <= n
  BY SharesFit
<1>2. /\ e1 \in S /\ e2 \in S /\ e3 \in S /\ e4 \in S
      /\ e1 \in Shares /\ e2 \in Shares /\ e3 \in Shares /\ e4 \in Shares
  BY <1>1 DEF Transfer, Rest, Shares, Share
<1>3. /\ Moved(e1, {Chunks}, Account) = t /\ Moved(e2, {Chunks}, Account) = b
      /\ Moved(e3, {Chunks}, Account) = p /\ Moved(e4, {Chunks}, Account) = w
  BY Accounts DEF Transfer, Moved
<1>4. q \in Seq(S)
  BY SeqMonotonic DEF Rest
<1>5. Amounts(S)
  BY Kinds
<1>6. FourShares(n) = <<e1, e2, e3, e4>>
  BY DEF FourShares
<1>7. \A G, x : x \in Shares \cup Called => Moved(x, {Bank}, G) = 0
  BY Kinds, Accounts DEF Moved
<1>8. \A x \in Called : \A F, G : Moved(x, F, G) = 0
  BY Kinds DEF Moved
<1>9. \A F, G : Flow(q, F, G) = 0
  <2>1. \A i \in DOMAIN q : q[i] \in Called
    OBVIOUS
  <2>2. QED  BY <1>8, <2>1, FlowZero
<1> HIDE DEF t, b, p, w, e1, e2, e3, e4, S
<1> DEFINE s == <<e1, e2, e3, e4>>
           s3 == <<e2, e3, e4>>
           s2 == <<e3, e4>>
           s1 == <<e4>>
<1>10. /\ s \in Seq(S) /\ s3 \in Seq(S) /\ s2 \in Seq(S) /\ s1 \in Seq(S)
       /\ s # <<>> /\ s3 # <<>> /\ s2 # <<>>
       /\ Head(s) = e1 /\ Tail(s) = s3 /\ Head(s3) = e2 /\ Tail(s3) = s2
       /\ Head(s2) = e3 /\ Tail(s2) = s1
  BY <1>2
<1>11. Flow(s1, {Chunks}, Account) = w
  BY <1>1, <1>3, FlowOne
<1>12. DOMAIN s = 1..4 /\ \A i \in 1..4 : s[i] \in Shares
  BY <1>2
<1>13. \A G : Flow(s, {Bank}, G) = 0
  BY <1>7, <1>12, FlowZero
<1> HIDE DEF s, s1, s2, s3
<1>14. Flow(s2, {Chunks}, Account) = p + w
  <2>1. Flow(s2, {Chunks}, Account)
          = Moved(Head(s2), {Chunks}, Account) + Flow(Tail(s2), {Chunks}, Account)
    <3>1. s2 \in Seq(S) /\ s2 # <<>> /\ Amounts(S)
      BY <1>5, <1>10
    <3>2. QED  BY ONLY <3>1, FlowTail
  <2>2. QED  BY <1>3, <1>10, <1>11, <2>1
<1>15. Flow(s3, {Chunks}, Account) = b + (p + w)
  <2>1. Flow(s3, {Chunks}, Account)
          = Moved(Head(s3), {Chunks}, Account) + Flow(Tail(s3), {Chunks}, Account)
    BY <1>5, <1>10, FlowTail
  <2>2. QED  BY <1>3, <1>10, <1>14, <2>1
<1>16. Flow(s, {Chunks}, Account) = t + (b + (p + w))
  <2>1. Flow(s, {Chunks}, Account)
          = Moved(Head(s), {Chunks}, Account) + Flow(Tail(s), {Chunks}, Account)
    BY <1>5, <1>10, FlowTail
  <2>2. QED  BY <1>3, <1>10, <1>15, <2>1
<1>17. \A F, G : Flow(s \o q, F, G) = Flow(s, F, G) + Flow(q, F, G)
  BY <1>4, <1>5, <1>10, FlowConcat
<1>18. s \o q \in Seq(S)
  BY <1>4, <1>5, <1>10, ConcatProperties
<1>19. r = s \o q
  BY <1>6 DEF s
<1>20. Flow(r, {Chunks}, Account) = t + (b + (p + w))
  <2>1. Flow(r, {Chunks}, Account) = Flow(s, {Chunks}, Account) + Flow(q, {Chunks}, Account)
    BY <1>17, <1>19
  <2>2. Flow(q, {Chunks}, Account) = 0
    BY <1>9
  <2>3. QED  BY <1>1, <1>16, <2>1, <2>2
<1>21. \A G : Flow(r, {Bank}, G) = 0
  <2> SUFFICES ASSUME NEW G
               PROVE  Flow(r, {Bank}, G) = 0
    OBVIOUS
  <2>1. Flow(r, {Bank}, G) = Flow(s, {Bank}, G) + Flow(q, {Bank}, G)
    BY <1>17, <1>19
  <2>2. Flow(s, {Bank}, G) = 0 /\ Flow(q, {Bank}, G) = 0
    BY <1>9, <1>13
  <2>3. QED  BY <2>1, <2>2
<1>22. Flow(r, {Chunks}, Account) \in Nat /\ Flow(r, {Chunks}, Account) <= n
  BY <1>1, <1>20
<1>23. QED  BY <1>4, <1>6, <1>10, <1>18, <1>19, <1>21, <1>22 DEF S, s

(* onchunk announces the chunk and shares out what will then be there. *)
LEMMA OnchunkInv ==
  ASSUME IInv, onchunk
  PROVE  IInv'
<1> DEFINE q == Tail(pending)
           n == Held(Chunks) + IF Emitting THEN ChunkIssue ELSE 0
           r == FourShares(n) \o q
           first == IF Emitting THEN <<Issue(ChunkIssue)>> ELSE <<>>
<1>1. /\ ~Quiet /\ Head(pending).act = "onchunk"
      /\ Continue(ChunkActions(n) \o q)
      /\ UNCHANGED <<ledger, installed, contracts, lucky, vesting, deposits, paid,
                     gifts, resets>>
  BY DEF onchunk, Running
<1>2. State' = State
  BY <1>1 DEF State, ledger
<1>3. /\ q \in Seq(Rest) /\ pending # <<>> /\ \A a \in Account : balance[a][Twig] \in Nat
      /\ \A i \in DOMAIN q : i + 1 \in DOMAIN pending /\ q[i] = pending[i + 1]
  BY <1>1, InlineFacts, RestOfQueue DEF IInv
<1>4. q \in Seq(Called)
  <2> DEFINE t == Tail(pending)
  <2>1. \A i \in 1..Len(t) : t[i] \in Called
    <3> SUFFICES ASSUME NEW i \in 1..Len(t)
                 PROVE  t[i] \in Called
      OBVIOUS
    <3>1. i \in DOMAIN t
      BY <1>3
    <3>2. i + 1 \in DOMAIN pending /\ t[i] = pending[i + 1] /\ i + 1 > 1
      BY <1>3, <3>1
    <3>3. Running("onchunk")
      BY <1>1 DEF Running
    <3>4. QED  BY <3>2, <3>3 DEF IInv, Queue
  <2>2. t \in Seq(Rest)
    BY <1>3
  <2> HIDE DEF t
  <2>3. t = [i \in 1..Len(t) |-> t[i]] /\ Len(t) \in Nat
    BY <2>2
  <2>4. [i \in 1..Len(t) |-> t[i]] \in Seq(Called)
    BY <2>1, <2>3, IsASeq
  <2>5. t \in Seq(Called)
    BY <2>3, <2>4
  <2>6. QED  BY <2>5 DEF t
<1>5. n \in Nat /\ balance[Chunks][Twig] \in Nat /\ ChunkIssue \in Nat
  BY <1>3, Accounts, ChunkType, Constants DEF Held
<1>6. n = balance[Chunks][Twig] + IF Emitting THEN ChunkIssue ELSE 0
  BY DEF Held
<1>7. Continue((first \o FourShares(n)) \o q)
  BY <1>1 DEF ChunkActions, FourShares
<1> HIDE DEF q, n, r, first
<1>8. /\ r \in Seq(Rest) /\ FourShares(n) \in Seq(Rest)
      /\ Flow(r, {Chunks}, Account) \in Nat
      /\ Flow(r, {Chunks}, Account) <= n
      /\ \A G : Flow(r, {Bank}, G) = 0
  BY <1>4, <1>5, SharesFlow DEF r
<1>9. \A G : Flow(pending, {Bank}, G) = 0
  <2> SUFFICES ASSUME NEW G
               PROVE  Flow(pending, {Bank}, G) = 0
    OBVIOUS
  <2>1. Flow(pending, {Bank}, G) = Moved(Head(pending), {Bank}, G) + Flow(q, {Bank}, G)
    BY <1>1, InlineFacts DEF q
  <2>2. Moved(Head(pending), {Bank}, G) = 0
    BY <1>1 DEF Moved
  <2>3. \A i \in DOMAIN q : q[i] \in Called
    BY <1>4
  <2>4. Flow(q, {Bank}, G) = 0
    BY <2>3, Kinds, FlowZero DEF Moved
  <2>5. QED  BY <2>1, <2>2, <2>4
<1>10. Vault(State, pending) /\ (resets = 0 => Books(State, pending) /\ Issued(State, pending))
  BY DEF IInv, Sound
<1>11. ASSUME NEW x, \A G : Flow(x, {Bank}, G) = 0
       PROVE  /\ Vault(State, x)
              /\ resets = 0 /\ BooksEpoch(State, x) = State.lucky.epoch => Books(State, x)
  <2>1. \A a \in Payee \cup {Bank} : /\ State.balance[a][Twig] \in Nat
                                     /\ State.balance[a][Twig] <= State.balance[a][Twig]
    <3>1. \A a \in Payee \cup {Bank} : State.balance[a][Twig] \in Nat
      BY <1>3, Accounts DEF State
    <3>2. QED  BY <3>1
  <2>2. /\ Flow(x, {Bank}, Account) \in Nat /\ Flow(pending, {Bank}, Account) \in Nat
        /\ Flow(x, {Bank}, Account) <= Flow(pending, {Bank}, Account)
    BY <1>9, <1>11
  <2>3. Vault(State, x)
    BY <1>10, <2>1, <2>2, VaultStep
  <2>4. ASSUME resets = 0, BooksEpoch(State, x) = State.lucky.epoch
        PROVE  Books(State, x)
    <3>1. ~Next0(pending, "onepoch")
      BY <1>1 DEF Next0
    <3>2. BooksEpoch(State, x) = BooksEpoch(State, pending)
      BY <2>4, <3>1 DEF BooksEpoch
    <3>3. Books(State, pending) /\ DOMAIN State.vesting \subseteq Payee
      BY <1>10, <2>4 DEF Vault
    <3>4. \A p \in Payee : Flow(x, {Bank}, {p}) = Flow(pending, {Bank}, {p})
      BY <1>9, <1>11
    <3>5. QED  BY <3>2, <3>3, <3>4, BooksStep
  <2>5. QED  BY <2>3, <2>4
<1>12. IssueIsDue(State, pending) <=> Emitting
  BY <1>1, <1>3 DEF IssueIsDue, Next0, Emitting, State
<1>13. balance' = balance /\ contracts' = contracts /\ rngcalls' = rngcalls
  BY <1>1 DEF ledger, contracts
<1>14. CASE ~Emitting
  <2>1. Continue(r)
    <3>1. first = <<>>
      BY <1>14 DEF first
    <3>2. first \o FourShares(n) = FourShares(n)
      BY <1>8, <3>1, ConcatEmptySeq
    <3>3. QED  BY <1>7, <3>2 DEF r
  <2>2. Vault(State, r)
    BY <1>8, <1>11
  <2>3. BooksEpoch(State, r) = State.lucky.epoch /\ ~IssueIsDue(State, r)
    BY <1>8, NoStart
  <2>4. resets = 0 => Books(State, r) /\ Issued(State, r)
    <3>1. resets = 0 => Books(State, r)
      BY <1>8, <1>11, <2>3
    <3>2. resets = 0 => Issued(State, r)
      BY <1>10, <1>12, <1>14, <2>3 DEF Issued
    <3>3. QED  BY <3>1, <3>2
  <2>5. Flow(r, {Chunks}, Account) <= balance'[Chunks][Twig]
    BY <1>5, <1>6, <1>8, <1>13, <1>14
  <2>6. Ledger(State)
    BY DEF IInv, Sound
  <2>7. QED
    BY <1>1, <1>2, <1>8, <2>1, <2>2, <2>4, <2>5, <2>6, RestStep DEF ledger
<1>15. CASE Emitting
  <2> DEFINE e == Issue(ChunkIssue)
             x == <<e>> \o r
  <2>1. Continue(x)
    <3> DEFINE h == <<e>>
    <3>1. first = h
      BY <1>15 DEF first
    <3>2. h \in Seq(Starts \cup Rest) /\ FourShares(n) \in Seq(Starts \cup Rest)
          /\ q \in Seq(Starts \cup Rest)
      <4>1. e \in Starts
        BY DEF Starts
      <4>2. FourShares(n) \in Seq(Starts \cup Rest) /\ q \in Seq(Starts \cup Rest)
        BY <1>3, <1>8, SeqMonotonic DEF q
      <4>3. QED  BY <4>1, <4>2
    <3> HIDE DEF h
    <3>3. (h \o FourShares(n)) \o q = h \o (FourShares(n) \o q)
      BY <3>2, ConcatAssociative
    <3>4. QED  BY <1>7, <3>1, <3>3 DEF r, h
  <2>2. e \in Starts' /\ e.act = "issue"
    BY DEF Starts, Issue
  <2>3. pending' = x
    BY <2>1 DEF Continue
  <2>4. balance'[Chunks][Twig] \in Nat
    BY <1>5, <1>13
  <2>5. Flow(r, {Chunks}, Account)
          <= balance'[Chunks][Twig] + IF e.act = "issue" THEN ChunkIssue ELSE 0
    BY <1>6, <1>8, <1>13, <1>15, <2>2
  <2>6. e.act = "onchunk" => r \in Seq(Called)
    BY <2>2
  <2> HIDE DEF e
  <2>7. /\ Queue' /\ ~Quiet' /\ Head(pending') = e
        /\ \A F, G : Flow(pending', F, G) = Flow(r, F, G)
    BY <1>8, <1>13, <2>2, <2>3, <2>4, <2>5, <2>6, QueueOfStart
  <2>8. \A G : Flow(x, {Bank}, G) = 0
    BY <1>8, <2>3, <2>7
  <2>9. Next0(x, "issue") /\ ~Next0(x, "onepoch")
    BY <2>2, <2>3, <2>7 DEF Next0, Quiet
  <2>10. BooksEpoch(State, x) = State.lucky.epoch /\ IssueIsDue(State, x)
    BY <2>9 DEF BooksEpoch, IssueIsDue
  <2> HIDE DEF x
  <2>11. Vault(State, x) /\ (resets = 0 => Books(State, x))
    BY <1>11, <2>8, <2>10
  <2>12. resets = 0 => Issued(State, x)
    BY <1>10, <1>12, <1>15, <2>10 DEF Issued
  <2>13. Sound(State, pending)'
    BY <1>1, <1>2, <2>3, <2>11, <2>12 DEF IInv, Sound
  <2>14. Transaction'
    BY <1>1, <2>1, TransactionGoesOn DEF IInv
  <2>15. Tables'
    BY <1>1, TablesSame DEF IInv, ledger
  <2>16. QED  BY <2>7, <2>13, <2>14, <2>15 DEF IInv
<1>16. QED  BY <1>14, <1>15

-----------------------------------------------------------------------------
(* The end of an epoch. *)

(* SetToSeq lists every member of a finite set exactly once. *)
LEMMA SeqOfSet ==
  ASSUME NEW S, IsFiniteSet(S)
  PROVE  /\ Cardinality(S) \in Nat
         /\ SetToSeq(S) \in Bijection(1..Cardinality(S), S)
<1> DEFINE n == Cardinality(S)
           f == SetToSeq(S)
<1>1. n \in Nat /\ ExistsBijection(1..n, S)
  BY FS_CardinalityType
<1>2. PICK b \in Bijection(1..n, S) : TRUE
  BY <1>1 DEF ExistsBijection
<1>3. b \in [1..n -> S] /\ IsInjective(b)
  BY <1>2 DEF Bijection, Injection
<1>4. f \in [1..n -> S] /\ IsInjective(f)
  BY <1>3 DEF SetToSeq
<1>5. f \in Injection(1..n, S)
  BY <1>4 DEF Injection
<1>6. IsFiniteSet(1..n) /\ Cardinality(1..n) = n
  BY <1>1, FS_Interval
<1> HIDE DEF f, n
<1>7. Cardinality(1..n) = Cardinality(S)
  BY <1>6 DEF n
<1>8. f \in Surjection(1..n, S)
  BY <1>5, <1>7, FS_Injection
<1>9. QED  BY <1>1, <1>5, <1>8 DEF Bijection, f, n

\* The payouts of a[p] to every p in S.
PayoutsTo(S, a) ==
  LET owed == SetToSeq(S)
  IN  [i \in DOMAIN owed |-> Payout(owed[i], a[owed[i]])]

(* The payouts of what a set of payees is owed. *)
LEMMA PayoutsFlow ==
  ASSUME NEW S \in SUBSET Payee, NEW a, \A p \in S : a[p] \in Nat \ {0}
  PROVE  LET ps == PayoutsTo(S, a)
         IN  /\ ps \in Seq(Rest)
             /\ Flow(ps, {Bank}, Account) = Total(a, S)
             /\ \A p \in S : Flow(ps, {Bank}, {p}) = a[p]
             /\ \A p \in Payee \ S : Flow(ps, {Bank}, {p}) = 0
             /\ \A G : Flow(ps, {Chunks}, G) = 0
<1> DEFINE ps == PayoutsTo(S, a)
           owed == SetToSeq(S)
           n == Cardinality(S)
<1>1. IsFiniteSet(S)
  BY Accounts, FS_Subset
<1>2. n \in Nat /\ owed \in Bijection(1..n, S)
  BY <1>1, SeqOfSet
<1> HIDE DEF owed
<1>3. ps = [i \in DOMAIN owed |-> Payout(owed[i], a[owed[i]])]
  BY DEF owed, PayoutsTo
<1> HIDE DEF ps
<1>4. /\ owed \in [1..n -> S]
      /\ \A i, j \in 1..n : owed[i] = owed[j] => i = j
      /\ \A p \in S : \E i \in 1..n : owed[i] = p
  BY <1>2 DEF Bijection, Injection, Surjection, IsInjective
<1> HIDE DEF n
<1>5. /\ DOMAIN ps = 1..n
      /\ \A i \in 1..n : ps[i] = Payout(owed[i], a[owed[i]]) /\ owed[i] \in S
  BY <1>3, <1>4
<1>6. \A i \in 1..n : /\ ps[i] \in Payouts /\ ps[i].act = "transfer"
                      /\ ps[i].from = Bank /\ ps[i].to = owed[i]
                      /\ ps[i].amount = a[owed[i]] /\ ps[i].amount \in Nat
  BY <1>5 DEF Payout, Transfer, Payouts
<1>7. ps \in Seq(Rest)
  <2>1. \A i \in 1..n : ps[i] \in Rest
    BY <1>6 DEF Rest
  <2>2. [i \in 1..n |-> ps[i]] \in Seq(Rest)
    BY <1>2, <2>1, IsASeq
  <2>3. ps = [i \in 1..n |-> ps[i]]
    BY <1>3, <1>4
  <2>4. QED  BY <2>2, <2>3
<1>8. IsFiniteSet(1..n)
  BY <1>2, FS_Interval
<1>9. Flow(ps, {Bank}, Account) = Total(a, S)
  <2> DEFINE f == [i \in 1..n |-> Moved(ps[i], {Bank}, Account)]
  <2>1. \A i \in 1..n : f[i] = a[owed[i]] /\ f[i] \in Nat
    BY <1>5, <1>6, Accounts DEF Moved
  <2>2. Flow(ps, {Bank}, Account) = Total(f, 1..n)
    BY <1>5 DEF Flow, Sum
  <2> HIDE DEF f
  <2>3. Total(a, S) = Total(f, 1..n)
    BY <1>2, <1>8, <2>1, TotalRename
  <2>4. QED  BY <2>2, <2>3
<1>10. ASSUME NEW p \in S
      PROVE  Flow(ps, {Bank}, {p}) = a[p]
  <2> DEFINE f == [i \in 1..n |-> Moved(ps[i], {Bank}, {p})]
  <2>1. PICK j \in 1..n : owed[j] = p
    BY <1>4
  <2>2. f[j] = a[p] /\ f[j] \in Nat
    BY <1>6, <2>1 DEF Moved
  <2>3. \A i \in (1..n) \ {j} : f[i] = 0
    BY <1>4, <1>6, <2>1 DEF Moved
  <2>4. Flow(ps, {Bank}, {p}) = Total(f, 1..n)
    BY <1>5 DEF Flow, Sum
  <2> HIDE DEF f
  <2>5. Total(f, 1..n) = Total(f, {j})
    <3>1. {j} \in SUBSET (1..n)
      OBVIOUS
    <3>2. QED  BY <2>3, <3>1, TotalOfPart
  <2>6. Total(f, {j}) = f[j]
    BY <2>2, TotalOne
  <2>7. QED  BY <2>2, <2>4, <2>5, <2>6
<1>11. ASSUME NEW p \in Payee \ S
       PROVE  Flow(ps, {Bank}, {p}) = 0
  <2>1. \A i \in DOMAIN ps : Moved(ps[i], {Bank}, {p}) = 0
    BY <1>5, <1>6 DEF Moved
  <2>2. QED  BY <2>1, FlowZero
<1>12. ASSUME NEW G
       PROVE  Flow(ps, {Chunks}, G) = 0
  <2>1. \A i \in DOMAIN ps : Moved(ps[i], {Chunks}, G) = 0
    BY <1>5, <1>6, Accounts DEF Moved
  <2>2. QED  BY <2>1, FlowZero
<1>13. QED  BY <1>7, <1>9, <1>10, <1>11, <1>12 DEF ps

(* What was deposited before an epoch, and in the one before that. *)
LEMMA PastStep ==
  ASSUME NEW s, s.deposits \in [Payee -> [Epoch -> Nat]], NEW p \in Payee,
         NEW e \in Epoch
  PROVE  /\ Past(s, p, e + 1) = Past(s, p, e) + Before(s, p, e)
         /\ Past(s, p, e) \in Nat /\ Before(s, p, e) \in Nat
<1> DEFINE f == s.deposits[p]
           earlier == {d \in Epoch : d < e - 1}
<1>1. f \in [Epoch -> Nat] /\ \A d \in Epoch : f[d] \in Nat /\ d \in Nat /\ d >= 1
  BY EpochBefore
<1>2. e \in Nat /\ e >= 1 /\ (e > 1 => e - 1 \in Epoch)
  BY EpochBefore
<1>3. IsFiniteSet(earlier)
  BY Accounts, FS_Subset
<1>4. \A d \in earlier : f[d] \in Nat
  BY <1>1
<1>5. Total(f, earlier) \in Nat
  <2> HIDE DEF f, earlier
  <2>1. QED  BY <1>3, <1>4, TotalNat
<1>6. Past(s, p, e) = Total(f, earlier)
  BY DEF Past
<1>7. CASE e > 1
  <2>1. {d \in Epoch : d < (e + 1) - 1} = earlier \cup {e - 1}
    <3>1. \A d \in Nat : d < (e + 1) - 1 <=> d < e - 1 \/ d = e - 1
      BY <1>2
    <3>2. \A d \in Epoch : d < (e + 1) - 1 <=> d < e - 1 \/ d = e - 1
      BY <1>1, <3>1
    <3>3. QED  BY ONLY <1>2, <1>7, <3>2
  <2>2. e - 1 \notin earlier /\ f[e - 1] \in Nat
    BY <1>1, <1>2, <1>7
  <2>3. Past(s, p, e + 1) = Total(f, earlier \cup {e - 1})
    BY <2>1 DEF Past
  <2>4. Before(s, p, e) = f[e - 1]
    BY <1>7 DEF Before
  <2> DEFINE x == e - 1
  <2> HIDE DEF f, earlier, x
  <2>5. Total(f, earlier \cup {x}) = Total(f, earlier) + f[x]
    BY <1>3, <1>4, <2>2, TotalAdd DEF x
  <2>6. QED  BY <1>5, <1>6, <2>2, <2>3, <2>4, <2>5 DEF x
<1>8. CASE ~(e > 1)
  <2>1. \A d \in Epoch : ~(d < e - 1) /\ ~(d < (e + 1) - 1)
    BY <1>1, <1>2, <1>8
  <2>2. earlier = {} /\ {d \in Epoch : d < (e + 1) - 1} = {}
    BY <2>1
  <2>3. Past(s, p, e + 1) = Past(s, p, e) /\ Before(s, p, e) = 0
    BY <1>8, <2>2 DEF Past, Before
  <2>4. QED  BY <1>5, <1>6, <2>3
<1>9. QED  BY <1>7, <1>8

(* The bank closes the books of the last epoch, and owes what it owed. *)
LEMMA OnepochVault ==
  ASSUME NEW s, NEW t, NEW q, NEW r, NEW F, NEW epoch \in Epoch,
         Vault(s, q), Ledger(s), F \in SUBSET DOMAIN s.vesting,
         t.vesting = [p \in DOMAIN s.vesting |->
                        IF p \in F THEN Rolled(s.vesting[p], epoch) ELSE s.vesting[p]],
         t.deposits = s.deposits, t.paid = s.paid, t.balance = s.balance,
         Flow(q, {Bank}, Account) \in Nat,
         Flow(r, {Bank}, Account)
           = Total([p \in DOMAIN s.vesting |-> Outstanding(s.vesting[p])], F)
             + Flow(q, {Bank}, Account)
  PROVE  Vault(t, r)
<1> DEFINE D == DOMAIN s.vesting
           out == [p \in D |-> Outstanding(s.vesting[p])]
           o == [p \in D |-> IF p \in F THEN out[p] ELSE 0]
           u == [p \in D |-> Due(s.vesting[p])]
           v == [p \in D |-> Due(t.vesting[p])]
<1>1. /\ IsFiniteSet(D) /\ \A p \in D : Due(s.vesting[p]) \in Nat /\ out[p] \in Nat
      /\ u \in [D -> Nat] /\ RowsDue(s) \in Nat /\ Deposited(s) \in Nat
      /\ PaidOut(s) \in Nat
  BY DueType, HistoryType
<1>2. \A p \in D : /\ s.vesting[p] \in VestingRow
                   /\ s.vesting[p].unvested <= s.vesting[p].unvesting_total
  BY DEF Vault
<1>3. /\ s.balance[Bank][Twig] >= RowsDue(s) + Flow(q, {Bank}, Account)
      /\ s.balance[Bank][Twig] + PaidOut(s) >= Deposited(s)
      /\ s.balance[Bank][Twig] \in 0..AssetMax
  <2>1. s.balance[Bank][Twig] \in 0..s.supply[Twig] /\ s.supply[Twig] \in 0..(MaxSupply - 1)
    BY Accounts, LedgerBounds
  <2>2. s.balance[Bank][Twig] \in 0..AssetMax
    BY <2>1, Constants
  <2>3. QED  BY <2>2 DEF Vault
<1>4. ASSUME NEW p \in D
      PROVE  /\ t.vesting[p] \in VestingRow
             /\ t.vesting[p].unvested <= t.vesting[p].unvesting_total
             /\ v[p] \in Nat /\ o[p] \in Nat /\ u[p] = v[p] + o[p]
  <2> DEFINE row == s.vesting[p]
  <2>1. /\ row \in VestingRow /\ row.unvested <= row.unvesting_total
        /\ row.vested \in Nat /\ row.unvested \in Nat
        /\ row.unvesting_total \in Nat
        /\ u[p] = Due(row) /\ u[p] \in Nat /\ out[p] = Outstanding(row) /\ out[p] \in Nat
        /\ v[p] = Due(t.vesting[p])
    <3>1. row \in VestingRow /\ row.unvested <= row.unvesting_total
      BY <1>2
    <3>2. u[p] = Due(row) /\ out[p] = Outstanding(row) /\ v[p] = Due(t.vesting[p])
      OBVIOUS
    <3>3. u[p] \in Nat /\ out[p] \in Nat
      BY <1>1
    <3> HIDE DEF row, u, v, out
    <3>4. /\ row.vested \in Nat /\ row.unvested \in Nat
          /\ row.unvesting_total \in Nat
      BY <3>1, Constants DEF VestingRow, Amount
    <3>5. QED  BY <3>1, <3>2, <3>3, <3>4
  <2>2. u[p] <= RowsDue(s)
    <3> HIDE DEF u, D
    <3>1. u[p] <= Total(u, D)
      BY <1>1, TotalBound
    <3>2. QED  BY <3>1 DEF RowsDue, u, D
  <2>3. Due(row) = row.vested + Outstanding(row)
    BY DEF Due
  <2>4. row.vested \in Amount
    <3>1. Flow(q, {Bank}, Account) \in Nat
      OBVIOUS
    <3> HIDE DEF u, v, out, o, row
    <3>2. row.vested <= AssetMax
      BY <1>1, <1>3, <2>1, <2>2, <2>3, <3>1, Constants
    <3>3. QED  BY <2>1, <3>2, Constants DEF Amount
  <2>5. CASE p \in F
    <3>1. t.vesting[p] = Rolled(row, epoch) /\ o[p] = out[p]
      BY <2>5
    <3>2. Rolled(row, epoch) \in VestingRow
      BY <2>4 DEF Rolled, VestingRow
    <3>3. /\ Rolled(row, epoch).vested = 0 /\ Rolled(row, epoch).unvested = 0
          /\ Rolled(row, epoch).unvesting_total = row.vested
      BY DEF Rolled
    <3> HIDE DEF u, v, out, o, row
    <3>4. Due(Rolled(row, epoch)) = row.vested
      BY <2>1, <3>3 DEF Due, Outstanding
    <3>5. v[p] = row.vested /\ o[p] = Outstanding(row)
      BY <2>1, <3>1, <3>4
    <3>6. v[p] \in Nat /\ o[p] \in Nat /\ u[p] = v[p] + o[p]
      BY <2>1, <2>3, <3>5
    <3>7. Rolled(row, epoch).unvested <= Rolled(row, epoch).unvesting_total
      BY <2>1, <3>3
    <3>8. QED  BY <3>1, <3>2, <3>6, <3>7
  <2>6. CASE p \notin F
    <3>1. t.vesting[p] = row /\ o[p] = 0
      BY <2>6
    <3>2. v[p] = u[p]
      BY <2>1, <3>1
    <3> HIDE DEF u, v, out, o, row
    <3>3. u[p] = v[p] + o[p]
      BY <2>1, <3>1, <3>2
    <3>4. QED  BY <2>1, <3>1, <3>2, <3>3
  <2>7. QED  BY <2>5, <2>6
<1>5. DOMAIN t.vesting = D /\ D \subseteq Payee
  BY DEF Vault
<1>6. RowsDue(s) = Total(u, D) /\ RowsDue(t) = Total(v, D)
  BY <1>5 DEF RowsDue
<1>7. Total(o, D) = Total(out, F)
  <2>1. \A p \in F : o[p] = out[p]
    OBVIOUS
  <2>2. \A p \in D \ F : o[p] = 0
    OBVIOUS
  <2>3. F \in SUBSET D
    OBVIOUS
  <2> HIDE DEF o, out, D
  <2>4. Total(o, D) = Total(o, F)
    BY <2>2, <2>3, TotalOfPart
  <2>5. Total(o, F) = Total(out, F)
    BY <2>1, TotalAgree
  <2>6. QED  BY <2>4, <2>5
<1>8. Flow(r, {Bank}, Account) = Total(out, F) + Flow(q, {Bank}, Account)
  OBVIOUS
<1> HIDE DEF D, out, o, u, v
<1>9. /\ Total(u, D) = Total(v, D) + Total(o, D)
      /\ Total(v, D) \in Nat /\ Total(o, D) \in Nat
  BY <1>1, <1>4, TotalSum
<1>10. t.balance[Bank][Twig] >= RowsDue(t) + Flow(r, {Bank}, Account)
  BY <1>1, <1>3, <1>6, <1>7, <1>8, <1>9
<1>11. t.balance[Bank][Twig] + PaidOut(t) >= Deposited(t)
  BY <1>3 DEF PaidOut, Deposited, DepositedFor
<1>12. /\ t.deposits \in [Payee -> [Epoch -> Nat]] /\ t.paid \in [Payee -> Nat]
       /\ \A p \in Payee : t.paid[p] <= t.balance[p][Twig]
  BY DEF Vault
<1>13. QED  BY <1>4, <1>5, <1>10, <1>11, <1>12 DEF Vault

\* The end of epoch e leads from s to t, and puts payouts before the queue q.
Closed(s, t, q, r, e) ==
  /\ e \in Epoch /\ e + 1 \in Epoch
  /\ BooksEpoch(s, q) = e /\ BooksEpoch(t, r) = e + 1
  /\ t.vesting = [p \in DOMAIN s.vesting |-> Rolled(s.vesting[p], e + 1)]
  /\ t.deposits = s.deposits /\ t.paid = s.paid
  /\ \A p \in Payee : Flow(q, {Bank}, {p}) \in Nat
  /\ \A p \in DOMAIN s.vesting :
       Flow(r, {Bank}, {p}) = Outstanding(s.vesting[p]) + Flow(q, {Bank}, {p})
  /\ \A p \in Payee \ DOMAIN s.vesting :
       Flow(r, {Bank}, {p}) = Flow(q, {Bank}, {p})

(* The books of the next epoch are right when those of the last one were. *)
LEMMA OnepochBooks ==
  ASSUME NEW s, NEW t, NEW q, NEW r, NEW e,
         Vault(s, q), Books(s, q), Closed(s, t, q, r, e)
  PROVE  Books(t, r)
<1> DEFINE e1 == e + 1
<1>1. /\ e \in Epoch /\ e1 \in Epoch
      /\ BooksEpoch(s, q) = e /\ BooksEpoch(t, r) = e1
      /\ t.vesting = [p \in DOMAIN s.vesting |-> Rolled(s.vesting[p], e1)]
      /\ t.deposits = s.deposits /\ t.paid = s.paid
      /\ \A p \in Payee : Flow(q, {Bank}, {p}) \in Nat
      /\ \A p \in DOMAIN s.vesting :
           Flow(r, {Bank}, {p}) = Outstanding(s.vesting[p]) + Flow(q, {Bank}, {p})
      /\ \A p \in Payee \ DOMAIN s.vesting :
           Flow(r, {Bank}, {p}) = Flow(q, {Bank}, {p})
  BY DEF Closed
<1> USE <1>1
<1>2. /\ s.deposits \in [Payee -> [Epoch -> Nat]] /\ s.paid \in [Payee -> Nat]
      /\ DOMAIN s.vesting \subseteq Payee
  BY DEF Vault
<1>3. e \in Nat /\ e >= 1 /\ e1 > 1 /\ e1 - 1 = e /\ e1 = e + 1
  BY EpochBefore
<1> HIDE DEF e1
<1>4. /\ \A y \in DOMAIN s.vesting :
           LET own == s.vesting[y]
           IN  /\ own.epoch = e
               /\ own.vested = s.deposits[y][e]
               /\ own.unvesting_total = Before(s, y, e)
               /\ s.paid[y] + Flow(q, {Bank}, {y}) = own.unvested + Past(s, y, e)
      /\ \A y \in Payee \ DOMAIN s.vesting :
           /\ \A d \in Epoch : s.deposits[y][d] = 0
           /\ s.paid[y] + Flow(q, {Bank}, {y}) = 0
      /\ \A y \in Payee, d \in Epoch : d > e => s.deposits[y][d] = 0
  BY DEF Books
<1>5. DOMAIN t.vesting = DOMAIN s.vesting
  OBVIOUS
<1>6. ASSUME NEW y \in DOMAIN t.vesting
      PROVE  LET own == t.vesting[y]
             IN  /\ own.epoch = e1
                 /\ own.vested = t.deposits[y][e1]
                 /\ own.unvesting_total = Before(t, y, e1)
                 /\ t.paid[y] + Flow(r, {Bank}, {y}) = own.unvested + Past(t, y, e1)
  <2> DEFINE old == s.vesting[y]
  <2>1. /\ y \in Payee /\ y \in DOMAIN s.vesting
        /\ s.deposits[y] \in [Epoch -> Nat] /\ s.paid[y] \in Nat
    BY <1>2, <1>5
  <2>2. /\ old.vested = s.deposits[y][e]
        /\ old.unvesting_total = Before(s, y, e)
        /\ s.paid[y] + Flow(q, {Bank}, {y}) = old.unvested + Past(s, y, e)
    BY <1>4, <2>1
  <2>3. /\ old.unvested \in Nat /\ old.unvesting_total \in Nat
        /\ old.unvested <= old.unvesting_total
    BY <2>1, Constants DEF Vault, VestingRow, Amount
  <2>4. /\ Past(s, y, e + 1) = Past(s, y, e) + Before(s, y, e)
        /\ Past(s, y, e) \in Nat /\ Before(s, y, e) \in Nat
    BY <1>2, <2>1, PastStep
  <2>5. /\ Past(t, y, e1) = Past(s, y, e + 1)
        /\ Before(t, y, e1) = s.deposits[y][e]
    BY <1>3 DEF Past, Before
  <2>6. /\ Flow(r, {Bank}, {y}) = Outstanding(old) + Flow(q, {Bank}, {y})
        /\ Flow(q, {Bank}, {y}) \in Nat
    BY <2>1
  <2>7. s.deposits[y][e1] = 0
    BY <1>3, <1>4, <2>1
  <2>8. t.vesting[y] = Rolled(old, e1)
    BY <2>1
  <2>9. /\ t.vesting[y].epoch = e1 /\ t.vesting[y].vested = 0
        /\ t.vesting[y].unvesting_total = old.vested /\ t.vesting[y].unvested = 0
    BY <2>8 DEF Rolled
  <2>10. t.paid[y] = s.paid[y] /\ t.deposits[y] = s.deposits[y]
    OBVIOUS
  <2> HIDE DEF old
  <2>11. s.paid[y] + Flow(r, {Bank}, {y}) = 0 + Past(s, y, e + 1)
    <3>1. Outstanding(old) = old.unvesting_total - old.unvested /\ s.paid[y] \in Nat
      BY <2>1 DEF Outstanding
    <3>2. QED  BY ONLY <2>2, <2>3, <2>4, <2>6, <3>1
  <2>12. QED  BY ONLY <2>2, <2>5, <2>7, <2>9, <2>10, <2>11
<1>7. ASSUME NEW y \in Payee \ DOMAIN t.vesting
      PROVE  /\ \A d \in Epoch : t.deposits[y][d] = 0
             /\ t.paid[y] + Flow(r, {Bank}, {y}) = 0
  <2>1. y \in Payee \ DOMAIN s.vesting
    BY <1>5
  <2>2. Flow(r, {Bank}, {y}) = Flow(q, {Bank}, {y})
    BY <2>1
  <2>3. /\ \A d \in Epoch : s.deposits[y][d] = 0
        /\ s.paid[y] + Flow(q, {Bank}, {y}) = 0
    BY <1>4, <2>1
  <2>4. QED  BY <2>2, <2>3
<1>8. ASSUME NEW y \in Payee, NEW d \in Epoch, d > e1
      PROVE  t.deposits[y][d] = 0
  <2>1. d \in Nat
    BY EpochBefore
  <2>2. d > e
    BY ONLY <1>3, <1>8, <2>1
  <2>3. QED  BY <1>4, <2>2
<1>9. QED  BY ONLY <1>1, <1>6, <1>7, <1>8 DEF Books

(* The bank closes the books of an epoch. *)
LEMMA OnepochInv ==
  ASSUME IInv, onepoch
  PROVE  IInv'
<1> DEFINE q == Tail(pending)
           epoch == Head(pending).epoch
           D == DOMAIN vesting
           F == Finished(epoch)
           out == [p \in D |-> Outstanding(vesting[p])]
           S == {p \in F : Outstanding(vesting[p]) > 0}
           owed == SetToSeq(S)
           ps == [i \in DOMAIN owed |-> Payout(owed[i], Outstanding(vesting[owed[i]]))]
           r == ps \o q
<1>1. /\ ~Quiet /\ Head(pending).act = "onepoch" /\ lucky.epoch = epoch
      /\ Continue(r)
      /\ vesting' = [p \in DOMAIN vesting |-> IF p \in F THEN Rolled(vesting[p], epoch)
                                              ELSE vesting[p]]
      /\ UNCHANGED <<ledger, installed, contracts, lucky, deposits, paid, gifts,
                     resets>>
  BY DEF onepoch, Running, CanOnepoch
<1>2. q \in Seq(Rest) /\ pending # <<>> /\ \A a \in Account : balance[a][Twig] \in Nat
  BY <1>1, InlineFacts
<1>3. \A G, H : /\ Flow(pending, G, H) = Flow(q, G, H) /\ Flow(q, G, H) \in Nat
  <2> SUFFICES ASSUME NEW G, NEW H
               PROVE  Flow(pending, G, H) = Flow(q, G, H) /\ Flow(q, G, H) \in Nat
    OBVIOUS
  <2>1. /\ Flow(pending, G, H) = Moved(Head(pending), G, H) + Flow(q, G, H)
        /\ Flow(q, G, H) \in Nat
    BY <1>1, InlineFacts
  <2>2. Moved(Head(pending), G, H) = 0
    BY <1>1 DEF Moved
  <2>3. QED  BY <2>1, <2>2
<1>4. /\ Vault(State, pending) /\ Ledger(State) /\ lucky.epoch \in Epoch
      /\ resets = 0 => Books(State, pending) /\ Issued(State, pending)
  BY DEF IInv, Sound, Lottery, State
<1>5. /\ F \in SUBSET D /\ S \in SUBSET F /\ D \subseteq Payee
      /\ \A p \in D : out[p] \in Nat /\ out[p] = Outstanding(vesting[p])
      /\ \A p \in S : out[p] \in Nat \ {0}
      /\ \A p \in F \ S : out[p] = 0
  <2>1. D \subseteq Payee
    BY <1>4 DEF Vault, State
  <2>2. F \in SUBSET D
    BY DEF Finished
  <2>3. \A p \in D : out[p] \in Nat /\ out[p] = Outstanding(vesting[p])
    BY <1>4, DueType DEF State
  <2>4. QED
    <3> HIDE DEF F
    <3>1. QED  BY <2>1, <2>2, <2>3
<1>6. Rest' = Rest
  BY <1>1 DEF Rest, Called, Active, contracts
<1> HIDE DEF F, epoch
<1>7. /\ ps \in Seq(Rest)
      /\ Flow(ps, {Bank}, Account) = Total(out, S)
      /\ \A p \in S : Flow(ps, {Bank}, {p}) = out[p]
      /\ \A p \in Payee \ S : Flow(ps, {Bank}, {p}) = 0
      /\ \A G : Flow(ps, {Chunks}, G) = 0
  <2> DEFINE ps1 == [i \in DOMAIN owed |-> Payout(owed[i], out[owed[i]])]
  <2>1. IsFiniteSet(S) /\ S \in SUBSET Payee
    <3>1. S \subseteq Payee
      BY <1>5
    <3>2. QED  BY <3>1, Accounts, FS_Subset
  <2>2. \A i \in DOMAIN owed : owed[i] \in S
    <3> HIDE DEF S
    <3>1. owed \in Bijection(1..Cardinality(S), S)
      BY <2>1, SeqOfSet
    <3>2. QED  BY <3>1 DEF Bijection, Injection
  <2>3. \A i \in DOMAIN owed : out[owed[i]] = Outstanding(vesting[owed[i]])
    BY <1>5, <2>2
  <2> HIDE DEF out, S
  <2>4. ps = ps1
    BY <2>3
  <2>5. ps1 = PayoutsTo(S, out)
    BY DEF PayoutsTo
  <2> HIDE DEF owed, ps, ps1
  <2> DEFINE ps2 == PayoutsTo(S, out)
  <2>6. ps = ps2
    BY <2>4, <2>5
  <2>7. /\ ps2 \in Seq(Rest)
        /\ Flow(ps2, {Bank}, Account) = Total(out, S)
        /\ \A p \in S : Flow(ps2, {Bank}, {p}) = out[p]
        /\ \A p \in Payee \ S : Flow(ps2, {Bank}, {p}) = 0
        /\ \A G : Flow(ps2, {Chunks}, G) = 0
    <3> HIDE DEF ps2
    <3>1. QED  BY <1>5, <2>1, PayoutsFlow DEF ps2
  <2>8. QED  BY <2>6, <2>7
<1>8. Total(out, S) = Total(out, F)
  <2> HIDE DEF out, S
  <2>1. QED  BY <1>5, TotalOfPart
<1>9. Total(out, F) \in Nat
  <2> HIDE DEF out, D
  <2>1. IsFiniteSet(F) /\ \A p \in F : out[p] \in Nat
    BY <1>5, Accounts, FS_Subset
  <2>2. QED  BY <2>1, TotalNat
<1> HIDE DEF ps, q
<1>10. /\ r \in Seq(Rest)
       /\ \A G, H : Flow(r, G, H) = Flow(ps, G, H) + Flow(q, G, H)
  <2> SUFFICES ASSUME NEW G, NEW H
               PROVE  r \in Seq(Rest) /\ Flow(r, G, H) = Flow(ps, G, H) + Flow(q, G, H)
    OBVIOUS
  <2>1. Amounts(Rest)
    BY Kinds
  <2>2. QED  BY <1>2, <1>7, <2>1, FlowConcat
<1> HIDE DEF r
<1> DEFINE s == State
           t == State'
<1>11. /\ s.vesting = vesting /\ s.deposits = deposits /\ s.paid = paid
       /\ s.balance = balance /\ s.lucky = lucky /\ s.supply = supply
       /\ t.vesting = vesting' /\ t.deposits = deposits /\ t.paid = paid
       /\ t.balance = balance /\ t.lucky = lucky /\ t.supply = supply
       /\ t.rows = s.rows /\ balance' = balance
  BY <1>1 DEF State, ledger
<1>12. /\ Vault(s, pending) /\ Ledger(s)
       /\ resets = 0 => Books(s, pending) /\ Issued(s, pending)
  BY <1>4
<1> HIDE DEF s, t, S, owed
<1>13. Flow(r, {Bank}, Account) = Total(out, F) + Flow(pending, {Bank}, Account)
  BY <1>3, <1>7, <1>8, <1>10
<1>14. epoch \in Epoch
  BY <1>1, <1>4
<1>15. Vault(t, r)
  <2>1. t.vesting = [p \in DOMAIN s.vesting |->
                       IF p \in F THEN Rolled(s.vesting[p], epoch) ELSE s.vesting[p]]
    BY <1>1, <1>11
  <2>2. F \in SUBSET DOMAIN s.vesting
    BY <1>5, <1>11
  <2>3. t.deposits = s.deposits /\ t.paid = s.paid /\ t.balance = s.balance
    BY <1>11
  <2>4. /\ Flow(r, {Bank}, Account)
             = Total([p \in DOMAIN s.vesting |-> Outstanding(s.vesting[p])], F)
               + Flow(pending, {Bank}, Account)
        /\ Flow(pending, {Bank}, Account) \in Nat
    BY <1>3, <1>11, <1>13
  <2>5. QED  BY ONLY <1>12, <1>14, <2>1, <2>2, <2>3, <2>4, OnepochVault
<1>16. BooksEpoch(t, r) = epoch /\ ~IssueIsDue(t, r)
  BY <1>1, <1>10, <1>11, NoStart
<1>17. ASSUME resets = 0
       PROVE  Books(t, r) /\ Issued(t, r)
  <2> DEFINE e == epoch - 1
  <2>1. Books(s, pending) /\ Issued(s, pending)
    BY <1>12, <1>17
  <2>2. BooksEpoch(s, pending) = e /\ ~IssueIsDue(s, pending)
    BY <1>1, <1>2, <1>11 DEF BooksEpoch, Next0, IssueIsDue, epoch
  <2>3. e \in Epoch
    BY <2>1, <2>2 DEF Books
  <2>4. epoch = e + 1
    BY <1>14, EpochBefore
  <2>5. \A p \in DOMAIN s.vesting : s.vesting[p].epoch = e
    BY <2>1, <2>2 DEF Books
  <2>6. F = DOMAIN s.vesting
    BY <1>11, <2>4, <2>5 DEF F, Finished
  <2>7. t.vesting = [p \in DOMAIN s.vesting |-> Rolled(s.vesting[p], epoch)]
    BY <1>1, <1>11, <2>6
  <2>8. /\ \A p \in Payee : Flow(pending, {Bank}, {p}) \in Nat
        /\ t.deposits = s.deposits /\ t.paid = s.paid
    BY <1>3, <1>11
  <2>9. \A p \in DOMAIN s.vesting :
          Flow(r, {Bank}, {p}) = Outstanding(s.vesting[p]) + Flow(pending, {Bank}, {p})
    <3> SUFFICES ASSUME NEW p \in DOMAIN s.vesting
                 PROVE  Flow(r, {Bank}, {p})
                          = Outstanding(s.vesting[p]) + Flow(pending, {Bank}, {p})
      OBVIOUS
    <3>1. p \in Payee /\ out[p] = Outstanding(s.vesting[p]) /\ p \in F
      BY <1>5, <1>11, <2>6
    <3>2. Flow(ps, {Bank}, {p}) = out[p]
      BY <1>5, <1>7, <3>1
    <3>3. QED  BY <1>3, <1>10, <3>1, <3>2
  <2>10. \A p \in Payee \ DOMAIN s.vesting :
           Flow(r, {Bank}, {p}) = Flow(pending, {Bank}, {p})
    <3> SUFFICES ASSUME NEW p \in Payee \ DOMAIN s.vesting
                 PROVE  Flow(r, {Bank}, {p}) = Flow(pending, {Bank}, {p})
      OBVIOUS
    <3>1. p \notin S
      BY <1>5, <2>6
    <3>2. Flow(ps, {Bank}, {p}) = 0
      BY <1>7, <3>1
    <3>3. Flow(r, {Bank}, {p}) = Flow(ps, {Bank}, {p}) + Flow(q, {Bank}, {p})
      BY <1>10
    <3>4. Flow(pending, {Bank}, {p}) = Flow(q, {Bank}, {p}) /\ Flow(q, {Bank}, {p}) \in Nat
      BY <1>3
    <3>5. QED  BY <3>2, <3>3, <3>4
  <2> HIDE DEF e
  <2>11. Books(t, r)
    <3>1. Closed(s, t, pending, r, e)
      BY ONLY <1>14, <1>16, <2>2, <2>3, <2>4, <2>7, <2>8, <2>9, <2>10 DEF Closed
    <3>2. QED  BY <1>12, <2>1, <3>1, OnepochBooks
  <2>12. Issued(t, r)
    BY <1>11, <1>16, <2>1, <2>2 DEF Issued
  <2>13. QED  BY <2>11, <2>12
<1>18. Flow(r, {Chunks}, Account) <= balance'[Chunks][Twig]
  <2>1. ~Running("issue")
    BY <1>1 DEF Running
  <2>2. Flow(pending, {Chunks}, Account) <= balance[Chunks][Twig] + 0
    BY <2>1 DEF IInv, Queue, Held
  <2>3. balance[Chunks][Twig] \in Nat
    BY <1>2, Accounts
  <2>4. Flow(r, {Chunks}, Account) = Flow(ps, {Chunks}, Account) + Flow(q, {Chunks}, Account)
    BY <1>10
  <2>5. Flow(ps, {Chunks}, Account) = 0
    BY <1>7
  <2>6. /\ Flow(pending, {Chunks}, Account) = Flow(q, {Chunks}, Account)
        /\ Flow(q, {Chunks}, Account) \in Nat
    BY <1>3
  <2>7. QED  BY <1>11, <2>2, <2>3, <2>4, <2>5, <2>6
<1>19. Ledger(t)
  BY <1>11, <1>12 DEF Ledger
<1>20. QED
  BY <1>1, <1>10, <1>15, <1>17, <1>18, <1>19, RestStep DEF t, ledger

-----------------------------------------------------------------------------
(* The end of the block. *)

(* Nothing is sent by an empty queue. *)
LEMMA EmptyQueue ==
  /\ \A F, G : Flow(<<>>, F, G) = 0
  /\ \A s : BooksEpoch(s, <<>>) = s.lucky.epoch /\ ~IssueIsDue(s, <<>>)
<1>1. \A F, G : Flow(<<>>, F, G) = 0
  BY FlowZero
<1>2. QED  BY <1>1 DEF BooksEpoch, IssueIsDue, Next0

(* The queue of a quiet state. *)
LEMMA QuietQueue ==
  ASSUME pending' = <<>>, balance'[Chunks][Twig] \in Nat
  PROVE  Queue' /\ Transaction'
<1>1. Quiet'
  BY DEF Quiet
<1>2. Flow(pending', {Chunks}, Account) = 0
  BY EmptyQueue
<1>3. pending' \in Seq((Starts \cup Rest)') /\ DOMAIN pending' = {}
  OBVIOUS
<1>4. QED  BY <1>1, <1>2, <1>3 DEF Queue, Transaction, Running, Held

(* An abort leads back to the state before the block. *)
LEMMA AbortInv ==
  ASSUME IInv, Abort
  PROVE  IInv'
<1>1. ~Quiet
  BY DEF Abort, HeadFails, Running
<1>2. Sound(saved, <<>>)
  BY <1>1 DEF IInv, Transaction
<1>3. /\ pending' = <<>>
      /\ UNCHANGED <<configured, max_supply, installed, contracts, gifts, resets>>
  BY DEF Abort, Continue
<1> DEFINE s == saved
           t == State'
<1>4. /\ t.supply = s.supply /\ t.rows = s.rows /\ t.balance = s.balance
      /\ t.lucky = s.lucky /\ t.vesting = s.vesting
      /\ t.deposits = s.deposits /\ t.paid = s.paid
      /\ t.balance = balance'
  BY DEF Abort, LuckyBefore, State
<1>5. Sound(s, <<>>)
  BY <1>2
<1> HIDE DEF s, t
<1>6. Lottery(t) /\ Ledger(t)
  BY <1>4, <1>5 DEF Sound, Lottery, Ledger
<1>7. Vault(t, <<>>)
  <2>1. RowsDue(t) = RowsDue(s) /\ Deposited(t) = Deposited(s) /\ PaidOut(t) = PaidOut(s)
    BY <1>4 DEF RowsDue, Deposited, DepositedFor, PaidOut
  <2>2. Vault(s, <<>>)
    BY <1>5 DEF Sound
  <2>3. QED  BY <1>4, <2>1, <2>2 DEF Vault
<1>8. resets = 0 => Books(t, <<>>) /\ Issued(t, <<>>)
  <2> SUFFICES ASSUME resets = 0
               PROVE  Books(t, <<>>) /\ Issued(t, <<>>)
    OBVIOUS
  <2>1. Books(s, <<>>) /\ Issued(s, <<>>) /\ Vault(s, <<>>)
    BY <1>5 DEF Sound
  <2>2. BooksEpoch(t, <<>>) = BooksEpoch(s, <<>>)
    BY <1>4, EmptyQueue
  <2>3. DOMAIN s.vesting \subseteq Payee
    BY <2>1 DEF Vault
  <2>4. Books(t, <<>>)
    BY <1>4, <2>1, <2>2, <2>3, BooksStep
  <2>5. Issued(t, <<>>)
    BY <1>4, <2>1, EmptyQueue DEF Issued
  <2>6. QED  BY <2>4, <2>5
<1>9. Sound(State, pending)'
  BY <1>3, <1>6, <1>7, <1>8 DEF Sound, t
<1>10. balance'[Chunks][Twig] \in Nat
  BY <1>4, <1>6, Accounts, Constants DEF Ledger
<1>11. Tables'
  BY <1>3, TablesSame DEF IInv
<1>12. Queue' /\ Transaction'
  BY <1>3, <1>10, QuietQueue
<1>13. QED  BY <1>9, <1>11, <1>12 DEF IInv

(* A step between blocks that leaves the token and the books alone, or that starts *)
(* another count of resets.                                                       *)
LEMMA QuietStep ==
  ASSUME IInv, Quiet, pending' = pending, Lottery(State'), Ledger(State'),
         Vault(State', <<>>), resets' = 0 => Books(State', <<>>) /\ Issued(State', <<>>),
         Tables'
  PROVE  IInv'
<1>1. pending' = <<>>
  BY DEF Quiet
<1>2. balance'[Chunks][Twig] \in Nat
  BY Accounts, Constants DEF Ledger, State
<1>3. Queue' /\ Transaction'
  BY <1>1, <1>2, QuietQueue
<1>4. Sound(State, pending)'
  BY <1>1 DEF Sound
<1>5. QED  BY <1>3, <1>4 DEF IInv

(* The tables of the system contract. *)
LEMMA RngcallsInv ==
  ASSUME IInv, NEW index \in Index,
         \/ \E contract \in Callee : setrngcall(index, contract)
         \/ \E active \in BOOLEAN : modrngcall(index, active)
         \/ rmvrngcall(index)
  PROVE  IInv'
<1>1. /\ Quiet /\ UNCHANGED <<refusing, ledger, installed, lucky, vesting, pending, saved,
                              deposits, paid, gifts, resets>>
  BY DEF setrngcall, modrngcall, rmvrngcall, OnlyRngcalls
<1>2. /\ DOMAIN rngcalls \in SUBSET Index /\ IsFiniteSet(DOMAIN rngcalls)
      /\ \A i \in DOMAIN rngcalls : rngcalls[i] \in [contract : Callee, active : BOOLEAN]
  BY DEF IInv, Tables
<1>3. /\ DOMAIN rngcalls' \in SUBSET Index /\ IsFiniteSet(DOMAIN rngcalls')
      /\ \A i \in DOMAIN rngcalls' : rngcalls'[i] \in [contract : Callee, active : BOOLEAN]
  <2>1. IsFiniteSet(DOMAIN rngcalls \cup {index}) /\ IsFiniteSet(DOMAIN rngcalls \ {index})
    BY <1>2, FS_AddElement, FS_RemoveElement
  <2>2. CASE \E contract \in Callee : setrngcall(index, contract)
    BY <1>2, <2>1, <2>2 DEF setrngcall, PutRngcall
  <2>3. CASE \E active \in BOOLEAN : modrngcall(index, active)
    BY <1>2, <2>1, <2>3 DEF modrngcall, PutRngcall
  <2>4. CASE rmvrngcall(index)
    BY <1>2, <2>1, <2>4 DEF rmvrngcall
  <2>5. QED  BY <2>2, <2>3, <2>4
<1>4. Tables'
  BY <1>1, <1>3 DEF IInv, Tables, ledger
<1>5. State' = State /\ resets' = resets
  BY <1>1 DEF State, ledger
<1>6. Sound(State, <<>>)
  BY <1>1 DEF IInv, Quiet
<1>7. QED  BY <1>1, <1>4, <1>5, <1>6, QuietStep DEF Sound

(* The books and the lottery follow what a step leaves alone. *)
LEMMA SameBooks ==
  ASSUME IInv, Quiet, UNCHANGED <<supply, lucky, vesting, deposits, paid>>
  PROVE  /\ Lottery(State')
         /\ resets = 0 => Books(State', <<>>) /\ Issued(State', <<>>)
<1> DEFINE s == State
           t == State'
<1>1. /\ t.supply = s.supply /\ t.lucky = s.lucky /\ t.vesting = s.vesting
      /\ t.deposits = s.deposits /\ t.paid = s.paid
  BY DEF State
<1>2. Sound(s, <<>>)
  BY DEF IInv, Quiet
<1> HIDE DEF s, t
<1>3. Lottery(t)
  BY <1>1, <1>2 DEF Sound, Lottery
<1>4. ASSUME resets = 0
      PROVE  Books(t, <<>>) /\ Issued(t, <<>>)
  <2>1. Books(s, <<>>) /\ Issued(s, <<>>) /\ DOMAIN s.vesting \subseteq Payee
    BY <1>2, <1>4 DEF Sound, Vault
  <2>2. BooksEpoch(t, <<>>) = BooksEpoch(s, <<>>)
    BY <1>1, EmptyQueue
  <2>3. Books(t, <<>>)
    BY <1>1, <2>1, <2>2, BooksStep
  <2>4. Issued(t, <<>>)
    BY <1>1, <2>1, EmptyQueue DEF Issued
  <2>5. QED  BY <2>3, <2>4
<1>5. QED  BY <1>3, <1>4 DEF t

(* What the accounts of the bank and of the payees gain does not hurt the bank. *)
LEMMA SameVault ==
  ASSUME IInv, Quiet, UNCHANGED <<vesting, deposits, paid>>,
         \A a \in Payee \cup {Bank} :
           /\ balance[a][Twig] \in Nat /\ balance'[a][Twig] \in Nat
           /\ balance[a][Twig] <= balance'[a][Twig]
  PROVE  Vault(State', <<>>)
<1> DEFINE s == State
           t == State'
<1>1. /\ t.vesting = s.vesting /\ t.deposits = s.deposits /\ t.paid = s.paid
      /\ s.balance = balance /\ t.balance = balance'
  BY DEF State
<1>2. Vault(s, <<>>)
  BY DEF IInv, Quiet, Sound
<1> HIDE DEF s, t
<1> DEFINE none == <<>>
<1>3. Flow(none, {Bank}, Account) \in Nat /\ Vault(s, none)
  BY <1>2, EmptyQueue
<1> HIDE DEF none
<1>4. Flow(none, {Bank}, Account) <= Flow(none, {Bank}, Account)
  BY <1>3
<1>5. Vault(t, none)
  BY <1>1, <1>3, <1>4, VaultStep
<1>6. QED  BY <1>5 DEF t, none

(* Tokens that are sent to the chunks account or to the bank. *)
LEMMA GiftInv ==
  ASSUME IInv, NEW from \in {User, World}, NEW to \in {Chunks, Bank}, NEW n \in Gifts,
         gift(from, to, n)
  PROVE  IInv'
<1>1. /\ Quiet /\ gifts < MaxGifts /\ gifts' = gifts + 1
      /\ T!transfer(from, to, One(n))
      /\ UNCHANGED <<installed, contracts, lucky, vesting, pending, saved, deposits,
                     paid, resets>>
  BY DEF gift
<1>2. Ledger(State) /\ Tables
  BY DEF IInv, Sound
<1>3. n \in Nat /\ from \in Account /\ to \in Account /\ from \notin Payee \cup {Bank}
  BY EmissionAssumption, Constants, Accounts
<1>4. /\ balance'[to][Twig] = balance[to][Twig] + n
      /\ \A a \in Account \ {from, to} : balance'[a][Twig] = balance[a][Twig]
      /\ supply' = supply /\ configured' = configured /\ max_supply' = max_supply
      /\ Ledger(State)'
  BY <1>1, <1>2, <1>3, TransferEffect
<1>5. \A a \in Account : balance[a][Twig] \in Nat /\ balance'[a][Twig] \in Nat
  BY <1>2, <1>4, Constants DEF Ledger, State
<1>6. \A a \in Payee \cup {Bank} : a \in Account \ {from}
  BY <1>3, Accounts
<1>7. ASSUME NEW a \in Payee \cup {Bank}
      PROVE  balance[a][Twig] <= balance'[a][Twig]
  <2>1. CASE a = to
    BY <1>3, <1>4, <1>5, <2>1
  <2>2. CASE a # to
    BY <1>4, <1>5, <1>6, <2>2
  <2>3. QED  BY <2>1, <2>2
<1>8. Vault(State', <<>>)
  BY <1>1, <1>5, <1>6, <1>7, SameVault
<1>9. Lottery(State') /\ (resets = 0 => Books(State', <<>>) /\ Issued(State', <<>>))
  BY <1>1, <1>4, SameBooks
<1>10. Tables'
  BY <1>1, <1>2, <1>4, Constants DEF Tables, contracts
<1>11. pending' = pending /\ resets' = resets /\ Ledger(State')
  BY <1>1, <1>4
<1>12. QED  BY <1>1, <1>8, <1>9, <1>10, <1>11, QuietStep

(* The row of the chunks account opens or closes. *)
LEMMA RowInv ==
  ASSUME IInv, open \/ close
  PROVE  IInv'
<1>1. /\ Quiet /\ (T!open(Chunks) \/ T!close(Chunks))
      /\ UNCHANGED <<installed, contracts, lucky, vesting, pending, saved, deposits,
                     paid, gifts, resets>>
  BY DEF open, close
<1>2. Ledger(State) /\ Tables
  BY DEF IInv, Sound
<1>3. UNCHANGED <<configured, supply, max_supply, balance>> /\ Ledger(State)'
  BY <1>1, <1>2, RowEffect
<1>4. \A a \in Account : balance[a][Twig] \in Nat
  BY <1>2, Constants DEF Ledger, State
<1>5. ASSUME NEW a \in Payee \cup {Bank}
      PROVE  /\ balance[a][Twig] \in Nat /\ balance'[a][Twig] \in Nat
             /\ balance[a][Twig] <= balance'[a][Twig]
  <2>1. balance[a][Twig] \in Nat /\ balance'[a][Twig] = balance[a][Twig]
    BY <1>3, <1>4, Accounts
  <2>2. QED  BY <2>1
<1>6. Vault(State', <<>>)
  BY <1>1, <1>5, SameVault
<1>7. Lottery(State') /\ (resets = 0 => Books(State', <<>>) /\ Issued(State', <<>>))
  BY <1>1, <1>3, SameBooks
<1>8. Tables'
  BY <1>1, <1>2, <1>3, TablesSame
<1>9. pending' = pending /\ resets' = resets /\ Ledger(State')
  BY <1>1, <1>3
<1>10. QED  BY <1>1, <1>6, <1>7, <1>8, <1>9, QuietStep

(* A payee changes its contract. *)
LEMMA ChangecontractInv ==
  ASSUME IInv, NEW payee \in Moody, changecontract(payee)
  PROVE  IInv'
<1>1. /\ Quiet
      /\ UNCHANGED <<ledger, installed, rngcalls, lucky, vesting, pending, saved,
                     deposits, paid, gifts, resets>>
  BY DEF changecontract
<1>2. State' = State
  BY <1>1 DEF State, ledger
<1>3. Sound(State, <<>>) /\ Tables
  BY <1>1 DEF IInv, Quiet
<1>4. refusing' \in SUBSET Moody
  BY <1>3 DEF changecontract, Tables
<1>5. Tables'
  BY <1>1, <1>3, <1>4 DEF Tables, ledger
<1>6. QED  BY <1>1, <1>2, <1>3, <1>5, QuietStep DEF Sound

(* The administrator resets the lottery, or deletes the books: the bank still can *)
(* pay, and nothing more is claimed.                                              *)
LEMMA ResetInv ==
  ASSUME IInv, cleanup \/ \E destruct \in BOOLEAN : init(destruct)
  PROVE  IInv'
<1>1. /\ Quiet /\ resets < MaxResets /\ resets' = resets + 1
      /\ UNCHANGED <<ledger, contracts, pending, saved, deposits, paid, gifts>>
      /\ installed' \in BOOLEAN
  BY DEF cleanup, init, IInv, Tables
<1>2. Sound(State, <<>>) /\ Tables
  BY <1>1 DEF IInv, Quiet
<1>3. Tables' /\ resets' # 0
  BY <1>1, <1>2, Constants DEF Tables, ledger, contracts
<1>4. Lottery(State')
  <2>1. CASE lucky' = lucky
    BY <1>2, <2>1 DEF Sound, Lottery, State
  <2>2. CASE lucky' = [epoch |-> 1, chunks |-> ChunksPerEpoch, producer |-> Eosio]
    BY <2>2, Constants DEF Lottery, State, Epoch
  <2>3. QED  BY <2>1, <2>2 DEF cleanup, init
<1>5. Ledger(State')
  BY <1>1, <1>2 DEF Sound, Ledger, State, ledger
<1>6. \A a \in Payee \cup {Bank} :
        /\ balance[a][Twig] \in Nat /\ balance'[a][Twig] \in Nat
        /\ balance[a][Twig] <= balance'[a][Twig]
  BY <1>1, <1>2, Accounts, Constants DEF Sound, Ledger, State, ledger
<1>7. Vault(State', <<>>)
  <2>1. CASE vesting' = vesting
    BY <1>1, <1>6, <2>1, SameVault
  <2>2. CASE vesting' = <<>>
    <3> DEFINE s == State
               t == State'
    <3>1. /\ t.vesting = <<>> /\ t.deposits = s.deposits /\ t.paid = s.paid
          /\ t.balance = s.balance /\ s.balance = balance
      BY <1>1, <2>2 DEF State, ledger
    <3>2. Vault(s, <<>>)
      BY <1>2 DEF Sound
    <3> HIDE DEF s, t
    <3>3. DOMAIN t.vesting = {}
      BY <3>1
    <3>4. RowsDue(t) = 0
      BY <3>3, TotalZero DEF RowsDue
    <3>5. Deposited(t) = Deposited(s) /\ PaidOut(t) = PaidOut(s)
      BY <3>1 DEF Deposited, DepositedFor, PaidOut
    <3>6. t.balance[Bank][Twig] >= RowsDue(t) + Flow(<<>>, {Bank}, Account)
      BY <1>6, <3>1, <3>4, EmptyQueue
    <3>7. Vault(t, <<>>)
      BY <3>1, <3>2, <3>3, <3>5, <3>6 DEF Vault
    <3>8. QED  BY <3>7 DEF t
  <2>3. QED  BY <2>1, <2>2 DEF cleanup, init
<1>8. QED  BY <1>1, <1>3, <1>4, <1>5, <1>7, QuietStep

-----------------------------------------------------------------------------
(* The lucky blocks. *)

(* The callbacks of a block. *)
LEMMA CallbacksAre ==
  ASSUME Tables, NEW q \in Callbacks
  PROVE  /\ q \in Seq(Called) /\ q \in Seq(Rest)
         /\ \A F, G : Flow(q, F, G) = 0
<1>1. IsFiniteSet(Active)
  BY FS_Subset DEF Tables, Active
<1>2. Cardinality(Active) \in Nat
  BY <1>1, FS_CardinalityType
<1>3. PICK order \in [1..Cardinality(Active) -> Active] :
        q = [n \in DOMAIN order |-> Callback(rngcalls[order[n]].contract)]
  BY DEF Callbacks
<1>4. \A n \in 1..Cardinality(Active) : Callback(rngcalls[order[n]].contract) \in Called
  BY DEF Called
<1>5. q = [n \in 1..Cardinality(Active) |-> Callback(rngcalls[order[n]].contract)]
  BY <1>3
<1>6. q \in Seq(Called)
  BY <1>2, <1>4, <1>5, IsASeq
<1>7. q \in Seq(Rest)
  BY <1>6 DEF Rest
<1>8. \A i \in DOMAIN q : q[i].act = "callback"
  BY <1>6, Kinds
<1>9. \A F, G : \A i \in DOMAIN q : Moved(q[i], F, G) = 0
  BY <1>8 DEF Moved
<1>10. \A F, G : Flow(q, F, G) = 0
  BY <1>9, FlowZero
<1>11. QED  BY <1>6, <1>7, <1>10

(* The chunks that were found are finitely many. *)
LEMMA FoundFinite ==
  ASSUME NEW l
  PROVE  IsFiniteSet(FoundBy(l)) /\ Cardinality(FoundBy(l)) \in Nat
<1>1. IsFiniteSet(Epoch \X (1..ChunksPerEpoch))
  <2>1. IsFiniteSet(1..ChunksPerEpoch)
    BY Constants, FS_Interval
  <2>2. QED  BY <2>1, Accounts, FS_Product
<1>2. IsFiniteSet(FoundBy(l))
  BY <1>1, FS_Subset DEF FoundBy
<1>3. QED  BY <1>2, FS_CardinalityType

(* A chunk that is found counts when its epoch issues tokens. *)
LEMMA FoundOneMore ==
  ASSUME NEW l, NEW m, l.epoch \in Epoch, l.chunks \in 1..ChunksPerEpoch,
         m.epoch = l.epoch, m.chunks = l.chunks - 1
  PROVE  Cardinality(FoundBy(m)) =
           Cardinality(FoundBy(l)) + IF l.epoch < EmissionEpochs + 1 THEN 1 ELSE 0
<1> DEFINE e == l.epoch
           k == l.chunks
           found == <<e, k>>
<1>1. /\ e \in Epoch /\ e \in Nat /\ k \in 1..ChunksPerEpoch /\ k \in Nat
      /\ found \in Epoch \X (1..ChunksPerEpoch) /\ found[1] = e /\ found[2] = k
  BY Constants DEF Epoch
<1>2. \A c \in Epoch \X (1..ChunksPerEpoch) :
        c[1] \in Nat /\ c[2] \in Nat /\ c = <<c[1], c[2]>>
  BY Constants DEF Epoch
<1>3. FoundBy(m) = {c \in Epoch \X (1..ChunksPerEpoch) :
                      /\ c[1] <= EmissionEpochs
                      /\ c[1] < e \/ (c[1] = e /\ c[2] > k - 1)}
  BY DEF FoundBy
<1>4. FoundBy(l) = {c \in Epoch \X (1..ChunksPerEpoch) :
                      /\ c[1] <= EmissionEpochs
                      /\ c[1] < e \/ (c[1] = e /\ c[2] > k)}
  BY DEF FoundBy
<1>5. \A c \in Epoch \X (1..ChunksPerEpoch) :
        c[1] = e /\ c[2] > k - 1 <=> c = found \/ (c[1] = e /\ c[2] > k)
  BY <1>1, <1>2
<1> HIDE DEF e, k, found
<1>6. CASE e < EmissionEpochs + 1
  <2>1. FoundBy(m) = FoundBy(l) \cup {found}
    BY <1>1, <1>3, <1>4, <1>5, <1>6, Constants
  <2>2. found \notin FoundBy(l)
    BY <1>1, <1>4
  <2>3. Cardinality(FoundBy(l) \cup {found}) = Cardinality(FoundBy(l)) + 1
    BY <2>2, FoundFinite, FS_AddElement
  <2>4. QED  BY <1>6, <2>1, <2>3 DEF e
<1>7. CASE ~(e < EmissionEpochs + 1)
  <2>1. \A c \in Epoch \X (1..ChunksPerEpoch) : c[1] <= EmissionEpochs => c[1] # e
    BY <1>1, <1>2, <1>7, Constants
  <2>2. FoundBy(m) = FoundBy(l)
    BY <1>3, <1>4, <2>1
  <2>3. QED  BY <1>7, <2>2, FoundFinite DEF e
<1>8. QED  BY <1>6, <1>7

(* A new epoch starts when all chunks of the last one were found, and with none. *)
LEMMA FoundTheSame ==
  ASSUME NEW l, NEW m, l.epoch \in Epoch, l.chunks = 0,
         m.epoch = l.epoch + 1, m.chunks = ChunksPerEpoch
  PROVE  FoundBy(m) = FoundBy(l)
<1> DEFINE e == l.epoch
<1>1. e \in Nat
  BY Constants DEF Epoch
<1>2. \A c \in Epoch \X (1..ChunksPerEpoch) :
        c[1] \in Nat /\ c[2] \in Nat /\ c[2] > 0 /\ ~(c[2] > ChunksPerEpoch)
  BY Constants DEF Epoch
<1>3. FoundBy(m) = {c \in Epoch \X (1..ChunksPerEpoch) :
                      /\ c[1] <= EmissionEpochs
                      /\ c[1] < e + 1 \/ (c[1] = e + 1 /\ c[2] > ChunksPerEpoch)}
  BY DEF FoundBy
<1>4. FoundBy(l) = {c \in Epoch \X (1..ChunksPerEpoch) :
                      /\ c[1] <= EmissionEpochs
                      /\ c[1] < e \/ (c[1] = e /\ c[2] > 0)}
  BY DEF FoundBy
<1> HIDE DEF e
<1>5. \A c \in Epoch \X (1..ChunksPerEpoch) :
        c[1] < e + 1 \/ (c[1] = e + 1 /\ c[2] > ChunksPerEpoch)
          <=> c[1] < e \/ (c[1] = e /\ c[2] > 0)
  BY <1>1, <1>2
<1>6. QED  BY <1>3, <1>4, <1>5

(* The block of a hit: its producer is known, and the state before it is kept. *)
LEMMA HitInv ==
  ASSUME IInv, NEW producer \in Producer, HitChunk(producer) \/ HitEpoch(producer)
  PROVE  IInv'
<1> DEFINE inline == IF lucky.chunks > 0 THEN OnChunk ELSE OnEpoch(lucky'.epoch)
<1>1. Sound(State, <<>>) /\ Tables
  BY DEF IInv, HitChunk, HitEpoch, Block, Quiet
<1>2. lucky \in [epoch : Epoch, chunks : 0..ChunksPerEpoch, producer : Producer \cup {Eosio}]
  BY <1>1 DEF Sound, Lottery, State
<1>3. lucky.epoch \in Epoch /\ lucky.epoch \in Nat /\ lucky.chunks \in 0..ChunksPerEpoch
  BY <1>2, Constants DEF Epoch
<1>4. Block(lucky', inline)
  BY <1>3, Constants DEF HitChunk, HitEpoch, Block
<1>5. PICK callbacks \in Callbacks : pending' = <<inline>> \o callbacks
  BY <1>4 DEF Block
<1>6. /\ Quiet /\ installed /\ saved' = State
      /\ UNCHANGED <<ledger, installed, contracts, vesting, deposits, paid, gifts, resets>>
  BY <1>4 DEF Block
<1>7. \/ /\ lucky.chunks > 0 /\ lucky'.epoch = lucky.epoch
         /\ lucky'.chunks = lucky.chunks - 1 /\ inline.act = "onchunk"
      \/ /\ lucky.chunks = 0 /\ lucky'.epoch = lucky.epoch + 1 /\ lucky.epoch < MaxEpoch
         /\ lucky'.chunks = ChunksPerEpoch /\ inline.act = "onepoch"
  <2>1. CASE HitChunk(producer)
    <3>1. lucky.chunks > 0 /\ lucky' = [lucky EXCEPT !.producer = producer, !.chunks = @ - 1]
      BY <2>1 DEF HitChunk, Block, FoundChunk
    <3>2. lucky'.epoch = lucky.epoch /\ lucky'.chunks = lucky.chunks - 1
      BY <1>2, <3>1
    <3>3. QED  BY <3>1, <3>2 DEF OnChunk
  <2>2. CASE HitEpoch(producer)
    BY <1>3, <2>2 DEF HitEpoch, Block, OnEpoch
  <2>3. QED  BY <2>1, <2>2
<1>8. /\ lucky' \in [epoch : Epoch, chunks : 0..ChunksPerEpoch,
                     producer : Producer \cup {Eosio}]
      /\ lucky'.producer = producer
  <2>1. CASE HitChunk(producer)
    <3>1. lucky.chunks > 0 /\ lucky' = [lucky EXCEPT !.producer = producer, !.chunks = @ - 1]
      BY <2>1 DEF HitChunk, Block, FoundChunk
    <3>2. lucky.chunks - 1 \in 0..ChunksPerEpoch
      BY <1>3, <3>1, Constants
    <3>3. QED  BY <1>2, <3>1, <3>2
  <2>2. CASE HitEpoch(producer)
    BY <1>2, <1>3, <2>2, Constants DEF HitEpoch, Block, Epoch
  <2>3. QED  BY <2>1, <2>2
<1>9. callbacks \in Seq(Called) /\ callbacks \in Seq(Rest)
      /\ \A F, G : Flow(callbacks, F, G) = 0
  BY <1>1, CallbacksAre
<1>10. inline \in Starts'
  BY DEF Starts, OnChunk
<1>11. \A a \in Account : balance[a][Twig] \in Nat /\ balance'[a] = balance[a]
  BY <1>1, <1>6, Constants DEF Sound, Ledger, State, ledger
<1>12. balance'[Chunks][Twig] \in Nat
  BY <1>11, Accounts
<1> HIDE DEF inline
<1>13. /\ Queue' /\ ~Quiet' /\ Head(pending') = inline
       /\ \A F, G : Flow(pending', F, G) = Flow(callbacks, F, G)
  <2>1. rngcalls' = rngcalls
    BY <1>6 DEF contracts
  <2>2. inline.act # "issue"
    BY <1>7
  <2>3. Flow(callbacks, {Chunks}, Account)
          <= balance'[Chunks][Twig] + IF inline.act = "issue" THEN ChunkIssue ELSE 0
    BY <1>9, <1>12, <2>2
  <2>4. QED  BY <1>5, <1>9, <1>10, <1>12, <2>1, <2>3, QueueOfStart
<1> DEFINE s == State
           t == State'
           q == pending'
           none == <<>>
<1>14. /\ t.supply = s.supply /\ t.rows = s.rows /\ t.balance = s.balance
       /\ t.vesting = s.vesting /\ t.deposits = s.deposits /\ t.paid = s.paid
       /\ t.lucky = lucky' /\ s.lucky = lucky
  BY <1>6 DEF State, ledger
<1>15. Ledger(s) /\ Vault(s, none) /\ (resets = 0 => Books(s, none) /\ Issued(s, none))
  BY <1>1 DEF Sound
<1>16. \A F, G : Flow(q, F, G) = 0 /\ Flow(none, F, G) = 0
  BY <1>9, <1>13, EmptyQueue
<1>17. q # <<>> /\ Head(q) = inline
  BY <1>13 DEF Quiet
<1>18. BooksEpoch(s, none) = s.lucky.epoch /\ ~IssueIsDue(s, none)
  BY EmptyQueue
<1> HIDE DEF s, t, q, none
<1>19. Lottery(t)
  BY <1>8, <1>14 DEF Lottery
<1>20. Ledger(t)
  BY <1>14, <1>15 DEF Ledger
<1>21. Vault(t, q)
  <2>1. \A a \in Payee \cup {Bank} :
          /\ s.balance[a][Twig] \in Nat /\ t.balance[a][Twig] \in Nat
          /\ s.balance[a][Twig] <= t.balance[a][Twig]
    BY <1>14, <1>15, Accounts, Constants DEF Ledger
  <2>2. /\ Flow(q, {Bank}, Account) \in Nat /\ Flow(none, {Bank}, Account) \in Nat
        /\ Flow(q, {Bank}, Account) <= Flow(none, {Bank}, Account)
    BY <1>16
  <2>3. QED  BY <1>14, <1>15, <2>1, <2>2, VaultStep
<1>22. BooksEpoch(t, q) = BooksEpoch(s, none)
  BY <1>3, <1>7, <1>14, <1>17, <1>18 DEF BooksEpoch, Next0
<1>23. resets = 0 => Books(t, q)
  <2>1. DOMAIN s.vesting \subseteq Payee
    BY <1>15 DEF Vault
  <2>2. \A p \in Payee : Flow(q, {Bank}, {p}) = Flow(none, {Bank}, {p})
    BY <1>16
  <2>3. QED  BY <1>14, <1>15, <1>22, <2>1, <2>2, BooksStep
<1>24. resets = 0 => Issued(t, q)
  <2> SUFFICES ASSUME resets = 0
               PROVE  Issued(t, q)
    OBVIOUS
  <2> DEFINE chunk == ChunkIssue
             found == Cardinality(FoundBy(lucky))
             then == Cardinality(FoundBy(lucky'))
             due == IssueIsDue(t, q)
  <2>1. s.supply[Twig] + 0 = InitialSupply + chunk * found
    BY <1>14, <1>15, <1>18 DEF Issued
  <2>2. /\ found \in Nat /\ then \in Nat /\ chunk \in Nat /\ s.supply[Twig] \in Nat
        /\ InitialSupply \in Nat
    BY <1>15, FoundFinite, ChunkType, LedgerBounds, Constants
  <2>3. then = found + IF due THEN 1 ELSE 0
    <3>1. CASE lucky.chunks > 0
      <4>1. due <=> lucky.epoch < EmissionEpochs + 1
        BY <1>7, <1>14, <1>17, <3>1 DEF IssueIsDue, Next0
      <4>2. lucky.chunks \in 1..ChunksPerEpoch
        BY <1>3, <3>1, Constants
      <4>3. lucky'.epoch = lucky.epoch /\ lucky'.chunks = lucky.chunks - 1
        BY <1>3, <1>7, <3>1
      <4>4. Cardinality(FoundBy(lucky')) = Cardinality(FoundBy(lucky))
              + IF lucky.epoch < EmissionEpochs + 1 THEN 1 ELSE 0
        BY <1>3, <4>2, <4>3, FoundOneMore
      <4>5. QED  BY <4>1, <4>4
    <3>2. CASE ~(lucky.chunks > 0)
      <4>1. ~due
        BY <1>7, <1>17, <3>2 DEF IssueIsDue, Next0
      <4>2. /\ lucky.chunks = 0 /\ lucky'.epoch = lucky.epoch + 1
            /\ lucky'.chunks = ChunksPerEpoch
        BY <1>3, <1>7, <3>2
      <4>3. FoundBy(lucky') = FoundBy(lucky)
        BY <1>3, <4>2, FoundTheSame
      <4>4. QED  BY <2>2, <4>1, <4>3
    <3>3. QED  BY <3>1, <3>2
  <2>4. Issued(t, q) <=> t.supply[Twig] + (IF due THEN chunk ELSE 0)
                           = InitialSupply + chunk * then
    BY <1>14 DEF Issued
  <2> HIDE DEF chunk, found, then, due
  <2>5. t.supply[Twig] = s.supply[Twig]
    BY <1>14
  <2>6. CASE due
    <3>1. chunk * then = chunk * found + chunk
      BY <2>2, <2>3, <2>6
    <3>2. chunk * found \in Nat
      BY <2>2
    <3>3. QED  BY <2>1, <2>2, <2>4, <2>5, <2>6, <3>1, <3>2
  <2>7. CASE ~due
    BY <2>1, <2>2, <2>3, <2>4, <2>5, <2>7
  <2>8. QED  BY <2>6, <2>7
<1>25. Sound(State, pending)'
  BY <1>6, <1>19, <1>20, <1>21, <1>23, <1>24 DEF Sound, t, q
<1>26. Transaction'
  BY <1>1, <1>6, <1>8 DEF Transaction, Sound
<1>27. Tables'
  BY <1>1, <1>6, TablesSame DEF ledger
<1>28. QED  BY <1>13, <1>25, <1>26, <1>27 DEF IInv

-----------------------------------------------------------------------------
(* The invariance. *)

(* The state after boot. *)
LEMMA InitInv ==
  ASSUME Init
  PROVE  IInv
<1>1. /\ configured = TRUE /\ max_supply = One(MaxSupply)
      /\ supply = One(InitialSupply)
      /\ balance = [a \in Account |-> One(IF a = User THEN InitialSupply ELSE 0)]
      /\ rows \in SUBSET {User, Chunks} /\ User \in rows
      /\ installed = TRUE /\ rngcalls = <<>> /\ refusing = {}
      /\ lucky = [epoch |-> 1, chunks |-> ChunksPerEpoch, producer |-> Eosio]
      /\ vesting = <<>> /\ pending = <<>>
      /\ deposits = [p \in Payee |-> [e \in Epoch |-> 0]]
      /\ paid = [p \in Payee |-> 0] /\ gifts = 0 /\ resets = 0
  BY DEF Init
<1>2. 1 \in Epoch
  BY Constants DEF Epoch
<1>3. \A a \in Account : balance[a][Twig] = IF a = User THEN InitialSupply ELSE 0
  BY <1>1, Constants DEF One
<1>4. Ledger(State)
  <2> DEFINE held == [a \in Account |-> balance[a][Twig]]
  <2>1. held[User] = InitialSupply /\ InitialSupply \in Nat /\ User \in Account
    BY <1>3, Constants, Accounts
  <2>2. \A a \in Account \ {User} : held[a] = 0
    BY <1>3
  <2> HIDE DEF held
  <2>3. Total(held, Account) = Total(held, {User}) /\ Total(held, {User}) = InitialSupply
    BY <2>1, <2>2, TotalOfPart, TotalOne
  <2>4. Total([a \in Account |-> balance[a][Twig]], Account) = InitialSupply
    BY <2>3 DEF held
  <2>5. supply \in [Symbol -> 0..(MaxSupply - 1)] /\ supply[Twig] = InitialSupply
    BY <1>1, Constants DEF One
  <2>6. balance \in [Account -> [Symbol -> Nat]]
    <3>1. \A a \in Account : One(IF a = User THEN InitialSupply ELSE 0) \in [Symbol -> Nat]
      BY <2>1 DEF One
    <3>2. QED  BY <1>1, <3>1
  <2>7. rows \in SUBSET Account /\ \A a \in Account \ rows : balance[a][Twig] = 0
    BY <1>1, <1>3, Accounts
  <2>8. QED  BY <2>4, <2>5, <2>6, <2>7 DEF Ledger, State
<1> DEFINE s == State
           none == <<>>
<1>5. /\ s.vesting = <<>> /\ s.balance = balance /\ s.supply = supply
      /\ s.lucky = lucky /\ s.deposits = [p \in Payee |-> [e \in Epoch |-> 0]]
      /\ s.paid = [p \in Payee |-> 0]
  BY <1>1 DEF State
<1>6. \A F, G : Flow(none, F, G) = 0
  BY EmptyQueue
<1>7. BooksEpoch(s, none) = 1 /\ ~IssueIsDue(s, none)
  BY <1>1, <1>5, EmptyQueue
<1> HIDE DEF s, none
<1>8. DOMAIN s.vesting = {}
  BY <1>5
<1>9. Lottery(s)
  BY <1>1, <1>2, <1>5, Constants DEF Lottery
<1>10. Vault(s, none)
  <2>1. RowsDue(s) = 0
    BY <1>8, TotalZero DEF RowsDue
  <2>2. \A p \in Payee : DepositedFor(s, p) = 0
    BY <1>5, TotalZero DEF DepositedFor
  <2>3. Deposited(s) = 0
    BY <2>2, TotalZero DEF Deposited
  <2>4. PaidOut(s) = 0
    BY <1>5, TotalZero DEF PaidOut
  <2>5. \A a \in Payee \cup {Bank} : s.balance[a][Twig] = 0
    BY <1>3, <1>5, Accounts
  <2>6. /\ s.deposits \in [Payee -> [Epoch -> Nat]] /\ s.paid \in [Payee -> Nat]
        /\ \A p \in Payee : s.paid[p] <= s.balance[p][Twig]
    BY <1>5, <2>5
  <2>7. QED  BY <1>6, <1>8, <2>1, <2>3, <2>4, <2>5, <2>6 DEF Vault
<1>11. Books(s, none)
  <2>1. \A p \in Payee : /\ \A d \in Epoch : s.deposits[p][d] = 0
                         /\ s.paid[p] + Flow(none, {Bank}, {p}) = 0
    BY <1>5, <1>6
  <2>2. QED  BY <1>2, <1>7, <1>8, <2>1 DEF Books
<1>12. Issued(s, none)
  <2>1. ASSUME NEW c \in FoundBy(s.lucky)
        PROVE  FALSE
    <3>1. c[1] \in Nat \ {0} /\ c[2] \in Nat /\ c[2] <= ChunksPerEpoch
      BY Constants DEF FoundBy, Epoch
    <3>2. c[1] < 1 \/ (c[1] = 1 /\ c[2] > ChunksPerEpoch)
      BY <1>1, <1>5 DEF FoundBy
    <3>3. QED  BY <3>1, <3>2, Constants
  <2>2. Cardinality(FoundBy(s.lucky)) = 0
    BY <2>1, FS_EmptySet
  <2>3. s.supply[Twig] = InitialSupply
    BY <1>1, <1>5, Constants DEF One
  <2>4. QED  BY <1>7, <2>2, <2>3, Constants, ChunkType DEF Issued
<1>13. Sound(State, pending)
  BY <1>1, <1>4, <1>9, <1>10, <1>11, <1>12 DEF Sound, s, none
<1>14. Quiet /\ pending = <<>>
  BY <1>1 DEF Quiet
<1>15. Queue
  <2>1. Held(Chunks) \in Nat
    BY <1>3, Accounts, Constants DEF Held
  <2>2. Flow(pending, {Chunks}, Account) = 0
    BY <1>1, EmptyQueue
  <2>3. pending \in Seq(Starts \cup Rest) /\ DOMAIN pending = {}
    BY <1>1
  <2>4. QED  BY <1>14, <2>1, <2>2, <2>3 DEF Queue, Running
<1>16. Tables
  <2>1. DOMAIN rngcalls = {}
    BY <1>1
  <2>2. QED  BY <1>1, <2>1, FS_EmptySet, Constants DEF Tables
<1>17. QED  BY <1>13, <1>14, <1>15, <1>16 DEF IInv, Transaction

(* Nothing happens. *)
LEMMA StutterInv ==
  ASSUME IInv, UNCHANGED vars
  PROVE  IInv'
<1>1. UNCHANGED <<configured, supply, max_supply, rows, balance, installed, rngcalls,
                  refusing, lucky, vesting, pending, saved, deposits, paid, gifts, resets>>
  BY DEF vars, ledger, contracts
<1>2. State' = State
  BY <1>1 DEF State
<1>3. Sound(State, pending)'
  BY <1>1, <1>2 DEF IInv, Sound
<1>4. Queue'
  BY <1>1 DEF IInv, Queue, Running, Quiet, Held, Starts, Rest, Called, Active
<1>5. Transaction' /\ Tables'
  BY <1>1 DEF IInv, Transaction, Tables, Quiet, Sound
<1>6. QED  BY <1>3, <1>4, <1>5 DEF IInv

(* Every step keeps the invariant. *)
LEMMA NextInv ==
  ASSUME IInv, [Next]_vars
  PROVE  IInv'
<1>1. CASE Hit
  BY <1>1, HitInv DEF Hit
<1>2. CASE Inline
  BY <1>2, CallbackInv, OnchunkInv, IssueInv, TransferInv, TokenDepositInv, OnepochInv,
     AbortInv DEF Inline
<1>3. CASE Environment
  BY <1>3, GiftInv, RowInv, ChangecontractInv DEF Environment
<1>4. CASE Administration
  <2>1. CASE cleanup \/ \E destruct \in BOOLEAN : init(destruct)
    BY <2>1, ResetInv
  <2>2. CASE close
    BY <2>2, RowInv
  <2>3. ASSUME NEW index \in Index,
               \/ \E contract \in Callee : setrngcall(index, contract)
               \/ \E active \in BOOLEAN : modrngcall(index, active)
               \/ rmvrngcall(index)
        PROVE  IInv'
    BY <2>3, RngcallsInv
  <2>4. QED  BY <1>4, <2>1, <2>2, <2>3 DEF Administration
<1>5. CASE UNCHANGED vars
  BY <1>5, StutterInv
<1>6. QED  BY <1>1, <1>2, <1>3, <1>4, <1>5 DEF Next

(* The emission keeps its invariant, for all numbers of producers, chunks and epochs, *)
(* all contracts that may be called back, and all resets.                             *)
THEOREM Invariance == Spec => []IInv
<1>1. Init => IInv
  BY InitInv
<1>2. IInv /\ [Next]_vars => IInv'
  BY NextInv
<1>3. QED  BY <1>1, <1>2, PTL DEF Spec

-----------------------------------------------------------------------------
(* What the invariant gives: type correctness. *)

(* All amounts are bounded by the supply. *)
LEMMA AmountBounds ==
  ASSUME IInv
  PROVE  /\ \A a \in Account : balance[a][Twig] \in Amount
         /\ \A p \in DOMAIN vesting : vesting[p].vested \in Amount
         /\ \A p \in Payee, e \in Epoch : deposits[p][e] \in Amount
<1> DEFINE s == State
           held == [a \in Account |-> balance[a][Twig]]
           dep == [p \in Payee |-> DepositedFor(s, p)]
<1>1. Ledger(s) /\ Vault(s, pending)
  BY DEF IInv, Sound
<1>2. /\ s.balance = balance /\ s.supply = supply /\ s.vesting = vesting
      /\ s.deposits = deposits /\ s.paid = paid
  BY DEF State
<1> HIDE DEF s
<1>3. /\ supply[Twig] \in 0..(MaxSupply - 1) /\ supply[Twig] = Total(held, Account)
      /\ \A a \in Account : balance[a][Twig] \in 0..supply[Twig]
  BY <1>1, <1>2, LedgerBounds DEF Ledger
<1>4. \A a \in Account : balance[a][Twig] \in Amount
  BY <1>3, Constants DEF Amount
<1>5. balance[Bank][Twig] \in Amount /\ Bank \in Account /\ Bank \notin Payee
  BY <1>4, Accounts
<1>6. balance[Bank][Twig] >= RowsDue(s) /\ RowsDue(s) \in Nat
  <2>1. Flow(pending, {Bank}, Account) \in Nat
    <3>1. CASE Quiet
      BY <3>1, EmptyQueue DEF Quiet
    <3>2. CASE ~Quiet
      BY <3>2, InlineFacts
    <3>3. QED  BY <3>1, <3>2
  <2>2. RowsDue(s) \in Nat
    BY <1>1, DueType
  <2>3. balance[Bank][Twig] >= RowsDue(s) + Flow(pending, {Bank}, Account)
    BY <1>1, <1>2 DEF Vault
  <2>4. balance[Bank][Twig] \in Nat
    BY <1>5 DEF Amount
  <2> DEFINE sent == Flow(pending, {Bank}, Account)
  <2> HIDE DEF sent
  <2>5. QED  BY <2>1, <2>2, <2>3, <2>4 DEF sent
<1>7. ASSUME NEW p \in DOMAIN vesting
      PROVE  vesting[p].vested \in Amount
  <2> DEFINE due == [x \in DOMAIN s.vesting |-> Due(s.vesting[x])]
  <2>1. IsFiniteSet(DOMAIN s.vesting) /\ due \in [DOMAIN s.vesting -> Nat]
    BY <1>1, DueType
  <2>2. due[p] <= Total(due, DOMAIN s.vesting)
    BY <1>2, <2>1, TotalBound
  <2>3. due[p] = vesting[p].vested + Outstanding(vesting[p])
    BY <1>2 DEF Due
  <2>4. Outstanding(vesting[p]) \in Nat /\ vesting[p].vested \in Nat
    BY <1>1, <1>2, DueType DEF Vault, VestingRow
  <2>5. RowsDue(s) = Total(due, DOMAIN s.vesting)
    BY DEF RowsDue
  <2> HIDE DEF due
  <2>6. vesting[p].vested <= balance[Bank][Twig]
    BY <1>5, <1>6, <2>2, <2>3, <2>4, <2>5 DEF Amount
  <2>7. QED  BY <1>5, <2>4, <2>6, Constants DEF Amount
<1>8. balance[Bank][Twig] + PaidOut(s) \in Amount
  <2>1. held[Bank] \in Nat /\ \A a \in Account : held[a] \in Nat /\ held[a] = balance[a][Twig]
    BY <1>3, <1>5, Constants
  <2>2. \A p \in Payee : s.paid[p] \in Nat /\ s.paid[p] <= held[p]
    BY <1>1, <1>2, Accounts DEF Vault
  <2> HIDE DEF held
  <2>3. \A p \in Payee : held[p] \in Nat
    BY <2>1, Accounts
  <2>4. Total(s.paid, Payee) <= Total(held, Payee)
    BY <2>2, <2>3, Accounts, TotalLeq
  <2>5. Total(held, Payee \cup {Bank}) = Total(held, Payee) + held[Bank]
    BY <1>5, <2>1, <2>3, Accounts, TotalAdd
  <2>6. Total(held, Payee \cup {Bank}) <= Total(held, Account)
    BY <1>5, <2>1, Accounts, TotalPart
  <2>7. /\ Total(s.paid, Payee) \in Nat /\ Total(held, Payee) \in Nat
    BY <2>2, <2>3, Accounts, TotalNat
  <2>8. balance[Bank][Twig] = held[Bank]
    BY <1>5, <2>1
  <2>9. Total(s.paid, Payee) + held[Bank] <= supply[Twig]
    BY <1>3, <2>1, <2>4, <2>5, <2>6, <2>7, Constants
  <2>10. QED  BY <1>3, <2>1, <2>7, <2>8, <2>9, Constants DEF PaidOut, Amount
<1>9. ASSUME NEW p \in Payee, NEW e \in Epoch
      PROVE  deposits[p][e] \in Amount
  <2>1. s.deposits[p] \in [Epoch -> Nat] /\ s.deposits[p][e] \in Nat
    BY <1>1 DEF Vault
  <2>2. s.deposits[p][e] <= DepositedFor(s, p)
    BY <2>1, Accounts, TotalBound DEF DepositedFor
  <2>3. dep \in [Payee -> Nat] /\ dep[p] = DepositedFor(s, p) /\ Deposited(s) \in Nat
    BY <1>1, HistoryType
  <2>4. dep[p] <= Total(dep, Payee) /\ Total(dep, Payee) = Deposited(s)
    BY <2>3, Accounts, TotalBound DEF Deposited
  <2>5. Deposited(s) <= balance[Bank][Twig] + PaidOut(s)
    BY <1>1, <1>2, <2>3, <1>8 DEF Vault, Amount
  <2> HIDE DEF dep
  <2>6. dep[p] \in Nat
    BY <2>3
  <2>7. s.deposits[p][e] <= AssetMax
    BY <1>8, <2>1, <2>2, <2>3, <2>4, <2>5, <2>6, Constants DEF Amount
  <2>8. QED  BY <1>2, <2>1, <2>7, Constants DEF Amount
<1>10. QED  BY <1>4, <1>7, <1>9

(* Every table keeps its type; the amounts of the bank, which the code adds up in *)
(* 64 bits, never leave the range of an asset.                                    *)
THEOREM TypeCorrect == Spec => []TypeOK
<1>1. IInv => TypeOK
  <2> SUFFICES ASSUME IInv
               PROVE  TypeOK
    OBVIOUS
  <2>1. /\ Ledger(State) /\ Lottery(State) /\ Vault(State, pending) /\ Tables
    BY DEF IInv, Sound
  <2>2. T!TypeOK
    <3>1. 0..(MaxSupply - 1) \subseteq T!Int64 /\ Amount \subseteq T!Int64
      BY Constants DEF T!Int64, Amount
    <3>2. supply \in [Symbol -> T!Int64] /\ rows \in SUBSET Account
      BY <2>1, <3>1 DEF Ledger, State
    <3>3. balance \in [Account -> [Symbol -> T!Int64]]
      <4>1. balance \in [Account -> [Symbol -> Nat]]
        BY <2>1 DEF Ledger, State
      <4>2. \A a \in Account : \A s \in Symbol : balance[a][s] \in T!Int64
        BY <3>1, AmountBounds, Constants
      <4>3. QED  BY <4>1, <4>2
    <3>4. max_supply \in [Symbol -> 0..AssetMax] /\ configured \in BOOLEAN
      BY <2>1, Constants DEF Tables, One
    <3>5. QED  BY <3>2, <3>3, <3>4 DEF T!TypeOK
  <2>3. DOMAIN vesting \subseteq Payee /\ \A p \in DOMAIN vesting : vesting[p] \in Row
    <3>1. ASSUME NEW p \in DOMAIN vesting
          PROVE  vesting[p] \in Row
      <4>1. vesting[p] \in VestingRow /\ vesting[p].unvested <= vesting[p].unvesting_total
        BY <2>1 DEF Vault, State
      <4>2. vesting[p].vested \in Amount
        BY AmountBounds
      <4>3. vesting[p].unvested \in Amount
        BY <4>1, Constants DEF VestingRow, Amount
      <4>4. QED  BY <4>1, <4>2, <4>3 DEF VestingRow, Row
    <3>2. QED  BY <2>1, <3>1 DEF Vault, State
  <2>4. deposits \in [Payee -> [Epoch -> Amount]]
    <3>1. deposits \in [Payee -> [Epoch -> Nat]]
      BY <2>1 DEF Vault, State
    <3>2. QED  BY <3>1, AmountBounds
  <2>5. paid \in [Payee -> Amount]
    <3>1. paid \in [Payee -> Nat] /\ \A p \in Payee : paid[p] <= balance[p][Twig]
      BY <2>1 DEF Vault, State
    <3>2. \A p \in Payee : paid[p] \in Amount
      BY <3>1, AmountBounds, Accounts, Constants DEF Amount
    <3>3. QED  BY <3>1, <3>2
  <2>6. lucky \in [epoch : Epoch, chunks : 0..ChunksPerEpoch,
                   producer : Producer \cup {Eosio}]
    BY <2>1 DEF Lottery, State
  <2>7. QED  BY <2>1, <2>2, <2>3, <2>4, <2>5, <2>6 DEF TypeOK, Tables
<1>2. QED  BY <1>1, Invariance, PTL

-----------------------------------------------------------------------------
(* What the invariant gives: the bank. *)

(* The payouts in the queue are what it moves from the bank. *)
LEMMA QueuedFlow ==
  ASSUME IInv, ~Quiet
  PROVE  Total([i \in QueuedPayouts |-> pending[i].amount], QueuedPayouts)
           = Flow(pending, {Bank}, Account)
<1> DEFINE moved == [i \in DOMAIN pending |-> Moved(pending[i], {Bank}, Account)]
           queued == [i \in QueuedPayouts |-> pending[i].amount]
<1>1. pending \in Seq(Starts \cup Rest)
  BY InlineFacts
<1>2. \A i \in DOMAIN pending : pending[i] \in Starts \cup Rest
  BY <1>1
<1>3. ASSUME NEW i \in QueuedPayouts
      PROVE  i \in DOMAIN pending /\ moved[i] = queued[i]
  <2>1. i \in DOMAIN pending /\ pending[i].act = "transfer" /\ pending[i].from = Bank
    BY DEF QueuedPayouts
  <2>2. pending[i] \in Shares \cup Payouts
    BY <1>2, <2>1, Kinds DEF Rest
  <2>3. pending[i] \in Payouts
    BY <2>1, <2>2, Kinds, Accounts
  <2>4. pending[i].to \in Account
    BY <2>3, Kinds, Accounts
  <2>5. QED  BY <2>1, <2>4 DEF Moved
<1>4. \A i \in DOMAIN pending \ QueuedPayouts : moved[i] = 0
  BY DEF QueuedPayouts, Moved
<1>5. Flow(pending, {Bank}, Account) = Total(moved, DOMAIN pending)
  BY DEF Flow, Sum
<1> HIDE DEF moved, queued
<1>6. Total(moved, DOMAIN pending) = Total(moved, QueuedPayouts)
  BY <1>3, <1>4, TotalOfPart
<1>7. Total(moved, QueuedPayouts) = Total(queued, QueuedPayouts)
  BY <1>3, TotalAgree
<1>8. QED  BY <1>5, <1>6, <1>7 DEF queued

(* The bank can pay what it owes, whatever contracts the payees deploy, wherever a *)
(* block is aborted, and whenever the table or the lottery is reset.               *)
THEOREM Solvent == Spec => []Solvency
<1>1. IInv => Solvency
  <2> SUFFICES ASSUME IInv
               PROVE  Solvency
    OBVIOUS
  <2> DEFINE rows_due == Total([p \in DOMAIN vesting |->
                            vesting[p].vested + Outstanding(vesting[p])], DOMAIN vesting)
             queued == Total([i \in QueuedPayouts |-> pending[i].amount], QueuedPayouts)
  <2>1. rows_due = RowsDue(State)
    BY DEF RowsDue, Due, State
  <2>2. queued = Flow(pending, {Bank}, Account)
    <3>1. CASE Quiet
      <4>1. QueuedPayouts = {}
        BY <3>1 DEF QueuedPayouts, Quiet
      <4>2. queued = 0
        BY <4>1, TotalZero
      <4>3. QED  BY <3>1, <4>2, EmptyQueue DEF Quiet
    <3>2. CASE ~Quiet
      BY <3>2, QueuedFlow
    <3>3. QED  BY <3>1, <3>2
  <2>3. balance[Bank][Twig] >= RowsDue(State) + Flow(pending, {Bank}, Account)
    BY DEF IInv, Sound, Vault, State
  <2>4. QED  BY <2>1, <2>2, <2>3 DEF Solvency, Held, Owed
<1>2. QED  BY <1>1, Invariance, PTL

(* Between blocks, and until something is reset, every row of the bank is in the *)
(* current epoch, vests what was deposited in it, releases what was deposited in *)
(* the epoch before, and has paid all that came earlier.                         *)
THEOREM BooksFollow == Spec => []VestingSchedule
<1>1. IInv => VestingSchedule
  <2> SUFFICES ASSUME IInv, Quiet, resets = 0, NEW p \in DOMAIN vesting
               PROVE  LET row == vesting[p]
                          last == IF lucky.epoch > 1
                                    THEN deposits[p][lucky.epoch - 1] ELSE 0
                      IN  /\ row.epoch = lucky.epoch
                          /\ row.vested = deposits[p][lucky.epoch]
                          /\ row.unvesting_total = last
                          /\ row.unvested \in 0..last
                          /\ paid[p] = row.unvested
                               + Total(deposits[p], {e \in Epoch : e < lucky.epoch - 1})
    BY DEF VestingSchedule
  <2> DEFINE s == State
             none == <<>>
  <2>1. Books(s, none) /\ Vault(s, none)
    BY DEF IInv, Sound, Quiet
  <2>2. /\ s.vesting = vesting /\ s.deposits = deposits /\ s.paid = paid
        /\ s.lucky = lucky
    BY DEF State
  <2>3. BooksEpoch(s, none) = s.lucky.epoch /\ Flow(none, {Bank}, {p}) = 0
    BY EmptyQueue
  <2> HIDE DEF s, none
  <2>4. /\ vesting[p] \in VestingRow /\ vesting[p].unvested <= vesting[p].unvesting_total
        /\ p \in Payee /\ paid[p] \in Nat
    BY <2>1, <2>2 DEF Vault
  <2>5. /\ vesting[p].epoch = lucky.epoch
        /\ vesting[p].vested = deposits[p][lucky.epoch]
        /\ vesting[p].unvesting_total = Before(s, p, lucky.epoch)
        /\ paid[p] + 0 = vesting[p].unvested + Past(s, p, lucky.epoch)
    BY <2>1, <2>2, <2>3 DEF Books
  <2>6. vesting[p].unvested \in 0..vesting[p].unvesting_total
    BY <2>4, Constants DEF VestingRow, Amount
  <2>7. Past(s, p, lucky.epoch) = Total(deposits[p], {e \in Epoch : e < lucky.epoch - 1})
    BY <2>2 DEF Past
  <2>8. Before(s, p, lucky.epoch)
          = IF lucky.epoch > 1 THEN deposits[p][lucky.epoch - 1] ELSE 0
    BY <2>2 DEF Before
  <2>9. paid[p] + 0 = paid[p]
    BY <2>4
  <2>10. QED  BY <2>5, <2>6, <2>7, <2>8, <2>9
<1>2. QED  BY <1>1, Invariance, PTL

-----------------------------------------------------------------------------
(* What the invariant gives: the lottery. *)

(* Exactly the chunks that were found have been issued: an aborted block neither *)
(* issues a chunk nor uses one up.                                               *)
THEOREM IssuedAsFound == Spec => []SupplyFollowsLottery
<1>1. IInv => SupplyFollowsLottery
  <2> SUFFICES ASSUME IInv, Quiet, resets = 0
               PROVE  supply[Twig] = InitialSupply + ChunkIssue * ChunksFound
    BY DEF SupplyFollowsLottery
  <2>1. Issued(State, <<>>) /\ Ledger(State)
    BY DEF IInv, Sound, Quiet
  <2>2. ChunksFound = Cardinality(FoundBy(State.lucky)) /\ State.supply = supply
    BY DEF ChunksFound, FoundBy, State
  <2>3. supply[Twig] + 0 = InitialSupply + ChunkIssue * ChunksFound
    BY <2>1, <2>2, EmptyQueue DEF Issued
  <2>4. supply[Twig] \in Nat
    BY <2>1, <2>2, LedgerBounds, Constants
  <2>5. QED  BY <2>3, <2>4
<1>2. QED  BY <1>1, Invariance, PTL

(* A block is only aborted because the chunks account has no row, the supply would *)
(* reach its maximum, a share rounds down to nothing, a payee refuses, or a        *)
(* contract that is called back fails.                                             *)
THEOREM AbortsForeseen == Spec => []AbortsAreForeseen
<1>1. IInv => AbortsAreForeseen
  <2> SUFFICES ASSUME IInv, HeadFails
               PROVE  \/ Chunks \notin rows
                      \/ /\ Head(pending).act = "issue"
                         /\ supply[Twig] + ChunkIssue >= MaxSupply
                      \/ /\ Head(pending).act = "transfer"
                         /\ Head(pending).amount = 0 \/ Head(pending).to \in refusing
                      \/ /\ Running("callback")
                         /\ \E i \in Active : rngcalls[i].contract \in Broken
    BY DEF AbortsAreForeseen
  <2> DEFINE e == Head(pending)
  <2>1. ~Quiet
    BY DEF HeadFails, Running
  <2>2. /\ e \in Starts \cup Rest /\ Tables /\ Ledger(State) /\ Queue
        /\ \A a \in Account : balance[a][Twig] \in Nat
    BY <2>1, InlineFacts DEF IInv, Sound
  <2>3. /\ supply[Twig] \in 0..(MaxSupply - 1)
        /\ \A a \in Account : balance[a][Twig] \in 0..supply[Twig]
        /\ \A a \in Account \ rows : balance[a][Twig] = 0
    <3>1. State.supply = supply /\ State.balance = balance /\ State.rows = rows
      BY DEF State
    <3>2. QED  BY <2>2, <3>1, LedgerBounds DEF Ledger
  <2>4. CASE Running("onchunk") /\ ~CanOnchunk
    BY <2>4 DEF CanOnchunk
  <2>5. CASE Running("issue") /\ ~CanIssueNow
    <3>1. e = Issue(ChunkIssue) /\ e.amount = ChunkIssue
      BY <2>2, <2>5, Kinds DEF Running, Starts, OnChunk, OnEpoch, Issue
    <3>2. configured /\ max_supply[Twig] = MaxSupply /\ MaxSupply # 0
      BY <2>2, <2>3, Constants DEF Tables, One
    <3>3. One(ChunkIssue)[Twig] = ChunkIssue
      BY Constants DEF One
    <3>4. PICK x \in Symbol : ~(x \in T!Registered /\ T!Add(supply[x], One(ChunkIssue)[x])
                                                      < max_supply[x])
      BY <2>5, <3>1, <3>2 DEF CanIssueNow, T!CanIssue, T!Listed
    <3>5. x = Twig /\ Twig \in T!Registered
      BY <3>2, Constants DEF T!Registered
    <3>6. T!Add(supply[Twig], ChunkIssue) = supply[Twig] + ChunkIssue
      <4>1. supply[Twig] \in 0..AssetMax /\ ChunkIssue \in (-AssetMax)..AssetMax
        BY <2>3, ChunkType, Constants
      <4>2. QED  BY <4>1, AddSmall
    <3>7. supply[Twig] + ChunkIssue >= MaxSupply
      BY <2>3, <3>2, <3>3, <3>4, <3>5, <3>6, ChunkType, Constants
    <3>8. QED  BY <2>5, <3>7 DEF Running
  <2>6. CASE Running("transfer") /\ ~CanTransferNow
    <3> SUFFICES ASSUME e.amount # 0, e.to \notin refusing
                 PROVE  FALSE
      BY <2>6 DEF Running
    <3>1. e \in Shares \cup Payouts
      BY <2>2, <2>6, Kinds DEF Running, Rest
    <3>2. /\ e.act = "transfer" /\ e.from \in {Chunks, Bank} /\ e.to \in Account
          /\ e.amount \in Nat \ {0} /\ e.from # e.to
      BY <3>1, Kinds, Accounts
    <3>3. e.amount <= balance[e.from][Twig]
      <4>1. Moved(e, {e.from}, Account) = e.amount
        BY <3>2 DEF Moved
      <4> DEFINE sent == Flow(pending, {e.from}, Account)
                 rest == Flow(Tail(pending), {e.from}, Account)
      <4>2. sent = Moved(e, {e.from}, Account) + rest /\ rest \in Nat
        BY <2>1, InlineFacts
      <4>3. e.amount <= sent /\ sent \in Nat
        BY <3>2, <4>1, <4>2
      <4>4. CASE e.from = Chunks
        <5>1. ~Running("issue")
          BY <3>2 DEF Running
        <5>2. balance[Chunks][Twig] \in Nat
          BY <2>2, Accounts
        <5>3. Flow(pending, {Chunks}, Account) <= balance[Chunks][Twig] + 0
          BY <2>2, <5>1 DEF Queue, Held
        <5>4. sent <= balance[Chunks][Twig] + 0
          BY <4>4, <5>3
        <5> HIDE DEF sent
        <5>5. QED  BY <3>2, <4>3, <4>4, <5>2, <5>4
      <4>5. CASE e.from = Bank
        <5>1. Vault(State, pending)
          BY DEF IInv, Sound
        <5>2. balance[Bank][Twig] >= RowsDue(State) + sent /\ RowsDue(State) \in Nat
          BY <4>5, <5>1, DueType DEF Vault, State
        <5>3. balance[Bank][Twig] \in Nat
          BY <2>2, Accounts
        <5>4. QED  BY <3>2, <4>3, <4>5, <5>2, <5>3
      <4>6. QED  BY <3>2, <4>4, <4>5
    <3>4. e.from \in Account /\ balance[e.from][Twig] \in 0..AssetMax
      BY <2>3, <3>2, Accounts, Constants
    <3>5. e.from \in rows
      BY <2>3, <3>2, <3>3, <3>4
    <3>6. e.amount \in 1..AssetMax /\ T!Covers(balance[e.from][Twig], e.amount)
      <4>1. e.amount \in 1..AssetMax /\ e.amount \in 0..AssetMax
        BY <3>2, <3>3, <3>4, Constants
      <4>2. QED  BY <3>3, <3>4, <4>1, CoversSmall
    <3>7. /\ T!Listed(One(e.amount)) # {}
          /\ \A x \in T!Listed(One(e.amount)) : /\ One(e.amount)[x] \in 1..AssetMax
                                                 /\ T!Covers(balance[e.from][x], One(e.amount)[x])
      BY <3>2, <3>6, Constants DEF T!Listed, One
    <3>8. T!CanTransfer(e.from, e.to, One(e.amount))
      BY <3>2, <3>5, <3>7 DEF T!CanTransfer
    <3>9. QED  BY <2>6, <3>8 DEF CanTransferNow
  <2>7. CASE Running("onepoch") /\ ~CanOnepoch
    <3>1. e = OnEpoch(lucky.epoch)
      BY <2>2, <2>7, Kinds DEF Running, Starts, OnChunk, OnEpoch, Issue
    <3>2. installed
      BY <2>1 DEF IInv, Transaction
    <3>3. QED  BY <2>7, <3>1, <3>2 DEF CanOnepoch, OnEpoch
  <2>8. CASE Running("callback") /\ Head(pending).contract \in Broken
    <3>1. e \in Called
      BY <2>2, <2>8, Kinds DEF Running, Rest
    <3>2. QED  BY <2>8, <3>1, Kinds
  <2>9. QED  BY <2>4, <2>5, <2>6, <2>7, <2>8 DEF HeadFails
<1>2. QED  BY <1>1, Invariance, PTL

-----------------------------------------------------------------------------
(* The odds. *)

(* What the quotient of natural numbers is. *)
LEMMA DivisionIs ==
  ASSUME NEW a \in Nat, NEW b \in Nat \ {0}
  PROVE  /\ a \div b \in Nat /\ (a \div b) * b <= a
         /\ a < (a \div b) * b + b
         /\ a < b => a % b = a
OBVIOUS

(* Products are ordered as their factors are. *)
LEMMA ProductMono ==
  ASSUME NEW x \in Nat, NEW y \in Nat, NEW z \in Nat, x <= y
  PROVE  x * z <= y * z
<1>1. y * z = x * z + (y - x) * z
  OBVIOUS
<1>2. y - x \in Nat
  OBVIOUS
<1>3. (y - x) * z \in Nat /\ x * z \in Nat
  BY <1>2
<1>4. QED  BY <1>1, <1>3

(* A quotient is below a bound when the product is. *)
LEMMA QuotientBelow ==
  ASSUME NEW a \in Nat, NEW b \in Nat \ {0}, NEW c \in Nat
  PROVE  a \div b < c <=> a < c * b
<1> DEFINE q == a \div b
<1>1. q \in Nat /\ q * b <= a /\ a < q * b + b
  BY DivisionIs
<1> HIDE DEF q
<1>2. q * b \in Nat /\ c * b \in Nat
  BY <1>1
<1>3. CASE q < c
  <2>1. q + 1 <= c /\ q + 1 \in Nat
    BY <1>1, <1>3
  <2>2. (q + 1) * b <= c * b
    BY <2>1, ProductMono
  <2>3. (q + 1) * b = q * b + b
    BY <1>1
  <2>4. QED  BY <1>1, <1>2, <1>3, <2>2, <2>3 DEF q
<1>4. CASE c <= q
  <2>1. c * b <= q * b
    BY <1>1, <1>4, ProductMono
  <2>2. QED  BY <1>1, <1>2, <1>4, <2>1 DEF q
<1>5. q < c \/ c <= q
  BY <1>1
<1>6. QED  BY <1>3, <1>4, <1>5

(* The numbers up to n, with zero. *)
LEMMA UpTo ==
  ASSUME NEW n \in Nat
  PROVE  Cardinality(0..n) = n + 1
BY FS_Interval

(* Odds whose rolls are taken as a remainder: 16 in a period hit. *)
LEMMA FairRemainder ==
  ASSUME NEW odds \in Nat \ {0}, odds * 16 >= RollSplit
  PROVE  Cardinality({roll \in 0..(odds * 16 - 1) : Hits(odds, roll)}) = 16
<1> DEFINE p == odds * 16
<1>1. p \in Nat \ {0} /\ p >= 16
  OBVIOUS
<1>2. ASSUME NEW roll \in 0..(p - 1)
      PROVE  Hits(odds, roll) <=> roll < 16
  <2>1. get_rand(roll, p) = roll % p
    BY DEF get_rand
  <2>2. Hits(odds, roll) <=> roll % p < 16
    BY <2>1 DEF Hits
  <2> HIDE DEF p
  <2>3. roll \in Nat /\ roll < p
    BY <1>1
  <2>4. roll % p = roll
    BY <1>1, <2>3, DivisionIs
  <2>5. QED  BY <2>2, <2>4
<1> HIDE DEF p
<1>3. {roll \in 0..(p - 1) : Hits(odds, roll)} = 0..15
  BY <1>1, <1>2
<1>4. Cardinality(0..15) = 16
  <2> DEFINE k == 15
  <2>1. k \in Nat /\ k + 1 = 16
    OBVIOUS
  <2> HIDE DEF k
  <2>2. Cardinality(0..k) = k + 1
    BY <2>1, UpTo
  <2>3. QED  BY <2>1, <2>2 DEF k
<1>5. QED  BY <1>3, <1>4 DEF p

(* Odds whose rolls are scaled: the rolls below one in so many hit. *)
LEMMA FairScaled ==
  ASSUME NEW odds \in Nat \ {0}, ~(odds * 16 >= RollSplit)
  PROVE  odds * Cardinality({roll \in 0..(RollDigits - 1) : Hits(odds, roll)})
           \in RollDigits..(RollDigits + odds - 1)
<1> DEFINE d == RollDigits
           q == (d - 1) \div odds
<1>1. d \in Nat \ {0} /\ d - 1 \in Nat
  BY EmissionAssumption
<1> HIDE DEF d
<1>2. q \in Nat /\ q * odds <= d - 1 /\ d - 1 < q * odds + odds
  BY <1>1, DivisionIs
<1> HIDE DEF q
<1>3. q <= d - 1
  <2>1. q * 1 <= q * odds
    <3>1. 1 * q <= odds * q
      BY <1>2, ProductMono
    <3>2. QED  BY <1>2, <3>1
  <2>2. q * odds \in Nat
    BY <1>2
  <2>3. QED  BY <1>1, <1>2, <2>1, <2>2
<1>4. ASSUME NEW roll \in 0..(d - 1)
      PROVE  Hits(odds, roll) <=> roll <= q
  <2>1. roll \in Nat /\ roll < d
    BY <1>1
  <2>2. get_rand(roll, odds * 16) = ((roll % d) * (odds * 16)) \div d
    BY DEF get_rand, d
  <2>3. roll % d = roll
    BY <1>1, <2>1, DivisionIs
  <2>4. roll * odds \in Nat /\ roll * (odds * 16) = (roll * odds) * 16
    BY <2>1
  <2>5. Hits(odds, roll) <=> ((roll * odds) * 16) \div d < 16
    BY <2>2, <2>3, <2>4 DEF Hits
  <2> DEFINE m == roll * odds
  <2>6. m \in Nat /\ m * 16 \in Nat
    BY <2>4
  <2>7. Hits(odds, roll) <=> (m * 16) \div d < 16
    BY <2>5
  <2> HIDE DEF m
  <2>8. (m * 16) \div d < 16 <=> m * 16 < 16 * d
    BY <1>1, <2>6, QuotientBelow
  <2>9. Hits(odds, roll) <=> m < d
    BY <1>1, <2>6, <2>7, <2>8
  <2>10. CASE roll <= q
    <3>1. roll * odds <= q * odds
      BY <1>2, <2>1, <2>10, ProductMono
    <3>2. q * odds \in Nat
      BY <1>2
    <3>3. m < d
      BY <1>1, <1>2, <2>6, <3>1, <3>2 DEF m
    <3>4. QED  BY <2>9, <2>10, <3>3
  <2>11. CASE ~(roll <= q)
    <3>1. q + 1 <= roll /\ q + 1 \in Nat
      BY <1>2, <2>1, <2>11
    <3>2. (q + 1) * odds <= roll * odds
      BY <2>1, <3>1, ProductMono
    <3>3. (q + 1) * odds = q * odds + odds /\ q * odds \in Nat
      BY <1>2
    <3>4. ~(m < d)
      BY <1>1, <1>2, <2>6, <3>2, <3>3 DEF m
    <3>5. QED  BY <2>9, <2>11, <3>4
  <2>12. QED  BY <2>10, <2>11
<1>5. {roll \in 0..(d - 1) : Hits(odds, roll)} = 0..q
  BY <1>1, <1>2, <1>3, <1>4
<1>6. Cardinality(0..q) = q + 1
  BY <1>2, UpTo
<1>7. odds * (q + 1) = q * odds + odds /\ q * odds \in Nat
  BY <1>2
<1>8. odds * (q + 1) \in d..(d + odds - 1)
  BY <1>1, <1>2, <1>7
<1>9. QED  BY <1>5, <1>6, <1>8 DEF d

(* A lottery is as easy as its odds say, whatever odds and roll reduction it has. *)
THEOREM FairLottery == Spec => []RollsAreFair
<1>1. RollsAreFair
  <2> SUFFICES ASSUME NEW odds \in 1..(2 * Odds)
               PROVE  LET period == IF odds * 16 >= RollSplit
                                      THEN odds * 16 ELSE RollDigits
                      IN  odds * Cardinality({roll \in 0..(period - 1) : Hits(odds, roll)})
                            \in period..(period + odds - 1)
    BY DEF RollsAreFair
  <2>1. odds \in Nat \ {0}
    BY EmissionAssumption
  <2>2. CASE odds * 16 >= RollSplit
    <3>1. Cardinality({roll \in 0..(odds * 16 - 1) : Hits(odds, roll)}) = 16
      BY <2>1, <2>2, FairRemainder
    <3>2. odds * 16 \in (odds * 16)..(odds * 16 + odds - 1)
      BY <2>1
    <3>3. QED  BY <2>2, <3>1, <3>2
  <2>3. CASE ~(odds * 16 >= RollSplit)
    BY <2>1, <2>3, FairScaled
  <2>4. QED  BY <2>2, <2>3
<1>2. QED  BY <1>1, PTL

-----------------------------------------------------------------------------
(* The callbacks. *)

(* A row that is active was active as it is before the step, or is activated by it: *)
(* setting a row to another contract makes it inactive.                             *)
THEOREM ActivatedFirst == Spec => ActivatedAsIs
<1> DEFINE Activated ==
      \A i \in Active' : \/ i \in Active /\ rngcalls[i] = rngcalls'[i]
                         \/ modrngcall(i, TRUE)
<1>1. ASSUME IInv, [Next]_vars
      PROVE  [Activated]_vars
  <2>1. CASE rngcalls' = rngcalls
    BY <2>1 DEF Active
  <2>2. ASSUME NEW index \in Index, NEW contract \in Callee, setrngcall(index, contract)
        PROVE  Activated
    BY <2>2 DEF setrngcall, PutRngcall, Active
  <2>3. ASSUME NEW index \in Index, NEW active \in BOOLEAN, modrngcall(index, active)
        PROVE  Activated
    <3>1. /\ index \in DOMAIN rngcalls
          /\ rngcalls' = [i \in DOMAIN rngcalls \cup {index} |->
                            IF i = index THEN [rngcalls[index] EXCEPT !.active = active]
                                         ELSE rngcalls[i]]
          /\ rngcalls[index] \in [contract : Callee, active : BOOLEAN]
      BY <1>1, <2>3 DEF modrngcall, PutRngcall, IInv, Tables
    <3>2. DOMAIN rngcalls' = DOMAIN rngcalls
      BY <3>1
    <3>3. \A i \in DOMAIN rngcalls \ {index} : rngcalls'[i] = rngcalls[i]
      BY <3>1
    <3>4. rngcalls'[index].active = active
      BY <3>1
    <3>5. index \in Active' => active = TRUE
      BY <3>4 DEF Active
    <3>6. index \in Active' => modrngcall(index, TRUE)
      BY <2>3, <3>5
    <3>7. QED  BY <3>2, <3>3, <3>6 DEF Active
  <2>4. ASSUME NEW index \in Index, rmvrngcall(index)
        PROVE  Activated
    BY <2>4 DEF rmvrngcall, Active
  <2>5. CASE Hit
    BY <2>1, <2>5 DEF Hit, HitChunk, HitEpoch, Block, contracts
  <2>6. CASE Inline
    BY <2>1, <2>6 DEF Inline, callback, onchunk, issue, transfer, token_deposit, onepoch,
       Abort, contracts
  <2>7. CASE Environment
    BY <2>1, <2>7 DEF Environment, gift, open, changecontract, contracts
  <2>8. CASE Administration
    <3>1. CASE cleanup \/ close \/ \E destruct \in BOOLEAN : init(destruct)
      BY <2>1, <3>1 DEF cleanup, close, init, contracts
    <3>2. QED  BY <2>2, <2>3, <2>4, <2>8, <3>1 DEF Administration
  <2>9. CASE UNCHANGED vars
    BY <2>9
  <2>10. QED  BY <1>1, <2>5, <2>6, <2>7, <2>8, <2>9 DEF Next
<1>2. QED  BY <1>1, Invariance, PTL DEF Spec, ActivatedAsIs
=============================================================================
