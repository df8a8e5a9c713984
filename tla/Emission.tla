------------------------------ MODULE Emission ------------------------------
(***************************************************************************)
(* The emission of the core token.  A lucky block (eosio.system) finds a   *)
(* chunk: tokens are issued to the chunks account (twig.token) and shared  *)
(* out at once to the world, the board and, through the vesting table of   *)
(* eosio.bank, to the team and the producer of the block.  When the chunks *)
(* of an epoch are found the next lucky block starts a new epoch, and the  *)
(* bank closes the books of the last one.                                  *)
(*                                                                         *)
(* All of this happens in the transaction of one block: onblock and the    *)
(* inline actions it sends.  pending is the queue of inline actions, run   *)
(* depth first; saved is the state before the block, restored when any of  *)
(* them fails.  The token ledger is an instance of TwigToken.              *)
(*                                                                         *)
(* A block whose luck roll misses changes only counters that nothing here  *)
(* reads, and is a stuttering step.                                        *)
(***************************************************************************)
EXTENDS Integers, Sequences, FiniteSets, SequencesExt, Totals

CONSTANTS
  Producer,        \* the accounts that produce blocks
  User,            \* an account that holds the initial supply
  Chunks, Bank, Team, Board, World,  \* the eosio.* and team accounts
  Eosio,           \* the value of aluckynumber.producer before the first hit
  IntMax, AssetMax,
  ChunksPerEpoch,  \* lucky_number_chunks, 60750 in the code
  EmissionEpochs,  \* the last epoch that issues tokens, 20 in the code
  MaxSupply,       \* the maximum supply of the core token
  InitialSupply,   \* what was issued before the lottery started
  Odds,            \* aluckynumber.odds, 256 in the code
  RollDigits,      \* what get_rand reduces a roll to, 10^6 in the code
  RollSplit,       \* the least maximum it does not do this for, 65535
  Rolls,           \* what get_uint64 returns
  Callee,          \* contracts that can be called with a random number
  Broken,          \* those whose action fails
  Index,           \* the indices of rngcalls
  Moody,           \* payees that may refuse the transfers they are notified of
  Gifts,           \* the amounts sent to the chunks account or the bank
  MaxEpoch,        \* bound: no epoch after this one starts; out of reach of the
                   \* gifts when it is large enough
  MaxGifts,        \* bound: how many gifts there are
  MaxResets        \* bound: how often the administrator resets something

Account == Producer \cup {User, Chunks, Bank, Team, Board, World}
Twig == "TWIG"
Symbol == {Twig}
MaxSupplies == {MaxSupply}
Quantities == 1..MaxSupply

ASSUME EmissionAssumption ==
  /\ IsFiniteSet(Producer)
  /\ IsInjective(<<User, Chunks, Bank, Team, Board, World>>)
  /\ {User, Chunks, Bank, Team, Board, World} \cap Producer = {}
  /\ ChunksPerEpoch \in Nat \ {0} /\ EmissionEpochs \in Nat \ {0}
  /\ IntMax \in Nat /\ AssetMax \in Nat /\ 2 * AssetMax <= IntMax
  /\ MaxSupply \in 1..AssetMax /\ InitialSupply \in 0..(MaxSupply - 1)
  /\ Odds \in Nat \ {0} /\ RollDigits \in Nat \ {0} /\ RollSplit \in Nat \ {0}
  /\ Rolls \subseteq Nat
  /\ Broken \subseteq Callee /\ Index \subseteq Nat
  /\ Moody \subseteq Producer \cup {Team}
  /\ Gifts \subseteq 1..AssetMax
  /\ MaxEpoch \in Nat \ {0} /\ MaxGifts \in Nat /\ MaxResets \in Nat

VARIABLES
  configured, supply, max_supply, rows, balance,  \* the token ledger
  installed,  \* whether the system contract's singletons exist
  rngcalls,   \* the rngcalls table: contract and active, by index
  refusing,   \* the payees whose contracts now refuse transfers
  lucky,      \* aluckynumber: epoch, chunks_remaining, producer
  vesting,    \* the bank's vesting table, by payee
  pending,    \* the inline actions of the block that are still to run
  saved,      \* the state before the block, while pending is not empty
  deposits,   \* history: what the bank received for each payee in each epoch
  paid,       \* history: what the bank paid to each payee
  gifts,      \* how many gifts were made
  resets      \* how often the administrator has reset something

ledger == <<configured, supply, max_supply, rows, balance>>
contracts == <<rngcalls, refusing>>
vars == <<ledger, installed, contracts, lucky, vesting, pending, saved,
          deposits, paid, gifts, resets>>

T == INSTANCE TwigToken

One(n) == [s \in Symbol |-> n]
Held(a) == balance[a][Twig]

Payee == Producer \cup {Team}
Epoch == 1..MaxEpoch

-----------------------------------------------------------------------------
(* Inline actions. *)

OnChunk == [act |-> "onchunk"]
Callback(contract) == [act |-> "callback", contract |-> contract]
OnEpoch(epoch) == [act |-> "onepoch", epoch |-> epoch]
Issue(n) == [act |-> "issue", amount |-> n]
Transfer(from, to, n, memo) ==
  [act |-> "transfer", from |-> from, to |-> to, amount |-> n, memo |-> memo]

\* What the transaction of a block may change, all of which an abort restores.
State == [supply |-> supply, rows |-> rows, balance |-> balance,
          lucky |-> lucky, vesting |-> vesting,
          deposits |-> deposits, paid |-> paid]

NoBlock == <<>>

Quiet == pending = <<>>
Running(act) == ~Quiet /\ Head(pending).act = act

\* The transaction goes on with the given queue, or ends when it is empty.
Continue(queue) ==
  /\ pending' = queue
  /\ saved' = IF queue = <<>> THEN NoBlock ELSE saved

-----------------------------------------------------------------------------
(* The state after boot: the lottery is initialised, User holds the initial *)
(* supply, and the row of the chunks account may or may not have been       *)
(* opened.                                                                  *)
Init ==
  /\ configured = TRUE
  /\ max_supply = One(MaxSupply) /\ supply = One(InitialSupply)
  /\ balance = [a \in Account |-> One(IF a = User THEN InitialSupply ELSE 0)]
  /\ \E opened \in SUBSET {Chunks} : rows = {User} \cup opened
  /\ installed = TRUE /\ rngcalls = <<>> /\ refusing = {}
  /\ lucky = [epoch |-> 1, chunks |-> ChunksPerEpoch, producer |-> Eosio]
  /\ vesting = <<>>
  /\ pending = <<>> /\ saved = NoBlock
  /\ deposits = [p \in Payee |-> [e \in Epoch |-> 0]]
  /\ paid = [p \in Payee |-> 0]
  /\ gifts = 0 /\ resets = 0

-----------------------------------------------------------------------------
(* onblock and on_a_lucky_block, when the roll hits. *)

\* Mutant of get_rand: the digits are scaled to one more than the maximum.
get_rand_inclusive(roll, max_value) ==
  IF max_value >= RollSplit THEN roll % (max_value + 1)
  ELSE ((roll % RollDigits) * (max_value + 1)) \div RollDigits

\* A roll below max_value.  The product of doubles in the code has the same
\* integer part as this exact one, for every roll and the odds of the code.
get_rand(roll, max_value) ==
  IF max_value >= RollSplit THEN roll % max_value
  ELSE ((roll % RollDigits) * max_value) \div RollDigits

Hits(odds, roll) == get_rand(roll, odds * 16) < 16

Active == {i \in DOMAIN rngcalls : rngcalls[i].active}

\* process_rng_calls: one inline action for every active row, in their order.
Callbacks ==
  LET Order == {order \in [1..Cardinality(Active) -> Active] :
                  \A m, n \in DOMAIN order : m < n => order[m] < order[n]}
  IN  {[n \in DOMAIN order |-> Callback(rngcalls[order[n]].contract)] :
         order \in Order}

\* What onblock queues and stores; the state before it is kept for an abort.
Block(hit, inline) ==
  /\ Quiet /\ installed
  /\ lucky' = hit
  /\ \E callbacks \in Callbacks : pending' = <<inline>> \o callbacks
  /\ saved' = State
  /\ UNCHANGED <<ledger, installed, contracts, vesting, deposits, paid, gifts,
                 resets>>

\* Mutant of FoundChunk: chunks_remaining is not decremented.
FoundChunkAgain(producer) == [lucky EXCEPT !.producer = producer]

FoundChunk(producer) ==
  [lucky EXCEPT !.producer = producer, !.chunks = @ - 1]

\* Mutant of HitChunk: chunks_remaining is not compared with 0.
HitChunkUnchecked(producer) == Block(FoundChunk(producer), OnChunk)

\* A chunk is found.
HitChunk(producer) ==
  /\ lucky.chunks > 0
  /\ Block(FoundChunk(producer), OnChunk)

\* No chunk is left: the hit starts a new epoch.
HitEpoch(producer) ==
  /\ lucky.chunks = 0 /\ lucky.epoch < MaxEpoch
  /\ Block([epoch |-> lucky.epoch + 1, chunks |-> ChunksPerEpoch,
            producer |-> producer],
           OnEpoch(lucky.epoch + 1))

\* The callee runs when all that the hit has started is done.
callback ==
  /\ Running("callback") /\ Head(pending).contract \notin Broken
  /\ Continue(Tail(pending))
  /\ UNCHANGED <<ledger, installed, contracts, lucky, vesting, deposits, paid,
                 gifts, resets>>

-----------------------------------------------------------------------------
(* onchunk: the system contract issues the chunk and shares it out. *)

\* lucky_number_chunk_weight times the maximum supply, rounded down.
ChunkIssue == MaxSupply \div (ChunksPerEpoch * EmissionEpochs)

\* The weights, in parts of 40000.  The products of doubles in the code agree
\* with these exact ones on every amount up to three million units.
WorldShare(n) == (n * 39000) \div 40000
TeamShare(n) == (n * 450) \div 40000
BoardShare(n) == (n * 450) \div 40000
ProducerShare(n) == (n * 100) \div 40000

\* epoch < 21
Emitting == lucky.epoch < EmissionEpochs + 1

\* Mutant of ChunkActions: the shares are sent before the chunk is issued.
ChunkActionsIssueLast(n) ==
  << Transfer(Chunks, Bank, TeamShare(n), "team_share"),
     Transfer(Chunks, Board, BoardShare(n), "board_share"),
     Transfer(Chunks, Bank, ProducerShare(n), "producer_share"),
     Transfer(Chunks, World, WorldShare(n), "Refilling World") >>
  \o (IF Emitting THEN <<Issue(ChunkIssue)>> ELSE <<>>)

\* The inline actions onchunk sends when n tokens are there to share.
ChunkActions(n) ==
  (IF Emitting THEN <<Issue(ChunkIssue)>> ELSE <<>>)
  \o << Transfer(Chunks, Bank, TeamShare(n), "team_share"),
        Transfer(Chunks, Board, BoardShare(n), "board_share"),
        Transfer(Chunks, Bank, ProducerShare(n), "producer_share"),
        Transfer(Chunks, World, WorldShare(n), "Refilling World") >>

CanOnchunk == Chunks \in rows

onchunk ==
  /\ Running("onchunk") /\ CanOnchunk
  /\ Continue(ChunkActions(Held(Chunks) + IF Emitting THEN ChunkIssue ELSE 0)
              \o Tail(pending))
  /\ UNCHANGED <<ledger, installed, contracts, lucky, vesting, deposits, paid,
                 gifts, resets>>

-----------------------------------------------------------------------------
(* The token contract's part in the block. *)

CanIssueNow == T!CanIssue(One(Head(pending).amount))

issue ==
  /\ Running("issue") /\ CanIssueNow
  /\ T!issue(Chunks, One(Head(pending).amount))
  /\ Continue(Tail(pending))
  /\ UNCHANGED <<installed, contracts, lucky, vesting, deposits, paid, gifts,
                 resets>>

\* The recipient is notified, and its contract may abort the transfer.
CanTransferNow ==
  LET t == Head(pending)
  IN  T!CanTransfer(t.from, t.to, One(t.amount)) /\ t.to \notin refusing

\* The transfers that token_deposit does not ignore.
IsDeposit(t) == t.to = Bank /\ t.from = Chunks

\* A transfer that the bank has nothing to do with, or pays itself.
transfer ==
  LET t == Head(pending)
  IN  /\ Running("transfer") /\ CanTransferNow /\ ~IsDeposit(t)
      /\ T!transfer(t.from, t.to, One(t.amount))
      /\ paid' = IF t.from = Bank THEN [paid EXCEPT ![t.to] = @ + t.amount]
                                  ELSE paid
      /\ Continue(Tail(pending))
      /\ UNCHANGED <<installed, contracts, lucky, vesting, deposits, gifts,
                     resets>>

-----------------------------------------------------------------------------
(* The bank. *)

\* The account a deposit vests for.
PayeeOf(t) == IF t.memo = "team_share" THEN Team ELSE lucky.producer

NewRow(n) == [vested |-> n, unvesting_total |-> 0, unvested |-> 0,
              epoch |-> lucky.epoch]

\* Mutant of Release: what was already paid is not taken into account.
ReleaseAll(row) == row.unvesting_total

\* What a deposit releases of the tokens vested in the last epoch.  Both ratios
\* of the code are quotients of integers, so that each is 0 or 1.
Release(row) ==
  LET chunks_ratio == lucky.chunks \div ChunksPerEpoch
      inverse_paidout_ratio == 1 - (row.unvested \div row.unvesting_total)
      payout_ratio == inverse_paidout_ratio - chunks_ratio
  IN  IF row.unvesting_total > 0 /\ payout_ratio > 0
        THEN Min({payout_ratio * row.unvesting_total,
                  row.unvesting_total - row.unvested})
        ELSE 0

Payout(payee, n) == Transfer(Bank, payee, n, "Distributing")

\* The transfer to the bank and token_deposit, its notification handler.
token_deposit ==
  LET t == Head(pending)
      payee == PayeeOf(t)
      known == payee \in DOMAIN vesting
      n == IF known THEN Release(vesting[payee]) ELSE 0
      row == IF known THEN [vesting[payee] EXCEPT !.vested = @ + t.amount,
                                                  !.unvested = @ + n]
                      ELSE NewRow(t.amount)
  IN  /\ Running("transfer") /\ CanTransferNow /\ IsDeposit(t)
      /\ T!transfer(t.from, t.to, One(t.amount))
      /\ vesting' = [p \in DOMAIN vesting \cup {payee} |->
                       IF p = payee THEN row ELSE vesting[p]]
      /\ deposits' = [deposits EXCEPT ![payee][lucky.epoch] = @ + t.amount]
      /\ Continue((IF n > 0 THEN <<Payout(payee, n)>> ELSE <<>>)
                  \o Tail(pending))
      /\ UNCHANGED <<installed, contracts, lucky, paid, gifts, resets>>

\* The rows whose epoch has just ended.
Finished(epoch) == {p \in DOMAIN vesting : vesting[p].epoch + 1 = epoch}

\* Mutant of Rolled: what the row has paid is carried into the new epoch.
RolledKeepingUnvested(row, epoch) ==
  [row EXCEPT !.unvesting_total = row.vested, !.vested = 0, !.epoch = epoch]

\* A row after the end of its epoch.
Rolled(row, epoch) ==
  [unvesting_total |-> row.vested, unvested |-> 0, vested |-> 0,
   epoch |-> epoch]

Outstanding(row) == row.unvesting_total - row.unvested

CanOnepoch == installed /\ lucky.epoch = Head(pending).epoch

onepoch ==
  LET epoch == Head(pending).epoch
      owed == SetToSeq({p \in Finished(epoch) : Outstanding(vesting[p]) > 0})
  IN  /\ Running("onepoch") /\ CanOnepoch
      /\ vesting' = [p \in DOMAIN vesting |->
                       IF p \in Finished(epoch) THEN Rolled(vesting[p], epoch)
                                                ELSE vesting[p]]
      /\ Continue([i \in DOMAIN owed |->
                     Payout(owed[i], Outstanding(vesting[owed[i]]))]
                  \o Tail(pending))
      /\ UNCHANGED <<ledger, installed, contracts, lucky, deposits, paid, gifts,
                     resets>>

-----------------------------------------------------------------------------
(* The end of the transaction of the block. *)

\* An inline action fails: the whole transaction is undone.
HeadFails ==
  \/ Running("onchunk") /\ ~CanOnchunk
  \/ Running("issue") /\ ~CanIssueNow
  \/ Running("transfer") /\ ~CanTransferNow
  \/ Running("onepoch") /\ ~CanOnepoch
  \/ Running("callback") /\ Head(pending).contract \in Broken

\* Mutant of LuckyBefore: the lottery keeps the chunk that was found.
LuckyAfter == lucky

\* The lottery before the block.
LuckyBefore == saved.lucky

Abort ==
  /\ HeadFails
  /\ supply' = saved.supply /\ rows' = saved.rows /\ balance' = saved.balance
  /\ lucky' = LuckyBefore /\ vesting' = saved.vesting
  /\ deposits' = saved.deposits /\ paid' = saved.paid
  /\ Continue(<<>>)
  /\ UNCHANGED <<configured, max_supply, installed, contracts, gifts, resets>>

-----------------------------------------------------------------------------
(* What happens between blocks. *)

\* Tokens that were not emitted, or that the world has paid out, are sent to the
\* chunks account, which the next chunk shares out, or to the bank, which ignores
\* them.
gift(from, to, n) ==
  /\ Quiet /\ gifts < MaxGifts
  /\ T!transfer(from, to, One(n))
  /\ gifts' = gifts + 1
  /\ UNCHANGED <<installed, contracts, lucky, vesting, pending, saved, deposits,
                 paid, resets>>

open ==
  /\ Quiet
  /\ T!open(Chunks)
  /\ UNCHANGED <<installed, contracts, lucky, vesting, pending, saved, deposits,
                 paid, gifts, resets>>

close ==
  /\ Quiet
  /\ T!close(Chunks)
  /\ UNCHANGED <<installed, contracts, lucky, vesting, pending, saved, deposits,
                 paid, gifts, resets>>

\* The system contract's init removes or resets the lottery.
init(destruct) ==
  /\ Quiet /\ resets < MaxResets
  /\ installed' = ~destruct
  /\ lucky' = [epoch |-> 1, chunks |-> ChunksPerEpoch, producer |-> Eosio]
  /\ resets' = resets + 1
  /\ UNCHANGED <<ledger, contracts, vesting, pending, saved, deposits, paid,
                 gifts>>

\* A payee deploys a contract that refuses transfers, or replaces it.
changecontract(payee) ==
  /\ Quiet
  /\ refusing' = IF payee \in refusing THEN refusing \ {payee}
                                       ELSE refusing \cup {payee}
  /\ UNCHANGED <<ledger, installed, rngcalls, lucky, vesting, pending, saved,
                 deposits, paid, gifts, resets>>

OnlyRngcalls ==
  UNCHANGED <<refusing, ledger, installed, lucky, vesting, pending, saved,
              deposits, paid, gifts, resets>>

PutRngcall(index, row) ==
  rngcalls' = [i \in DOMAIN rngcalls \cup {index} |->
                 IF i = index THEN row ELSE rngcalls[i]]

\* Mutant of setrngcall: a row that is set again stays active.
setrngcall_active(index, contract) ==
  /\ Quiet
  /\ PutRngcall(index, [contract |-> contract, active |-> index \in Active])
  /\ OnlyRngcalls

\* A row is inactive when it is set, and when it is set again.
setrngcall(index, contract) ==
  /\ Quiet
  /\ PutRngcall(index, [contract |-> contract, active |-> FALSE])
  /\ OnlyRngcalls

modrngcall(index, active) ==
  /\ Quiet /\ index \in DOMAIN rngcalls
  /\ PutRngcall(index, [rngcalls[index] EXCEPT !.active = active])
  /\ OnlyRngcalls

rmvrngcall(index) ==
  /\ Quiet /\ index \in DOMAIN rngcalls
  /\ rngcalls' = [i \in DOMAIN rngcalls \ {index} |-> rngcalls[i]]
  /\ OnlyRngcalls

\* The bank's cleanup deletes the vesting table.
cleanup ==
  /\ Quiet /\ resets < MaxResets
  /\ vesting' = <<>>
  /\ resets' = resets + 1
  /\ UNCHANGED <<ledger, installed, contracts, lucky, pending, saved, deposits,
                 paid, gifts>>

-----------------------------------------------------------------------------
Hit ==
  \E roll \in Rolls, producer \in Producer :
    Hits(Odds, roll) /\ (HitChunk(producer) \/ HitEpoch(producer))

Inline ==
  callback \/ onchunk \/ issue \/ transfer \/ token_deposit \/ onepoch \/ Abort

Environment ==
  \/ \E from \in {User, World}, to \in {Chunks, Bank}, n \in Gifts :
       gift(from, to, n)
  \/ open
  \/ \E payee \in Moody : changecontract(payee)

Administration ==
  \/ \E destruct \in BOOLEAN : init(destruct)
  \/ cleanup
  \/ close
  \/ \E index \in Index :
       \/ \E contract \in Callee : setrngcall(index, contract)
       \/ \E active \in BOOLEAN : modrngcall(index, active)
       \/ rmvrngcall(index)

Next == Hit \/ Inline \/ Environment \/ Administration

Spec == Init /\ [][Next]_vars

\* Blocks keep being produced and their roll keeps hitting, and the inline actions
\* of a block run in its transaction.
FairSpec == Spec /\ WF_vars(Hit) /\ WF_vars(Inline)

-----------------------------------------------------------------------------
(* Properties. *)

Amount == 0..AssetMax

Row == [vested : Amount, unvesting_total : Amount, unvested : Amount,
        epoch : Epoch]

\* Every variable has the type its table stores; the ledger has its own.
TypeOK ==
  /\ T!TypeOK
  /\ installed \in BOOLEAN /\ refusing \subseteq Moody
  /\ DOMAIN rngcalls \subseteq Index
  /\ \A i \in DOMAIN rngcalls :
       rngcalls[i] \in [contract : Callee, active : BOOLEAN]
  /\ lucky \in [epoch : Epoch, chunks : 0..ChunksPerEpoch,
                producer : Producer \cup {Eosio}]
  /\ DOMAIN vesting \subseteq Payee
  /\ \A p \in DOMAIN vesting : vesting[p] \in Row
  /\ deposits \in [Payee -> [Epoch -> Amount]]
  /\ paid \in [Payee -> Amount]
  /\ gifts \in 0..MaxGifts /\ resets \in 0..MaxResets

\* The payouts of the bank that are still in the queue.
QueuedPayouts ==
  {i \in DOMAIN pending : /\ pending[i].act = "transfer"
                          /\ pending[i].from = Bank}

\* What the bank owes: the tokens vested for every payee, those of the last
\* epoch that are not paid yet, and the payouts on their way.
Owed ==
  Total([p \in DOMAIN vesting |-> vesting[p].vested + Outstanding(vesting[p])],
        DOMAIN vesting)
  + Total([i \in QueuedPayouts |-> pending[i].amount], QueuedPayouts)

\* The bank can always pay what it owes, in the middle of a block, after an
\* aborted one, and after its table or the lottery was reset.
Solvency == Held(Bank) >= Owed

\* Between blocks, and until something is reset, the books of the bank follow the
\* lottery: a row is in the current epoch; what was deposited in it is vesting,
\* what was deposited in the epoch before is being released, and all that came
\* earlier has been paid.
VestingSchedule ==
  Quiet /\ resets = 0 => \A p \in DOMAIN vesting :
    LET row == vesting[p]
        last == IF lucky.epoch > 1 THEN deposits[p][lucky.epoch - 1] ELSE 0
    IN  /\ row.epoch = lucky.epoch
        /\ row.vested = deposits[p][lucky.epoch]
        /\ row.unvesting_total = last
        /\ row.unvested \in 0..last
        /\ paid[p] = row.unvested
                     + Total(deposits[p], {e \in Epoch : e < lucky.epoch - 1})

\* The chunks found since the lottery started in epochs that issue tokens.
ChunksFound ==
  Cardinality({c \in Epoch \X (1..ChunksPerEpoch) :
    /\ c[1] <= EmissionEpochs
    /\ \/ c[1] < lucky.epoch
       \/ c[1] = lucky.epoch /\ c[2] > lucky.chunks})

\* Between blocks, and until something is reset, exactly the found chunks have been
\* issued: an aborted block neither issues a chunk nor uses one up.
SupplyFollowsLottery ==
  Quiet /\ resets = 0 => supply[Twig] = InitialSupply + ChunkIssue * ChunksFound

\* A block fails for no other reason than these: the chunks account has no row,
\* the issue would reach the maximum supply, a share rounds down to nothing, a
\* payee refuses its payout, or a contract that is called back fails.  No payout
\* fails for want of tokens, and the shares never exceed what was there to share.
AbortsAreForeseen ==
  HeadFails =>
    \/ Chunks \notin rows
    \/ /\ Head(pending).act = "issue"
       /\ supply[Twig] + ChunkIssue >= MaxSupply
    \/ /\ Head(pending).act = "transfer"
       /\ Head(pending).amount = 0 \/ Head(pending).to \in refusing
    \/ Running("callback") /\ \E i \in Active : rngcalls[i].contract \in Broken

\* Nobody's code runs in the transaction of a block before it was activated as it
\* is: setting a row to another contract makes it inactive, whatever it was.
ActivatedAsIs ==
  [][\A i \in Active' :
       \/ i \in Active /\ rngcalls[i] = rngcalls'[i]
       \/ modrngcall(i, TRUE)]_vars

\* A lottery that starts is no easier and no harder than its odds, and not
\* impossible: one roll in as many as the odds hits, up to rounding, for the odds
\* that are scaled and for those that take a remainder.
RollsAreFair ==
  lucky.producer = Eosio => \A odds \in 1..(2 * Odds) :
    LET period == IF odds * 16 >= RollSplit THEN odds * 16 ELSE RollDigits
    IN  odds * Cardinality({roll \in 0..(period - 1) : Hits(odds, roll)})
          \in period..(period + odds - 1)

\* Nothing is reset, and from some time on the chunks account keeps its row, no
\* broken contract is called and no payee refuses its payout.
LeftAlone ==
  /\ [](resets = 0)
  /\ <>[](Chunks \in rows)
  /\ <>[](\A i \in Active : rngcalls[i].contract \notin Broken)
  /\ <>[](refusing = {})

\* When the maximum supply is out of reach of all the chunks there are to issue, the
\* lottery finds every one of them, and starts the first epoch that issues nothing.
EmitsToTheEnd ==
  /\ InitialSupply + ChunkIssue * ChunksPerEpoch * EmissionEpochs < MaxSupply
  /\ LeftAlone
  => <>(lucky.epoch > EmissionEpochs)

\* The chunks found in epochs that issue nothing.
ChunksAfterEmission ==
  IF Emitting THEN 0
    ELSE (lucky.epoch - EmissionEpochs - 1) * ChunksPerEpoch
         + (ChunksPerEpoch - lucky.chunks)

\* What the lottery does from then on: what earlier chunks left over is too little
\* to share, a share of nothing is a transfer that fails, and the hit is undone.
\* Every further chunk costs a gift, so that without any the lottery, and onblock in
\* every block that hits, stands still for ever.
NoChunkWithoutGift ==
  Quiet /\ resets = 0 => ChunksAfterEmission <= gifts

\* The comment on aluckynumber.epoch says that starting at 1 allows for an initial
\* supply of 5%, one epoch's emission: the lottery can then complete its emission.
EmissionCompletes == LeftAlone => <>(lucky.epoch > EmissionEpochs)

\* Vesting is gradual: when a part of the chunks of the epoch remains, the same
\* part of what is being released has not been paid.
VestsGradually ==
  Quiet /\ resets = 0 => \A p \in DOMAIN vesting :
    vesting[p].unvested * ChunksPerEpoch
      <= vesting[p].unvesting_total * (ChunksPerEpoch - lucky.chunks)
=============================================================================
