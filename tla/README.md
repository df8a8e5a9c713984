# TLA+ models of the TWIG system contracts

This directory holds TLA+ models of the contracts in this repository, the TLC
configurations that check them, and TLAPS proofs of the properties that matter
most. The models are translated from the code under `src/contracts`; where a
comment or the repository's README promises something else, a run shows the
difference (see *Where code and documentation differ*).

    tlc -workers 2 -config MCEmission.cfg MCEmission    # one run
    tlapm TwigTokenProofs.tla                           # one proof module

## The system

A contract is a set of actions over tables in the chain's database. An action
runs alone and to its end, and either all of its writes are kept or, when a
`check` fails, none. What makes the contracts hard is what happens *between* and
*around* actions: an action queues inline actions, which run after it in the same
transaction, depth first; a transfer notifies its two parties, whose handlers run
inside it; if any of these fails, the whole transaction is undone. The host runs
`eosio::onblock` at the start of every block, and when it fails the block goes on
without it.

| component | state | operations | talks to |
| --- | --- | --- | --- |
| `twig.token` ledger | config, `supplies` (supply and maximum by symbol), `accounts` (one row per account, a map of balances) | `cfginit`, `cfgdestruct`, `setsupplies`, `rmvsupply`, `issue`, `retire`, `transfer`, `open`, `close`, `claimdrops` | notifies `from` and `to` of a transfer |
| lottery and emission (`eosio.system`) | `aluckynumber`: epoch, chunks remaining, last producer | `init`, `onblock`, `onchunk`, `feedthebeast` | reads the token's tables, sends `issue` and four `transfer`s, and `onepoch` to the bank |
| `eosio.bank` | `vesting`: per payee what vests, what is released, what was paid | `token_deposit` (a notification), `onepoch`, `cleanup` | reads the lottery, sends `transfer`s |
| block records (`eosio.system`) | `blockinfo`: a rolling window of heights | `onblock`, `cleanblocks`, the batch query | read by other contracts |
| producers and finalizers (`eosio.system`) | `producers`, `finkeys`, `finalizers`, `finkeyidgen`, `lastpropfins`, `global` | `regproducer`, `unregprod`, `rmvproducer`, `regfinkey`, `actfinkey`, `delfinkey`, `switchtosvnn`, `onblock` | proposes a schedule and a finalizer policy to the host |
| random callbacks (`eosio.system`) | `rngcalls` | `setrngcall`, `modrngcall`, `rmvrngcall`, `onblock` | one inline action per active row and block |
| native hooks (`eosio.system`) | `limitauthchg`, `whitelist`, `contractinfo` | `limitauthchg`, `updateauth` and its kin, `newaccount`, `setabi`, `setcode` | called by the host before its own actions |
| `eosio.msig` | `proposals`, `approvals`, `invalids` | `propose`, `approve`, `unapprove`, `invalidate`, `cancel`, `exec` | sends the actions of a proposal |
| `eosio.names` | `namebids`, `bidrefunds`, `config` | `bidname`, `bidrefund`, `cleanup`, `exec` (disabled) | sends token transfers, all of which fail |
| `eosio.wrap`, `eosio.boot` | none | `exec`; `activate`, `reqactivated` | forward to the host |

### What makes each part correct, and what is hard

* **Ledger.** Balances are the supply, the supply stays below its maximum, no row
  disappears with tokens in it. Hard: 64-bit sums that wrap, rows read before and
  written after each other, symbols and whole tables that an administrator
  removes while accounts hold balances.
* **Emission and bank.** A found chunk is issued exactly once, shared out
  completely, and what the bank owes is always there; the lottery gets through its
  emission. Hard: the actions of one
  block run in three contracts in an order that matters, each reading what
  another has or has not written yet, and any one of them can undo all of them;
  administrators reset one table while the others go on.
* **Block records.** The table is bounded although blocks may fail to record
  themselves; a batch that the query reports is the one asked for, and pruning never
  takes a block that a recent batch needs. Hard: gaps.
* **Finalizers.** Three tables, the proposal and the host agree about who signs
  with which key. Hard: keys change hands and activity between elections; the
  election runs inside `onblock`, which keeps copies of state.
* **Multisig.** A proposal runs only while enough approvals stand, not before its
  delay, and at most once. Hard: approvals withdrawn or invalidated at any time,
  accounts that change what they require, a proposal that expires while its delay
  runs, a name that is used again.
* **Callbacks.** Every active callback runs in every block. Hard: any one that fails
  takes the whole block's `onblock` with it.
* **Accounts.** No account locks itself out of its permissions, no account of a
  reserved name comes to exist. Hard: limits, permissions and the whitelist change
  independently of each other.

## Modules

| module | models |
| --- | --- |
| `Totals` | the sum of a function into the naturals, as the number of its units |
| `TwigToken` | the token ledger |
| `Emission` | lottery, callbacks, `onchunk` and bank over an instance of `TwigToken` |
| `BlockInfo` | the `blockinfo` table and the batch query |
| `Finalizers` | producers, finalizer keys, elections |
| `Approvals` | what `eosio.msig` promises of a proposal, without its tables |
| `Multisig` | the contract `eosio.msig`, which implements `Approvals` |
| `Accounts` | the hooks on account names and changes of permissions |
| `MCTwigToken`, `MCEmission`, `MCBlockInfo`, `MCFinalizers`, `MCMultisig`, `MCAccounts` | bounds and symmetry for TLC |
| `TotalsTheorems`, `TwigTokenProofs`, `EmissionProofs`, `BlockInfoProofs`, `FinalizersProofs`, `MultisigProofs`, `AccountsProofs` | lemmas and proofs |

Names of variables and actions are those of the code. Definitions whose comment
starts with *Mutant of* are faulty variants of the definition below them; no
specification uses them. They exist to show that each property notices a
plausible mistake: with the variant in place of the original, TLC finds the
property violated.

### TwigToken

`supply` and `max_supply` are the two maps of the `supplies` row, `rows` the
accounts that have a row, `balance` the amounts in it; a symbol that is missing in
a map has the amount 0 (or no maximum). Amounts are as wide as `int64_t`, scaled
down: `Add` wraps around at `IntMax`, and `AssetMax` is the bound of
`asset::is_valid`. An action that takes a vector of assets takes a function from
symbols to amounts, 0 where the vector has none; a vector that names a symbol
twice is not modelled.

`issue` changes the recipient's row directly, in the code as in the model.
Permissions are not modelled: any account may call what an account may call.
`Spec` has all actions; `OperatingSpec` leaves out `cfginit` and `cfgdestruct`,
which a deployed contract does not see again. `BoundedReset` is a reset while the
accounts hold no more than a bound: each reset allows the maximum to be issued once
more, so that without one the balances would grow out of their type.

### Emission

One block is a sequence of steps. `HitChunk` or `HitEpoch` is `onblock` with a roll
that hits: it stores the lottery, saves the state of before in `saved` and puts
the first inline action in `pending`. Each further step runs the head of `pending`
and puts the inline actions it sends in front of the rest, as the host does.
`Abort` is the failure of the head: it restores `saved`. The next block starts
when `pending` is empty. A roll that misses changes nothing the model knows: its
callbacks have no effect on the tables of the contracts, and when one fails there is
nothing to undo.

The number that the provider of randomness draws is a free choice from `Rolls`;
`get_rand` and `Hits` say what becomes of it. `get_rand` scales six digits of the
number, or takes a remainder when the maximum is 65535 or more. The doubles it
multiplies were compared with the integers of the model for all the rolls at odds of
256: they round down to the same number.

`rngcalls` is the table of contracts that are called in every block. Their actions
follow those of the hit in the queue, in the order of the indices: `Callbacks` has
the sequences of them that the order allows. What they do is
theirs: they succeed, or, when the contract is one of `Broken`, fail. The payees of
the bank are notified of what they get; those of `Moody` may deploy a contract that
refuses it, and replace it again (`refusing`).

The token contract is `T == INSTANCE TwigToken`: `issue` and `transfer` are its
actions, with its guards. `token_deposit` is the transfer to the bank together with
the notification it triggers. Gifts from a user to the chunks account (shared out
with the next chunk) or the bank (ignored) happen between blocks, and so do
the administrative actions: `init` of the system contract, `cleanup` of the
bank, `close` of the chunks row.

The shares are exact fractions, 39000, 450, 450 and 100 of 40000. The code
multiplies by doubles; for every amount from 0 to three million units both round
down to the same integer. The integer quotients that the bank stores in doubles
are modelled as integer quotients.

`deposits` and `paid` are history variables: what the bank received and paid, by
payee and epoch.

The model assumes that the maximum supply is not changed while the lottery runs, and
that the system's own accounts accept their transfers. One payee that refuses can
stop the lottery for everybody: an epoch does not start as long as `onepoch` has to
pay it. `EmitsToTheEnd` therefore has as a premise that it gives in.

What the model shows of the lottery after its emission: in the first epoch that issues
nothing a chunk shares out what the chunks account holds, which is what rounding left
of the chunks before and is too little. A share of it is 0, `transfer` refuses it, the
`onblock` of the block is undone and so is that of every later block that hits, and the
callbacks with it. Each further chunk needs a gift to the chunks account
(`NoChunkWithoutGift`), so that the lottery does not go on by itself, whatever the
fairness. No comment speaks of these epochs; that the lottery gets to the first of them
is `EmitsToTheEnd`.

### BlockInfo

`own` and `zero` are the rows of the table in the two scopes the code uses.
`FailedOnblock` is a block whose `onblock` failed: its height is never recorded. The
loop that prunes at most two rows is the choice of the two lowest prunable ones.
`BatchInfo` is the query on any scope; `get_latest_block_batch_info` is what the code
computes, which reads scope 0. `gap` is a history variable, the last block that left no
record: `RecentBatchesAreFound` asks for batches of later blocks only, which the query
must find whole.

### Finalizers

`finkeys` is a set of rows, `finalizers` a function from names to rows,
`lastpropfins` the set of entries of the sorted vector, `policy` and `schedule` what
the host was given. An election chooses the producers with most votes, ties in
any order. Time is counted in slots since the last update and compared with
`blocks_per_minute`; counting stops just above it. `Updates` is an `onblock` that
elects and gives the host new producers, and `since_election`, a history variable,
counts the slots since the last one. `ElectionsAMinuteApart` speaks of two `onblock`s
that update: the comment would hold of the code if it kept the time.

`onblock` reads `global` first and writes its copy back last, so that what the
election stores there is lost: `schedule_size` and the time of the last update never
change. `switchtosvnn` is an action that this makes impossible: it elects as many
producers as the size that was lost, none, and refuses that. Its first check
(`3.producers.cpp:199`) has the message "can be run only once", but it never succeeds
even once. It is therefore no disjunct of `Next`; the theorem `SwitchAddsNothing` says
that it would add no behaviour. An election, in turn, proposes a finalizer policy whether or not the chain has
switched. Votes come from outside (`setvotes`): no action
of the code writes them. The host refuses a policy that has the same key twice.
Where the code reads an optional that holds no value, the outcomes are those of an
empty vector or a trap; a trap in `onblock` is `FailedOnblock`.

### Approvals and Multisig

`Approvals` knows of an open proposal its transaction, the levels that stand behind
it, and since when its delay counts. A level stands from its approval to its
withdrawal or revocation; the delay counts from the moment at which the standing
levels suffice, and starts again when a withdrawal takes what was needed. What the
contract stores is different: `proposals` has the earliest time of execution,
`approvals` a row per proposal with one entry for every level that was requested,
provided or not, and `invalids` the time at which an account last revoked all its
approvals, which no other row is changed for. In `Multisig` the two vectors of an
`approvals` row are one sequence of levels with the time of their approval,
`NoTime` for those that are only requested.

The refinement maps the rows to the open proposals (`open`): the levels that stand are
those of valid entries, and the start of the delay is the earliest time of execution
less the delay. `Deadline` is the last half second of the second of expiration.
`MultisigProofs` proves the refinement and the run `multisig` checks it.

Time is in blocks of half a second, `NowSec` what `time_point_sec` keeps of it.
What the accounts of a transaction require, `authority`, is external and changes at
any time. The actions of an executed transaction run after `exec` and are not part of
it; if they call `eosio.msig` again they are steps of their own, and if one fails
`exec` never happened.

What the model shows of the contract and no comment mentions:

* A level that was requested twice can approve twice, and has then to withdraw twice
  before it no longer stands. `Approvals` admits this.
* Invalidations do not restart a delay. Approvals that are given anew find the delay
  of the first quorum, which may have passed. The approvals at the execution have to
  stand all the same.
* In the second of the expiration a proposal can be executed and not be cancelled by
  others; from the next one on it is the other way round (`ExpiryIsSharp`).

### Accounts

`Accounts` has the state of the host that the hooks guard, `accounts` and `perms`, and
the two tables of the system contract. A name is in one of three sets, as `newaccount`
tells them apart; the order of characters plays no part. `newaccount` refuses a name
without a dot that is shorter than twelve characters (its check of an auction is
commented out), unless the system contract itself creates it and is on the whitelist
with a depth above 3: other rows of the whitelist have no effect. `linkauth` and
`unlinkauth` make the check of `updateauth` and are not actions of their own.
`trusted` is a history variable.

## Runs

| run | what it checks | instance |
| --- | --- | --- |
| `ledger` | `TypeOK`, `SupplyIsBacked`, `SupplyBelowMax`, `NoRowNoBalance` | a deployed token contract |
| `ledger_resets` | `DriftOnlyByReset`: supply and holdings part only by `cfginit` or `cfgdestruct` | resets at any time |
| `emission` | `Solvency`, `VestingSchedule`, `SupplyFollowsLottery`, `AbortsAreForeseen`, `RollsAreFair`, `ActivatedAsIs`, `NoChunkWithoutGift`, and under fairness `EmitsToTheEnd` | 2 producers, one of which may refuse payouts, 2 chunks per epoch, 3 epochs that emit and all that can be reached after them, 1 gift, 1 reset, 1 callback of two contracts, one of them broken |
| `blockinfo` | `WithinWindow`, `BatchesAligned`, `RecentBatchesAreFound`, `BacklogShrinks` | window of 4, 14 blocks, any of which may fail |
| `finalizers` | five invariants over tables, proposal and host, and `ElectsActiveProducers` | 3 producers, 2 seats, 3 keys, 3 key ids |
| `multisig` | `TablesAgree`, `ExpiryIsSharp`, `StandsOnlyByApproval`, `KeepsApprovals` (the refinement of `Approvals`) | 2 proposals, 3 levels of 2 accounts, 2 authorities, 4 blocks |
| `accounts` | `NeverLockedOut`, `NamesAreReserved` | 8 names, 3 permissions, 4 lists of permissions, 3 depths |

Every passing run also checks the type invariant of its module.

The bounds are large enough for the cases that matter to occur:

* The emission goes through the start, two roll-overs and an epoch that no longer
  emits, which shares out gifts only. `MaxEpoch` is 5 and binds nowhere: with one gift
  the lottery never gets there, for want of anything to share. Two chunks per epoch distinguish the first
  deposit of an epoch from a later one, and two producers a payee that is
  deposited for in every epoch from one that misses some. The maximum supply
  leaves five units over, so that the emission just completes; after a reset of the
  lottery it runs into the maximum. The amounts are scaled so that one unit is the
  smallest share of a chunk: shares are rounded, and gifts change the rounding.
  What the doubles of the code do with larger amounts is outside the models.
  `VestingSchedule`, `SupplyFollowsLottery`, `NoChunkWithoutGift` and `EmitsToTheEnd`
  speak of a lottery that was not reset; the others hold after a reset too.
* A window of 4 has room for a gap longer than the pruning limit, and 14 blocks for
  a gap, its recovery and a second gap. The query is asked for batches of none to one
  more block than the window has.
* Three keys and three ids let a key be deleted by one finalizer and registered by
  another while the host still has it in its policy, and let the same finalizer
  register a key again. Three producers compete for two seats.
* The emission has callbacks only while no payee refuses (`Apart`), which keeps the
  states apart that have nothing to do with each other. The odds of the model, 4,
  have maximums below 65 and the double of them above it, where `get_rand` takes
  its other branch: `RollsAreFair` counts the hits of both.
* Four blocks are two seconds: approvals before, at and after an invalidation, a delay
  of one second that ends before the expiration, and the second after it. The
  requests include the same level twice and two levels of one account. The second
  proposal is a simple one and is there to show that what happens to one does not
  reach the other (`BoundedNext`).
* The accounts of the model are one name of each kind that `newaccount` distinguishes
  and those whose suffix they are; limits and permissions are those of one account,
  since the hooks look at no other (`Few`). The depths are 0, the greatest that is not
  enough, and the least that is.

### Fairness

`FairSpec` of `Emission` has weak fairness of `Hit`, which says that blocks are
produced and the roll hits again and again: the odds of a hit are constant and
nothing a contract does can stop it from happening. It has weak fairness of
`Inline`, since the host runs the inline actions of a block within it. Nothing is
assumed of users or of the administrator: `EmitsToTheEnd` and `EmissionCompletes`
have as their premise that nothing is reset and that the chunks account has its row
from some time on, that callbacks of broken contracts are switched off and that no
payee refuses its payout (`LeftAlone`); without any of these no chunk can be shared
out. `EmitsToTheEnd` has one more, that the maximum supply is above all there is to
issue, which is what `EmissionCompletes` lacks.

No other run assumes fairness. Nobody has to approve or execute a proposal.

## Where code and documentation differ

Each is a run in which TLC violates the one property that states the promise.

| run | promise | what the code does |
| --- | --- | --- |
| `issue_wraps_around` | `contract.admin.cpp:18`: "cannot issue above fungible max supply" | the sum compared with the maximum wraps around; an amount near 2^63 passes |
| `emission_stops_short` | `eosio.system.hpp:258`: "Allowance for 5% initial supply" | 20 epochs emit 5% each. With an initial supply of 5%, the last chunk reaches the maximum, `issue` fails, and so does every later hit |
| `vesting_is_a_cliff` | `README.md:18`: the bank "manages the vesting", with a payout ratio by remaining chunks | the ratios are integer quotients: the first deposit of an epoch releases everything |
| `query_reads_other_scope` | `functions.producers.cpp:220`, `:249` | the query and `cleanblocks` use scope 0; `onblock` writes scope `get_self()` |
| `elections_every_block` | `4.tokenomics.cpp:39`: "only update block producers once every minute" | `onblock` overwrites the time of the update with its stale copy |

## Proofs

The sum of the balances is the hinge of the ledger's proof. A recursive sum is
out of the prover's reach, so that `Total(f, S)` is the cardinality of the set of
units `{<<x, n>> : n < f[x]}`. `TotalsTheorems` proves what is needed of it from the
library's facts about finite sets: a sum is a natural number, splits into the
amount of one element and the sum of the others, is unchanged when the function
agrees, changes with one amount by as much, is preserved by a move between two
elements, and bounds each amount.

| theorem | says |
| --- | --- |
| `TwigTokenProofs!TypeCorrect` | amounts fit their fields |
| `TwigTokenProofs!Backed` | the supply is what the accounts hold |
| `TwigTokenProofs!BelowMax` | the supply stays below its maximum |
| `TwigTokenProofs!HoldersBelowMax` | so does what any account holds |
| `TwigTokenProofs!NoValueLost` | an account without a row holds nothing |
| `TwigTokenProofs!DriftOnlyFromReset` | only resets separate supply and holdings, and nothing changes the gap they leave |
| `EmissionProofs!TypeCorrect` | tables, queue and saved state have their types |
| `EmissionProofs!Solvent` | the bank holds what it owes |
| `EmissionProofs!BooksFollow` | the rows of the bank follow the lottery |
| `EmissionProofs!IssuedAsFound` | exactly the chunks that were found are issued |
| `EmissionProofs!AbortsForeseen` | a block fails for one of five reasons only |
| `EmissionProofs!FairLottery` | as many rolls hit as the odds say |
| `EmissionProofs!ActivatedFirst` | no callback runs that was not activated as it is |
| `BlockInfoProofs!TypeCorrect` | records are heights of the chain |
| `BlockInfoProofs!Bounded` | the table never outgrows its window |
| `BlockInfoProofs!RecentFound` | pruning takes no block that a recent batch needs |
| `BlockInfoProofs!CatchesUp` | every record written reduces the backlog |
| `BlockInfoProofs!Aligned` | the batch reported is the one the latest block is in |
| `FinalizersProofs!TypeCorrect` | rows have their types |
| `FinalizersProofs!UniqueKeys` | keys and key ids are unique |
| `FinalizersProofs!Agreement` | rows of finalizers agree with rows of keys |
| `FinalizersProofs!SignsWithActiveKey` | a registered key in the policy is its owner's active one |
| `FinalizersProofs!OneVoteEach` | no finalizer is in the policy twice |
| `FinalizersProofs!ElectionsAccepted` | the host accepts what an election proposes |
| `FinalizersProofs!ElectsActive` | elections schedule active producers only |
| `FinalizersProofs!SwitchAddsNothing` | `switchtosvnn` as an action of `Next` would add no behaviour |
| `MultisigProofs!TypeCorrect` | rows have their types, delays started in the past |
| `MultisigProofs!Agreement` | no table keeps a row without the other |
| `MultisigProofs!SharpExpiry` | executable or to be cancelled, never both or neither |
| `MultisigProofs!StandsByApproval` | a level stands only by approving |
| `MultisigProofs!Implements` | the contract implements `Approvals` |
| `AccountsProofs!TypeCorrect` | rows have their types |
| `AccountsProofs!OwnerNeverLockedOut` | an owner can always change permissions |
| `AccountsProofs!Reserved` | reserved names stay reserved |

`TotalsTheorems` also has what the queue of inline actions needs: the sum of a
sequence of amounts (`Sum`), what it is of a concatenation, of a head and a tail, and
that totals whose entries correspond are equal, which is how a payout for each
payee in a set becomes a sum over a sequence.

**TwigTokenProofs** holds for every finite set of accounts and every set of symbols,
under `SaneQuantities`: single amounts are at most what `asset::is_valid` admits.
`retire` and `transfer` check that; `issue` does not, which is what
`issue_wraps_around` shows, so that the hypothesis is really one about the issuer.
The inductive invariant is the conjunction of the types, of the backing of the
supply, of the bound by the maximum, and of `NoRowNoBalance`. None is inductive
alone: a transfer does not overflow because two balances are together at most the
supply, which is at most the maximum, which is at most `AssetMax`; and `open` and
`close` keep the total because an account without a row holds nothing.

After a reset the supply is no longer backed, and the invariant (`ResetInv`) says
instead that the gap between holdings and supply is at least 0 and at most a bound. The
lemmas on the actions are stated for it: each action keeps every gap (`GapsKept`), as
long as the bound leaves room for `AssetMax` in an `int64_t` (`Bounds`). The ledger in
operation is the case of the bound 0. `DriftOnlyFromReset` is the property of
the run `ledger_resets` for every such bound, any number of accounts, and resets at any time.

**EmissionProofs** holds for every finite set of producers, every number of chunks and
epochs, all odds and all rolls, all sets of contracts that may be called back and of
payees that may refuse their payout, and every maximum supply that is a valid
asset. It assumes that the width of an integer is at least twice that of an
asset, and that the system's own accounts are different from each other and from the
producers (`EmissionAssumption`).

The properties speak of the state between two blocks, or of balances at any moment;
to prove them one has to say what is true *within* a block, and what an abort goes
back to. The inductive invariant has four parts.

* `Sound(s, q)` says of a state `s` with a queue `q` of inline actions what the tables
  and the queue have to do with each other. It is stated for the state with `pending`,
  and (in `Transaction`) for `saved` with an empty queue: an abort turns the second into
  the first, which is all there is to prove about it. Its parts are `Ledger` (the
  supply is what the accounts hold, and below its maximum), `Vault` (the bank holds
  what its rows say that it owes *and* what the transfers in the queue take from it; it
  has not paid more than was deposited), and, as long as nothing was reset, `Books` and
  `Issued`, which are `VestingSchedule` and `SupplyFollowsLottery` corrected by what
  the queue has still to do. `Books` is one epoch behind the lottery while `onepoch`
  is at the head of the queue; `Issued` is one chunk behind while the issue is due.
* `Queue` says which queues there are. `onchunk`, `onepoch` and the issue occur at the
  head only, followed by transfers and callbacks, and the chunks account holds what
  the queue takes from it, once the issue at the head has run.
* `Transaction` says that a block in progress has a producer and a saved state.
* `Tables` has the types of the rest.

None of `Solvency`, `VestingSchedule` and `SupplyFollowsLottery` is inductive: the head
of the queue may always be a payout that leaves the bank short, unless the payout was
counted when `onepoch` put it in the queue. `Flow(q, F, G)` is what the queue moves from the accounts `F`
to those in `G`, a sum over the queue, and each inline action moves a part of it from the
queue into the tables. Each action has a lemma. The longest are those of `onepoch`:
every row loses what it pays and the queue gains it, so that what is due and what flows
have the same sum before and after (`OnepochVault`), and the order in which the loop
meets the rows does not matter (`PayoutsFlow`). `AbortsForeseen` uses the invariant the
other way round: when the accounts hold what the queue takes from them, a
transfer can only fail because of its recipient or because a share is 0.
`FairLottery` needs no invariant: it finds the roll below which all hit and above
which none does, in both branches of `get_rand`.

**BlockInfoProofs** holds for every window and every pruning limit of at least two.
The inductive invariant adds to `WithinWindow` that all records are heights the
chain has reached. A recorded block that prunes nothing has then only records of the
window's heights, and one that prunes something loses at least as many records as
it adds. That the backlog shrinks needs the limit: at most one record leaves the
window with a block, and two are pruned while there is a backlog, so that a limit of
one would never catch up. `RecentFound` needs that the blocks of the window after the
last gap are all there (`KeepsWindow`), over records that are pruned two at a time and
windows that fill up again after a gap. For `Aligned` the invariant also says that a table that is
not empty has a highest record (`HasLatest`): the model's `Latest` is a `CHOOSE`.

**FinalizersProofs** holds for every finite set of names, every set of keys and of
votes, and every number of seats. Its inductive invariant has four parts: the types of
producers and of the schedule; `KeyInv`, which says of the key tables that ids are
below the next one and unique, keys are unique, and `TablesAgree`; and `ProposalInv`.
`ProposedKeyIsActive` is not inductive alone: `regfinkey` adds a row, whose id must be
in no recorded entry, so that `ProposalInv` says that ids in entries were handed out;
`actfinkey` replaces one entry, which is enough because an owner has at most one; and
`delfinkey` spares the active key unless it is the last, which needs the count of
`TablesAgree`. The count is a cardinality, which is why finiteness is part of the
invariant.

**MultisigProofs** holds for all sets of proposals, levels, accounts and transactions,
every sequence of levels that may be requested and every family of authorities. The
invariant is `TypeOK` with `TablesAgree`: the refinement needs that a proposal has its
row of approvals, and that a delay began at a time that has come, since the start of
the delay is computed back from its end. The proof of `Implements` has one step per
action. `approve` maps to `Approve`, with a level that stands already or is
revoked in the same block as the case that adds nothing; `invalidate` maps to a
`Revoke` of the levels of the account; `unapprove` to `Withdraw`, where the same level
may still stand by another entry.

**AccountsProofs** holds for all sets of names, permissions, lists and depths. Its
invariant adds two things to the properties. Limits in force are such as `limitauthchg`
admits and accounts keep `owner`, from which `NeverLockedOut` follows, whose witness is
always the owner. And `trusted` remembers what the whitelist says.

Only model-checked: `EmitsToTheEnd`, which is a liveness property and out of the
prover's reach, `NoChunkWithoutGift`, and that the five runs below *Where code and documentation differ*
reach a violation. Every other property that a run checks is stated by a theorem.

## Not modelled

* Permissions. Who may call an action is a matter of `require_auth` in each, and
  never depends on the state above.
* `eosio.wrap`, `eosio.boot`, chain parameters, `setpriv`, `activate`, log actions:
  they keep no state that anything reads.
* The mixing of bytes in the randomness provider (`get_uint64`, `get_blend`): the
  number drawn is a free choice.
* `setabi`, `setcode` and `setcodeinfo`, which note hashes and descriptions in a table
  that no contract reads.
* `eosio.names`. `bidname` and `bidrefund` send a single asset to `transfer`
  (`eosio.names.cpp:81` and `:130`), but the token of the repository, whose account
  `eosio.names.hpp:21` names, takes a vector of assets there. The bytes of the amount are
  read as the size of the vector: it is empty or too long, or its first asset has a symbol
  that reaches into the memo and is not valid. `transfer` refuses each, the action that sent it
  is undone, and no bid and no refund is ever stored. `cleanup` then finds nothing and
  `exec` always aborts. `init` calls a `get_max_supply` that nothing under `src/`
  declares. A model of the auction would be one of a token that the repository does not
  have.
* The actions of a transaction that `eosio.msig` executes.
* All of `onblock` as one transaction. Its parts are in `BlockInfo`, `Emission` and
  `Finalizers`, which share no table; each has a step in which `onblock` fails, for
  whatever reason, and loses what the block did.

## Plan

Done, in this order: `TwigToken`, on which all value rests, with its proofs;
`Emission`, which composes ledger, lottery and bank; `BlockInfo` with its proofs;
`Finalizers` with its proofs; `Approvals`, `Multisig` and the refinement between
them, with its proof; the callbacks and `get_rand` in `Emission`; `Accounts` with
its proofs; `EmissionProofs`, and the properties of the other modules
that had no proof. Next:

1. A specification of what the emission promises, without queue, tables or aborts (a
   block finds a chunk, shares it out and pays what has vested, in one step), and the
   refinement of it by `Emission`, from the invariant above.
2. The part of `EmitsToTheEnd` that is safety: while nothing is reset and nobody
   refuses, no block aborts.
3. `OnBlock`: `BlockInfo`, the lottery and elections in one transaction that fails as a
   whole, as a module that composes the three.
