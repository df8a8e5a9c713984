------------------------------ MODULE Multisig ------------------------------
(***************************************************************************)
(* The multisig contract eosio.msig: its three tables and every action.    *)
(*                                                                         *)
(* Tables are scoped by proposer and keyed by name; a member of Proposal   *)
(* stands for such a pair.  A packed transaction is a record of the two    *)
(* fields of its header that the contract reads; propose and exec refuse   *)
(* transactions with context-free actions, so that none is ever stored.    *)
(*                                                                         *)
(* The two vectors of an approvals row, requested and provided, hold       *)
(* together one approval for every level that propose was given.  The row  *)
(* is the sequence of these approvals here, in the order of propose; one   *)
(* that is provided has the time at which it was given, one that is only   *)
(* requested has time 0, which the code stores but never reads.  provided  *)
(* is ordered by time, so that find_if finds the earliest of a level.      *)
(*                                                                         *)
(* The time is that of the current block, in blocks of half a second; the  *)
(* expiration and the delay of a transaction are seconds.                  *)
(*                                                                         *)
(* approve and unapprove are called by the level they name, invalidate by  *)
(* the account it names; the host sees to that.                            *)
(***************************************************************************)
EXTENDS Integers, Sequences, FiniteSets

CONSTANTS
  Proposal,        \* pairs of a proposer and a proposal name
  Level,           \* permission levels
  Account,         \* the actors of the levels
  Actor,           \* the actor of a level, by level
  Requests,        \* the vectors propose is called with
  Transaction,     \* the headers it is called with
  Authorities,     \* what the host may require: sets of sets of levels
  MaxTime          \* bound: the last block

ASSUME MultisigAssumption ==
  /\ IsFiniteSet(Level)
  /\ Actor \in [Level -> Account]
  /\ Requests \subseteq Seq(Level)
  /\ Transaction \subseteq [delay_sec : Nat, expiration : Nat]
  /\ Authorities \subseteq SUBSET SUBSET Level
  /\ MaxTime \in Nat \ {0}

VARIABLES
  now,        \* current_time_point
  authority,  \* the host's: the sets of levels that authorize the transactions
  proposals,  \* the proposals table: transaction and earliest_exec_time
  approvals,  \* the approvals table
  invalids    \* the invalids table: last_invalidation_time by account

vars == <<now, authority, proposals, approvals, invalids>>

-----------------------------------------------------------------------------
Init ==
  /\ now = 1 /\ authority \in Authorities
  /\ proposals = <<>> /\ approvals = <<>> /\ invalids = <<>>

\* Rows of a table: one is written, or erased.
Put(table, key, row) ==
  [k \in DOMAIN table \cup {key} |-> IF k = key THEN row ELSE table[k]]

Erase(table, key) == [k \in DOMAIN table \ {key} |-> table[k]]

\* The host produces two blocks in a second.
BlocksPerSecond == 2

\* The time as time_point_sec holds it.
NowSec == now \div BlocksPerSecond

\* An optional without a value; no block has this time.
NoTime == 0

Approval == [level : Level, time : Nat]

Requested(levels) ==
  [i \in DOMAIN levels |-> [level |-> levels[i], time |-> NoTime]]

\* check_transaction_authorization: the host compares levels with what the
\* accounts of the transaction require.  More levels never authorize less.
trx_is_authorized(levels) ==
  \E quorum \in authority : quorum \subseteq levels

\* The provided approvals that no later invalidation of their actor voids; one
\* given in the block of the invalidation is void.
Valid(a) ==
  /\ a.time # NoTime
  /\ Actor[a.level] \in DOMAIN invalids => invalids[Actor[a.level]] < a.time

\* get_approvals_and_adjust_table on a row of the approvals table.
get_approvals(row) == {row[i].level : i \in {j \in DOMAIN row : Valid(row[j])}}

-----------------------------------------------------------------------------
(* Proposing and approving. *)

propose(p, requested, trx) ==
  /\ trx.expiration >= NowSec
  /\ p \notin DOMAIN proposals /\ p \notin DOMAIN approvals
  /\ trx_is_authorized({requested[i] : i \in DOMAIN requested})
  /\ proposals' = Put(proposals, p, [trx |-> trx, earliest_exec_time |-> NoTime])
  /\ approvals' = Put(approvals, p, Requested(requested))
  /\ UNCHANGED <<now, authority, invalids>>

\* Mutant of StartedDelay: the delay ends a second late.
StartedDelayLate(trx) == now + BlocksPerSecond * (trx.delay_sec + 1)

StartedDelay(trx) == now + BlocksPerSecond * trx.delay_sec

\* The approvals of a level that are requested and not provided.
Grantable(row, level) ==
  {i \in DOMAIN row : row[i].level = level /\ row[i].time = NoTime}

\* proposal_hash, when it is given, must be that of the stored transaction.
NoHash == <<>>

\* Mutant of approve: what was approved before is approved anew.
approve_renewing(p, level, proposal_hash) ==
  /\ p \in DOMAIN proposals /\ p \in DOMAIN approvals
  /\ proposal_hash \in {NoHash, proposals[p].trx}
  /\ \E i \in Grantable(approvals[p], level) :
       LET row == [j \in DOMAIN approvals[p] |->
                     IF i = j \/ approvals[p][j].time # NoTime
                       THEN [approvals[p][j] EXCEPT !.time = now]
                       ELSE approvals[p][j]]
       IN  /\ approvals' = [approvals EXCEPT ![p] = row]
           /\ proposals' =
                IF /\ proposals[p].earliest_exec_time = NoTime
                   /\ trx_is_authorized(get_approvals(row))
                  THEN [proposals EXCEPT ![p].earliest_exec_time =
                                           StartedDelay(proposals[p].trx)]
                  ELSE proposals
  /\ UNCHANGED <<now, authority, invalids>>

approve(p, level, proposal_hash) ==
  /\ p \in DOMAIN proposals /\ p \in DOMAIN approvals
  /\ proposal_hash \in {NoHash, proposals[p].trx}
  /\ \E i \in Grantable(approvals[p], level) :
       LET row == [approvals[p] EXCEPT ![i].time = now]
       IN  /\ approvals' = [approvals EXCEPT ![p] = row]
           /\ proposals' =
                IF /\ proposals[p].earliest_exec_time = NoTime
                   /\ trx_is_authorized(get_approvals(row))
                  THEN [proposals EXCEPT ![p].earliest_exec_time =
                                           StartedDelay(proposals[p].trx)]
                  ELSE proposals
  /\ UNCHANGED <<now, authority, invalids>>

\* The approval of a level that find_if finds in provided, the earliest.
Withdrawable(row, level) ==
  {i \in DOMAIN row :
     /\ row[i].level = level /\ row[i].time # NoTime
     /\ \A j \in DOMAIN row : row[j].level = level /\ row[j].time # NoTime
                                => row[i].time <= row[j].time}

\* Mutant of AfterWithdrawal: the delay goes on without a quorum.
AfterWithdrawalRunning(p, row) == proposals[p].earliest_exec_time

\* The delay of p once its approvals are those of row.
AfterWithdrawal(p, row) ==
  IF trx_is_authorized(get_approvals(row))
    THEN proposals[p].earliest_exec_time ELSE NoTime

unapprove(p, level) ==
  /\ p \in DOMAIN proposals /\ p \in DOMAIN approvals
  /\ \E i \in Withdrawable(approvals[p], level) :
       LET row == [approvals[p] EXCEPT ![i].time = NoTime]
       IN  /\ approvals' = [approvals EXCEPT ![p] = row]
           /\ proposals' = [proposals EXCEPT ![p].earliest_exec_time =
                                               AfterWithdrawal(p, row)]
  /\ UNCHANGED <<now, authority, invalids>>

invalidate(account) ==
  /\ invalids' = Put(invalids, account, now)
  /\ UNCHANGED <<now, authority, proposals, approvals>>

-----------------------------------------------------------------------------
(* The end of a proposal. *)

\* Mutant of CanCancel: the second of the expiration counts as expired.
CanCancelEarly(p, by_proposer) ==
  /\ p \in DOMAIN proposals /\ p \in DOMAIN approvals
  /\ by_proposer \/ proposals[p].trx.expiration <= NowSec

\* The proposer may cancel at any time, others once the transaction expired.
CanCancel(p, by_proposer) ==
  /\ p \in DOMAIN proposals /\ p \in DOMAIN approvals
  /\ by_proposer \/ proposals[p].trx.expiration < NowSec

\* Mutant of cancel: the approvals row is left behind.
cancel_proposal_only(p, by_proposer) ==
  /\ CanCancel(p, by_proposer)
  /\ proposals' = Erase(proposals, p)
  /\ UNCHANGED <<now, authority, approvals, invalids>>

cancel(p, by_proposer) ==
  /\ CanCancel(p, by_proposer)
  /\ proposals' = Erase(proposals, p)
  /\ approvals' = Erase(approvals, p)
  /\ UNCHANGED <<now, authority, invalids>>

\* The levels that approve p, none when it has no approvals row.
Approving(p) == IF p \in DOMAIN approvals THEN get_approvals(approvals[p]) ELSE {}

CanExec(p) ==
  /\ p \in DOMAIN proposals
  /\ proposals[p].trx.expiration >= NowSec
  /\ trx_is_authorized(Approving(p))
  /\ IF proposals[p].earliest_exec_time = NoTime
       THEN proposals[p].trx.delay_sec = 0
       ELSE proposals[p].earliest_exec_time <= now

\* The transaction's actions run after exec in the same transaction.  When one of
\* them fails exec is undone; those that act on this contract or on the host are
\* steps of their own.
exec(p) ==
  /\ CanExec(p)
  /\ proposals' = Erase(proposals, p)
  /\ approvals' = Erase(approvals, p)
  /\ UNCHANGED <<now, authority, invalids>>

-----------------------------------------------------------------------------
(* The host. *)

\* Blocks are produced.
Tick ==
  /\ now < MaxTime
  /\ now' = now + 1
  /\ UNCHANGED <<authority, proposals, approvals, invalids>>

\* The accounts that the transactions act for change their permissions.
changeauth ==
  /\ authority' \in Authorities
  /\ UNCHANGED <<now, proposals, approvals, invalids>>

-----------------------------------------------------------------------------
Next ==
  \/ \E p \in Proposal :
       \/ \E requested \in Requests, trx \in Transaction :
            propose(p, requested, trx)
       \/ \E level \in Level :
            \/ \E proposal_hash \in {NoHash} \cup Transaction :
                 approve(p, level, proposal_hash)
            \/ unapprove(p, level)
       \/ \E by_proposer \in BOOLEAN : cancel(p, by_proposer)
       \/ exec(p)
  \/ \E account \in Account : invalidate(account)
  \/ Tick
  \/ changeauth

Spec == Init /\ [][Next]_vars

-----------------------------------------------------------------------------
(* Properties. *)

\* Rows have their types; no approval and no invalidation is from the future,
\* and a delay that is running started in a block that has come.
TypeOK ==
  /\ now \in 1..MaxTime /\ authority \in Authorities
  /\ DOMAIN proposals \subseteq Proposal
  /\ \A p \in DOMAIN proposals :
       /\ proposals[p] \in [trx : Transaction, earliest_exec_time : Nat]
       /\ \/ proposals[p].earliest_exec_time = NoTime
          \/ proposals[p].earliest_exec_time
               - BlocksPerSecond * proposals[p].trx.delay_sec \in 1..now
  /\ \A p \in DOMAIN approvals :
       /\ approvals[p] \in Seq(Approval)
       /\ \A i \in DOMAIN approvals[p] : approvals[p][i].time <= now
  /\ DOMAIN invalids \subseteq Account
  /\ \A account \in DOMAIN invalids : invalids[account] \in 1..now

\* The proposals and the approvals table have the same rows, although exec
\* erases from both in different functions and cancel one after the other: a row
\* left in one of them would block its name for ever.
TablesAgree == DOMAIN proposals = DOMAIN approvals

\* In no block can a proposal be executed and be cancelled by anybody, and in no
\* block after its last can it not be cleaned up: exec and cancel compare the
\* truncated time with the expiration from opposite sides.
ExpiryIsSharp ==
  \A p \in DOMAIN proposals :
    /\ CanExec(p) => ~CanCancel(p, FALSE)
    /\ now >= BlocksPerSecond * (proposals[p].trx.expiration + 1)
         => CanCancel(p, FALSE)

\* A level comes to stand behind a proposal only when it approves that proposal:
\* no invalidation, withdrawal, change of another level's approval, reuse of the
\* proposal's name or passing of time lets an approval stand again.
StandsOnlyByApproval ==
  [][\A p \in Proposal : \A level \in Approving(p)' \ Approving(p) :
       \E proposal_hash \in {NoHash} \cup Transaction :
         approve(p, level, proposal_hash)]_vars

\* The abstract view: the open proposals with what stands behind them.
open ==
  [p \in DOMAIN proposals |->
     [trx |-> proposals[p].trx,
      standing |-> Approving(p),
      since |-> IF proposals[p].earliest_exec_time = NoTime THEN 0
                ELSE proposals[p].earliest_exec_time
                     - BlocksPerSecond * proposals[p].trx.delay_sec]]

\* A transaction can be executed in every block of its expiration's second.
A == INSTANCE Approvals WITH
       Delay <- [trx \in Transaction |-> BlocksPerSecond * trx.delay_sec],
       Deadline <- [trx \in Transaction |->
                      BlocksPerSecond * (trx.expiration + 1) - 1]

\* The contract keeps the promise of Approvals: it executes a proposal once, in
\* time, with approvals that stand, and after a delay that a quorum started.
KeepsApprovals == A!Spec
=============================================================================
