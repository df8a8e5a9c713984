----------------------------- MODULE Approvals -----------------------------
(***************************************************************************)
(* What eosio.msig promises of a proposed transaction, without its tables: *)
(* it is executed at most once, while the approvals that stand suffice,    *)
(* not after its deadline, and not before its delay has passed since a     *)
(* moment at which the approvals sufficed.  Withdrawing an approval that   *)
(* was needed makes the delay start again; revoking it does not.           *)
(*                                                                         *)
(* Multisig implements this specification.                                 *)
(***************************************************************************)
EXTENDS Integers

CONSTANTS
  Proposal,     \* what proposals are known by
  Transaction,  \* what can be proposed
  Level,        \* the permission levels that approve
  Authorities,  \* each a set of sets of levels, any of which suffices
  Delay,        \* how long a transaction has to wait, by transaction
  Deadline      \* the last moment it can be executed, by transaction

VARIABLES
  now,
  authority,  \* the current element of Authorities
  open        \* the open proposals: transaction, standing approvals, and the
              \* moment since which the delay counts, 0 when it does not

vars == <<now, authority, open>>

Suffice(levels) == \E quorum \in authority : quorum \subseteq levels

Init == now = 1 /\ authority \in Authorities /\ open = <<>>

\* open with the proposal p closed.
Without(p) == [q \in DOMAIN open \ {p} |-> open[q]]

Propose(p, trx) ==
  /\ p \notin DOMAIN open
  /\ open' = [q \in DOMAIN open \cup {p} |->
                IF q = p THEN [trx |-> trx, standing |-> {}, since |-> 0]
                         ELSE open[q]]
  /\ UNCHANGED <<now, authority>>

\* One more level stands, or, when it was revoked at this very moment, none.
Approve(p, level) ==
  /\ p \in DOMAIN open
  /\ \E standing \in {open[p].standing, open[p].standing \cup {level}} :
       open' = [open EXCEPT
                  ![p].standing = standing,
                  ![p].since = IF @ = 0 /\ Suffice(standing) THEN now ELSE @]
  /\ UNCHANGED <<now, authority>>

\* A level that was requested more than once may still stand.
Withdraw(p, level) ==
  /\ p \in DOMAIN open
  /\ \E standing \in {open[p].standing, open[p].standing \ {level}} :
       open' = [open EXCEPT
                  ![p].standing = standing,
                  ![p].since = IF Suffice(standing) THEN @ ELSE 0]
  /\ UNCHANGED <<now, authority>>

\* All the approvals of some levels are revoked at once.
Revoke(levels) ==
  /\ open' = [p \in DOMAIN open |->
                [open[p] EXCEPT !.standing = @ \ levels]]
  /\ UNCHANGED <<now, authority>>

Cancel(p) ==
  /\ p \in DOMAIN open
  /\ open' = Without(p)
  /\ UNCHANGED <<now, authority>>

Ready(p) ==
  /\ Suffice(open[p].standing)
  /\ now <= Deadline[open[p].trx]
  /\ IF open[p].since = 0
       THEN Delay[open[p].trx] = 0
       ELSE open[p].since + Delay[open[p].trx] <= now

Execute(p) ==
  /\ p \in DOMAIN open /\ Ready(p)
  /\ open' = Without(p)
  /\ UNCHANGED <<now, authority>>

\* The accounts that the transactions act for change their permissions.
ChangeAuthority ==
  /\ authority' \in Authorities
  /\ UNCHANGED <<now, open>>

Tick == now' = now + 1 /\ UNCHANGED <<authority, open>>

Next ==
  \/ \E p \in Proposal :
       \/ \E trx \in Transaction : Propose(p, trx)
       \/ \E level \in Level : Approve(p, level) \/ Withdraw(p, level)
       \/ Cancel(p)
       \/ Execute(p)
  \/ \E levels \in SUBSET Level : Revoke(levels)
  \/ ChangeAuthority
  \/ Tick

Spec == Init /\ [][Next]_vars
=============================================================================
