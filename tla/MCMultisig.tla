----------------------------- MODULE MCMultisig -----------------------------
(* Instances of Multisig for TLC: alice has two levels, bob one. *)
EXTENDS Multisig, TLC

CONSTANTS aliceActive, aliceOwner, bobActive, alice, bob, p1, p2

MCLevel == {aliceActive, aliceOwner, bobActive}
MCActor == [l \in MCLevel |-> IF l = bobActive THEN bob ELSE alice]

\* alice alone, both, alice twice, or alice with either level.
MCRequests == {<<aliceActive>>, <<aliceActive, bobActive>>,
               <<aliceActive, aliceActive>>, <<aliceActive, aliceOwner>>}

\* One transaction for at once, one with a delay, of a second each.
MCTransaction == {[delay_sec |-> 0, expiration |-> 0],
                  [delay_sec |-> 1, expiration |-> 1]}

\* Either account suffices, or it takes both; alice's owner level is enough.
MCAuthorities == {{{aliceActive}, {bobActive}, {aliceOwner}},
                  {{aliceActive, bobActive}, {aliceOwner}}}

\* Bound: the second proposal is the simplest there is, enough to see whether
\* what is done to one reaches the other.  Only alice invalidates.
BoundedNext ==
  /\ Next
  /\ p2 \in DOMAIN proposals' =>
       /\ Len(approvals'[p2]) = 1
       /\ proposals'[p2].trx.delay_sec = 0
  /\ bob \notin DOMAIN invalids'

BoundedSpec == Init /\ [][BoundedNext]_vars
=============================================================================
