---------------------------- MODULE MCTwigToken -----------------------------
(* Instances of TwigToken for TLC. *)
EXTENDS TwigToken, TLC

CONSTANT HoldingsBound  \* what the accounts may hold when the ledger is reset

\* Accounts are only compared for equality: permuting them changes nothing.
AccountSymmetry == Permutations(Account)

\* Every reset allows the maximum to be issued once more.  Keeping resets to
\* ledgers that hold little keeps the balances far from the width of int64_t.
BoundedSpec == Init /\ [][Operate \/ BoundedReset(HoldingsBound)]_vars
=============================================================================
