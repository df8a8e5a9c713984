----------------------------- MODULE MCEmission -----------------------------
(* Instances of Emission for TLC. *)
EXTENDS Emission

\* Bound: there are no callbacks while a payee refuses its payout.
Apart == refusing' = {} \/ rngcalls' = <<>>

BoundedSpec ==
  /\ Init /\ [][Next /\ Apart]_vars
  /\ WF_vars(Hit) /\ WF_vars(Inline)
=============================================================================
