------------------------------- MODULE Totals -------------------------------
(***************************************************************************)
(* The sum of a ledger.  An amount of n is thought of as n units, and the  *)
(* total held by the members of S is the number of units they hold.        *)
(* Counting a set, instead of folding + over the holders, gives a sum that *)
(* is defined without recursion, so that TotalsTheorems can prove how one  *)
(* entry of the ledger changes it.                                         *)
(***************************************************************************)
EXTENDS Naturals, FiniteSets

\* The units held by the members of S, when x holds f[x] of them.
Units(f, S) == UNION {{x} \X (1..f[x]) : x \in S}

\* The sum of f[x] over x \in S.
Total(f, S) == Cardinality(Units(f, S))
=============================================================================
