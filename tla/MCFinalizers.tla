---------------------------- MODULE MCFinalizers ----------------------------
(* Instances of Finalizers for TLC. *)
EXTENDS Finalizers, TLC

CONSTANT MaxIds  \* bound: how many key ids are handed out

\* Names and keys are only compared for equality.
NameAndKeySymmetry == Permutations(Name) \cup Permutations(Key)

BoundedNext == Next /\ issued_ids' <= MaxIds

BoundedSpec == Init /\ [][BoundedNext]_vars
=============================================================================
