---------------------------- MODULE MCBlockInfo -----------------------------
(* Instances of BlockInfo for TLC. *)
EXTENDS BlockInfo

CONSTANT MaxHeight \* bound: the last block

\* Every run ends at MaxHeight; cleanblocks may run any time.
BoundedNext ==
  \/ height < MaxHeight /\ (add_to_blockinfo_table \/ FailedOnblock)
  \/ cleanblocks

BoundedSpec == Init /\ [][BoundedNext]_vars
=============================================================================
