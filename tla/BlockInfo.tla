------------------------------ MODULE BlockInfo ------------------------------
(***************************************************************************)
(* The blockinfo table of the system contract: onblock records the height  *)
(* of every block it runs in and prunes the records that fell out of a     *)
(* rolling window; get_latest_block_batch_info looks for a batch of blocks *)
(* among the records.                                                      *)
(*                                                                         *)
(* onblock may fail, in which case its transaction leaves no record and    *)
(* the heights of the table have gaps; the next blocks have then more than *)
(* one record to prune.                                                    *)
(*                                                                         *)
(* A table has one set of rows per scope.  The code uses two scopes: that  *)
(* of the system contract's own name, and 0.  The time stamp that a row    *)
(* holds is left out: nothing is decided by it.                            *)
(***************************************************************************)
EXTENDS Integers, FiniteSets

CONSTANTS
  Window,     \* rolling_window_size, 10 in the code
  PruneLimit, \* how many rows a block may erase, 2 in the code
  Deployed,   \* the heights at which the contract may have been deployed
  Offsets,    \* the offsets and sizes the query is asked for
  Sizes

ASSUME BlockInfoAssumption ==
  /\ Window \in Nat \ {0}
  /\ PruneLimit \in Nat /\ PruneLimit >= 2
  /\ Deployed \subseteq Nat
  /\ Offsets \subseteq Nat /\ Sizes \subseteq Nat

VARIABLES
  height,     \* the height of the chain
  own,        \* the heights recorded in the scope get_self()
  zero,       \* the heights recorded in the scope 0
  gap         \* history: the last block that left no record, in which onblock
              \* failed or before which the contract was deployed

vars == <<height, own, zero, gap>>

Init == height \in Deployed /\ own = {} /\ zero = {} /\ gap = height

-----------------------------------------------------------------------------
\* Mutant of Prunable: the lowest block of the window may stay one block longer.
PrunableLater(table, h) == {b \in table : b < h - Window}

\* Mutant of Prunable: the window loses its lowest block.
PrunableSooner(table, h) == {b \in table : b <= h - Window + 1}

\* The rows at or below last_prunable_block_height when block h is recorded; for
\* h < Window that height is 0 in the code, and no block has height 0.
Prunable(table, h) == {b \in table : b <= h - Window}

\* Mutant of Pruned: one row per block, which never catches up with a gap.
PrunedOne(table, h) ==
  {old \in SUBSET Prunable(table, h) :
     /\ \/ Cardinality(old) = 1
        \/ Prunable(table, h) = {} /\ old = {}
     /\ \A b \in old, c \in Prunable(table, h) \ old : b < c}

\* What the loop erases: the lowest prunable rows, as many as PruneLimit allows.
Pruned(table, h) ==
  {old \in SUBSET Prunable(table, h) :
     /\ \/ Cardinality(old) = PruneLimit
        \/ Cardinality(old) < PruneLimit /\ old = Prunable(table, h)
     /\ \A b \in old, c \in Prunable(table, h) \ old : b < c}

\* Mutant of new_block_height: the height of the previous block is recorded.
previous_block_height == height

\* The height after that of the previous block.
new_block_height == height + 1

\* The block runs onblock, and with it add_to_blockinfo_table.
add_to_blockinfo_table ==
  LET recorded == own \cup {new_block_height}
  IN  /\ height' = height + 1
      /\ \E old \in Pruned(recorded, new_block_height) : own' = recorded \ old
      /\ UNCHANGED <<zero, gap>>

\* onblock fails: the block is produced, its record is not.
FailedOnblock ==
  /\ height' = height + 1 /\ gap' = height + 1
  /\ UNCHANGED <<own, zero>>

cleanblocks ==
  /\ zero' = {}
  /\ UNCHANGED <<height, own, gap>>

Next == add_to_blockinfo_table \/ FailedOnblock \/ cleanblocks

Spec == Init /\ [][Next]_vars

-----------------------------------------------------------------------------
(* The query. *)

NoBatch(error) == [error |-> error]
Batch(first, last) == [error |-> "no_error", first |-> first, last |-> last]

Latest(table) == CHOOSE b \in table : \A c \in table : c <= b

\* Mutant of BatchStart: the offset of the first batch is ignored.
BatchStartNoOffset(last, offset, size) == last - (last % size)

\* The first block of the batch that the block last belongs to.
BatchStart(last, offset, size) == last - ((last - offset) % size)

\* The batch of the given size that the latest record of a table belongs to, the
\* first batch starting at offset.
BatchInfo(table, offset, size) ==
  LET last == Latest(table)
      first == BatchStart(last, offset, size)
  IN  IF size = 0 THEN NoBatch("invalid_input")
      ELSE IF table # {} /\ last >= offset /\ (first = last \/ first \in table)
        THEN Batch(first, last)
        ELSE NoBatch("insufficient_data")

get_latest_block_batch_info(offset, size) == BatchInfo(zero, offset, size)

-----------------------------------------------------------------------------
(* Properties. *)

TypeOK ==
  /\ height \in Nat /\ own \in SUBSET (1..height) /\ zero \in SUBSET Nat
  /\ gap \in 0..height

\* The table never outgrows its window, whatever onblocks fail and however long
\* the gaps are that they leave.
WithinWindow == IsFiniteSet(own) /\ Cardinality(own) <= Window

\* The records that have left the window and are not pruned yet.
Backlog == Prunable(own, height)

\* Every recorded block leaves a smaller backlog behind, or none: the table
\* catches up with a gap.
BacklogShrinks ==
  [][own' # own => \/ Backlog' = {}
                   \/ Cardinality(Backlog') < Cardinality(Backlog)]_vars

\* In the table onblock writes, the batch found is the one the latest block is
\* in: it starts at the offset plus a multiple of the size and holds at most as
\* many blocks as asked for.
BatchesAligned ==
  \A offset \in Offsets, size \in Sizes :
    LET info == BatchInfo(own, offset, size)
    IN  info.error = "no_error" =>
          /\ info.last \in own /\ \A b \in own : b <= info.last
          /\ info.first >= offset /\ (info.first - offset) % size = 0
          /\ info.last - info.first + 1 \in 1..size

\* A batch of at most the window is never lost to pruning: when every block of the
\* batch that the chain is in has run onblock, the query finds it whole in the table
\* onblock writes, however long the gaps before it were.
RecentBatchesAreFound ==
  \A offset \in Offsets, size \in Sizes :
    LET first == BatchStart(height, offset, size)
    IN  size \in 1..Window /\ offset <= height /\ gap < first
          => BatchInfo(own, offset, size) = Batch(first, height)

\* The comments of the query say that it finds the latest block recorded, and that
\* a batch of one block is always answered with it.
LatestIsReported ==
  own # {} =>
    get_latest_block_batch_info(0, 1) = Batch(Latest(own), Latest(own))
=============================================================================
