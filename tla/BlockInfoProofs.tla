--------------------------- MODULE BlockInfoProofs ---------------------------
(***************************************************************************)
(* The rolling window of BlockInfo, for every size of the window and every *)
(* pruning limit of at least two: the table never outgrows it, catches up  *)
(* after every gap, and keeps every batch that fits in the window.         *)
(***************************************************************************)
EXTENDS BlockInfo, FiniteSetTheorems, TLAPS

\* A table that is not empty has a latest record.
HasLatest == own # {} => \E b \in own : \A c \in own : c <= b

\* The blocks of the window after the last gap are all recorded.
KeepsWindow ==
  \A b \in (gap + 1)..height : b > height - Window => b \in own

IInv ==
  /\ height \in Nat /\ own \in SUBSET (1..height) /\ zero = {}
  /\ gap \in 0..height
  /\ WithinWindow /\ HasLatest /\ KeepsWindow

(* Removing a part of a finite set removes as many elements as the part has. *)
LEMMA CardinalityWithout ==
  ASSUME NEW S, IsFiniteSet(S), NEW R \in SUBSET S
  PROVE  /\ IsFiniteSet(S \ R) /\ IsFiniteSet(R)
         /\ Cardinality(S \ R) = Cardinality(S) - Cardinality(R)
         /\ Cardinality(S) \in Nat /\ Cardinality(R) \in Nat
<1>1. IsFiniteSet(S \ R) /\ IsFiniteSet(R)
  BY FS_Subset
<1>2. Cardinality((S \ R) \cup R)
        = Cardinality(S \ R) + Cardinality(R) - Cardinality((S \ R) \cap R)
  BY <1>1, FS_Union
<1>3. (S \ R) \cup R = S /\ (S \ R) \cap R = {}
  OBVIOUS
<1>4. Cardinality((S \ R) \cap R) = 0
  BY <1>3, FS_EmptySet
<1>5. /\ Cardinality(S) \in Nat /\ Cardinality(R) \in Nat
      /\ Cardinality(S \ R) \in Nat
  BY <1>1, FS_CardinalityType
<1>6. Cardinality((S \ R) \cup R) = Cardinality(S)
  BY <1>3
<1>7. Cardinality(S \ R) = Cardinality(S) - Cardinality(R)
  BY <1>2, <1>4, <1>5, <1>6
<1>8. QED  BY <1>1, <1>5, <1>7

(* Recording a block changes the table as follows. *)
LEMMA RecordStep ==
  ASSUME IInv, add_to_blockinfo_table
  PROVE  \E old \in Pruned(own \cup {height + 1}, height + 1) :
           /\ own' = (own \cup {height + 1}) \ old
           /\ old \in SUBSET Prunable(own \cup {height + 1}, height + 1)
           /\ IsFiniteSet(own \cup {height + 1})
           /\ Cardinality(own \cup {height + 1}) = Cardinality(own) + 1
           /\ Cardinality(own) \in 0..Window
<1>1. PICK old \in Pruned(own \cup {height + 1}, height + 1) :
        own' = (own \cup {height + 1}) \ old
  BY DEF add_to_blockinfo_table, new_block_height
<1>2. old \in SUBSET Prunable(own \cup {height + 1}, height + 1)
  BY <1>1 DEF Pruned
<1>3. height + 1 \notin own
  BY DEF IInv
<1>4. IsFiniteSet(own) /\ Cardinality(own) \in Nat /\ Cardinality(own) <= Window
  BY FS_CardinalityType DEF IInv, WithinWindow
<1>5. /\ IsFiniteSet(own \cup {height + 1})
      /\ Cardinality(own \cup {height + 1}) = Cardinality(own) + 1
  BY <1>3, <1>4, FS_AddElement
<1>6. Cardinality(own) \in 0..Window
  BY <1>4, BlockInfoAssumption
<1>7. QED  BY <1>1, <1>2, <1>5, <1>6, Zenon

(* The table stays within the window. *)
LEMMA AddInv ==
  ASSUME IInv, add_to_blockinfo_table
  PROVE  IInv'
<1> DEFINE h == height + 1
           rec == own \cup {h}
<1>1. PICK old \in Pruned(rec, h) :
        /\ own' = rec \ old
        /\ old \in SUBSET Prunable(rec, h)
        /\ IsFiniteSet(rec)
        /\ Cardinality(rec) = Cardinality(own) + 1
        /\ Cardinality(own) \in 0..Window
  BY RecordStep
<1>2. height' = h /\ h \in Nat /\ zero' = zero
  BY DEF IInv, add_to_blockinfo_table
<1>3. own' \in SUBSET (1..h)
  <2>1. own \in SUBSET (1..height) /\ height \in Nat
    BY DEF IInv
  <2>2. own \subseteq 1..h /\ h \in 1..h
    BY <2>1
  <2>3. own' \subseteq rec
    BY <1>1
  <2>4. QED  BY <2>2, <2>3
<1>4. IsFiniteSet(own') /\ Cardinality(own') <= Window
  <2>1. CASE old = Prunable(rec, h)
    <3>1. own' \in SUBSET ((h - Window + 1)..h)
      BY <1>1, <1>2, <1>3, <2>1, BlockInfoAssumption DEF Prunable
    <3>2. /\ IsFiniteSet((h - Window + 1)..h)
          /\ Cardinality((h - Window + 1)..h)
               = IF h - Window + 1 > h THEN 0 ELSE h - (h - Window + 1) + 1
      <4>1. h - Window + 1 \in Int /\ h \in Int
        BY <1>2, BlockInfoAssumption
      <4> HIDE DEF h
      <4>2. QED  BY <4>1, FS_Interval
    <3>3. Cardinality((h - Window + 1)..h) = Window
      BY <1>2, <3>2, BlockInfoAssumption
    <3>4. /\ IsFiniteSet(own')
          /\ Cardinality(own') <= Cardinality((h - Window + 1)..h)
      BY <3>1, <3>2, FS_Subset
    <3>5. QED  BY <3>3, <3>4
  <2>2. CASE Cardinality(old) = PruneLimit
    <3>1. old \in SUBSET rec
      BY <1>1 DEF Prunable
    <3>2. /\ IsFiniteSet(rec \ old)
          /\ Cardinality(rec \ old) = Cardinality(rec) - Cardinality(old)
      BY <1>1, <3>1, CardinalityWithout
    <3>3. QED  BY <1>1, <2>2, <3>2, BlockInfoAssumption
  <2>3. QED  BY <1>1, <2>1, <2>2 DEF Pruned
<1>5. HasLatest'
  <2>1. h \in own' /\ \A b \in own' : b <= h
    BY <1>1, <1>2, <1>3, BlockInfoAssumption DEF Prunable
  <2>2. QED  BY <2>1 DEF HasLatest
<1>6. gap' \in 0..h
  BY <1>2 DEF add_to_blockinfo_table, IInv
<1>7. KeepsWindow'
  <2> SUFFICES ASSUME NEW b \in (gap + 1)..h, b > h - Window
               PROVE  b \in own'
    BY <1>2 DEF KeepsWindow, add_to_blockinfo_table
  <2>1. b \in rec
    <3>1. gap \in Nat /\ height \in Nat
      BY DEF IInv
    <3>2. CASE b = h
      BY <3>2
    <3>3. CASE b # h
      <4>1. b \in (gap + 1)..height /\ b > height - Window
        BY <1>2, <3>1, <3>3, BlockInfoAssumption
      <4>2. QED  BY <4>1 DEF IInv, KeepsWindow
    <3>4. QED  BY <3>2, <3>3
  <2>2. b \notin Prunable(rec, h)
    BY <1>2, BlockInfoAssumption DEF Prunable, IInv
  <2>3. QED  BY <1>1, <2>1, <2>2
<1>8. QED  BY <1>2, <1>3, <1>4, <1>5, <1>6, <1>7 DEF IInv, WithinWindow

(* Every step keeps the invariant. *)
LEMMA StepInv == IInv /\ [Next]_vars => IInv'
<1> SUFFICES ASSUME IInv, [Next]_vars PROVE IInv'
  OBVIOUS
<1>1. CASE add_to_blockinfo_table
  BY <1>1, AddInv
<1>2. CASE FailedOnblock
  BY <1>2 DEF FailedOnblock, IInv, WithinWindow, HasLatest, KeepsWindow
<1>3. CASE cleanblocks
  BY <1>3 DEF cleanblocks, IInv, WithinWindow, HasLatest, KeepsWindow
<1>4. CASE UNCHANGED vars
  BY <1>4 DEF vars, IInv, WithinWindow, HasLatest, KeepsWindow
<1>5. QED  BY <1>1, <1>2, <1>3, <1>4 DEF Next

(* The invariant holds in every reachable state. *)
THEOREM Invariance == Spec => []IInv
<1>1. Init => IInv
  BY BlockInfoAssumption, FS_EmptySet
     DEF Init, IInv, WithinWindow, HasLatest, KeepsWindow
<1>2. QED  BY <1>1, StepInv, PTL DEF Spec

(* Heights are recorded once the chain has reached them. *)
THEOREM TypeCorrect == Spec => []TypeOK
<1>1. IInv => TypeOK
  BY DEF IInv, TypeOK
<1>2. QED  BY <1>1, Invariance, PTL

(* The table never outgrows its window, whatever blocks fail to record. *)
THEOREM Bounded == Spec => []WithinWindow
<1>1. IInv => WithinWindow
  BY DEF IInv
<1>2. QED  BY <1>1, Invariance, PTL

(* The block that starts a batch is a multiple of the size after the offset, and less *)
(* than the size before the block it is computed from.                               *)
LEMMA StartOfBatch ==
  ASSUME NEW d \in Nat, NEW size \in Nat \ {0}
  PROVE  /\ d % size \in 0..(size - 1) /\ d % size <= d
         /\ (d - (d % size)) % size = 0
<1>1. d % size \in 0..(size - 1) /\ d \div size \in Nat /\ d = size * (d \div size) + (d % size)
  OBVIOUS
<1>2. d - (d % size) = size * (d \div size)
  BY <1>1
<1>3. size * (d \div size) \in Nat
  BY <1>1
<1>4. d % size <= d
  BY <1>1, <1>3
<1>5. (size * (d \div size)) % size = 0
  <2> DEFINE q == d \div size
  <2>1. q \in Nat
    BY <1>1
  <2> HIDE DEF q
  <2>2. (size * q) % size = 0
    BY <2>1
  <2>3. QED  BY <2>2 DEF q
<1>6. QED  BY <1>1, <1>2, <1>4, <1>5

(* The batch found in the table onblock writes is aligned and holds as many blocks as *)
(* asked for at most, for all offsets and sizes.                                     *)
THEOREM Aligned == Spec => []BatchesAligned
<1>1. IInv => BatchesAligned
  <2> SUFFICES ASSUME IInv, NEW offset \in Offsets, NEW size \in Sizes,
                      BatchInfo(own, offset, size).error = "no_error"
               PROVE  LET info == BatchInfo(own, offset, size)
                      IN  /\ info.last \in own /\ \A b \in own : b <= info.last
                          /\ info.first >= offset /\ (info.first - offset) % size = 0
                          /\ info.last - info.first + 1 \in 1..size
    BY DEF BatchesAligned
  <2> DEFINE last == Latest(own)
             first == BatchStart(last, offset, size)
  <2>1. /\ size # 0 /\ own # {} /\ last >= offset
        /\ BatchInfo(own, offset, size) = Batch(first, last)
    BY DEF BatchInfo, NoBatch
  <2>2. last \in own /\ \A b \in own : b <= last
    BY <2>1 DEF IInv, HasLatest, Latest
  <2>3. last \in Nat /\ offset \in Nat /\ size \in Nat \ {0}
    <3>1. own \in SUBSET (1..height) /\ height \in Nat
      BY DEF IInv
    <3>2. \A b \in own : b \in Nat
      BY <3>1
    <3>3. QED  BY <2>1, <2>2, <3>2, BlockInfoAssumption
  <2>4. first = last - ((last - offset) % size)
    BY DEF BatchStart
  <2> HIDE DEF last, first
  <2> DEFINE d == last - offset
  <2>5. d \in Nat
    BY <2>1, <2>3
  <2> HIDE DEF d
  <2>6. d % size \in 0..(size - 1) /\ d % size <= d /\ (d - (d % size)) % size = 0
    BY <2>3, <2>5, StartOfBatch
  <2>7. first - offset = d - (d % size) /\ first = last - (d % size)
    BY <2>3, <2>4, <2>6 DEF d
  <2>8. (first - offset) % size = 0
    BY <2>6, <2>7
  <2>9. first >= offset /\ last - first + 1 \in 1..size
    BY <2>3, <2>5, <2>6, <2>7 DEF d
  <2>10. QED  BY <2>1, <2>2, <2>8, <2>9 DEF Batch
<1>2. QED  BY <1>1, Invariance, PTL

(* When every block of a batch of at most the window has run onblock, the query on *)
(* the table onblock writes answers with the whole batch, for all offsets, sizes and *)
(* windows.                                                                          *)
THEOREM RecentFound == Spec => []RecentBatchesAreFound
<1>1. IInv => RecentBatchesAreFound
  <2> DEFINE first(offset, size) == BatchStart(height, offset, size)
  <2> SUFFICES ASSUME IInv, NEW offset \in Offsets, NEW size \in Sizes,
                      size \in 1..Window, offset <= height,
                      gap < first(offset, size)
               PROVE  BatchInfo(own, offset, size)
                        = Batch(first(offset, size), height)
    BY DEF RecentBatchesAreFound
  <2> DEFINE d == height - offset
             start == height - (d % size)
  <2>1. /\ height \in Nat /\ gap \in 0..height /\ offset \in Nat
        /\ size \in Nat \ {0} /\ Window \in Nat /\ size <= Window
        /\ own \in SUBSET (1..height)
    BY BlockInfoAssumption DEF IInv
  <2>2. first(offset, size) = start
    BY DEF BatchStart
  <2>3. d % size \in 0..(size - 1)
    <3>1. d \in Nat
      BY <2>1
    <3> HIDE DEF d
    <3>2. QED  BY <2>1, <3>1, StartOfBatch
  <2>4. start \in own /\ height \in own
    <3> HIDE DEF d
    <3>1. /\ start \in (gap + 1)..height /\ start > height - Window
          /\ height \in (gap + 1)..height /\ height > height - Window
      BY <2>1, <2>2, <2>3
    <3>2. QED  BY <3>1 DEF IInv, KeepsWindow
  <2>5. Latest(own) = height
    <3>1. \A c \in own : c \in Nat /\ c <= height
      BY <2>1
    <3>2. Latest(own) \in own /\ \A c \in own : c <= Latest(own)
      BY <2>4, <3>1 DEF Latest
    <3> DEFINE last == Latest(own)
    <3> HIDE DEF last, start, d
    <3>3. last \in Nat /\ last <= height /\ height <= last
      BY <2>4, <3>1, <3>2 DEF last
    <3>4. last = height
      BY <2>1, <3>3
    <3>5. QED  BY <3>4 DEF last
  <2>6. QED  BY <2>1, <2>2, <2>4, <2>5 DEF BatchInfo
<1>2. QED  BY <1>1, Invariance, PTL

(* A recorded block leaves a smaller backlog behind, or none: at most one row *)
(* leaves the window with it, and two are pruned while there is a backlog.    *)
THEOREM CatchesUp == Spec => BacklogShrinks
<1> DEFINE Shrinks == \/ Backlog' = {}
                      \/ Cardinality(Backlog') < Cardinality(Backlog)
<1>1. IInv /\ [Next]_vars => [own' # own => Shrinks]_vars
  <2> SUFFICES ASSUME IInv, Next, own' # own PROVE Shrinks
    OBVIOUS
  <2>1. add_to_blockinfo_table
    BY DEF Next, FailedOnblock, cleanblocks
  <2> DEFINE h == height + 1
             rec == own \cup {h}
             due == Prunable(rec, h)
  <2>2. PICK old \in Pruned(rec, h) :
          own' = rec \ old /\ old \in SUBSET due /\ IsFiniteSet(rec)
    BY <2>1, RecordStep
  <2>3. height' = h /\ height \in Nat
    BY <2>1 DEF IInv, add_to_blockinfo_table
  <2>4. Backlog' = due \ old
    BY <2>2, <2>3 DEF Backlog, Prunable
  <2>5. CASE old = due
    BY <2>4, <2>5
  <2>6. CASE Cardinality(old) = PruneLimit
    <3>1. due \in SUBSET (Backlog \cup {h - Window})
      <4> SUFFICES ASSUME NEW b \in due, b # h - Window PROVE b \in Backlog
        OBVIOUS
      <4>1. b \in own \cup {h} /\ b <= h - Window
        BY DEF Prunable
      <4>2. /\ h \in Nat /\ Window \in Nat \ {0} /\ height \in Nat
            /\ own \in SUBSET (1..height)
        BY <2>3, BlockInfoAssumption DEF IInv
      <4>3. b \in own /\ b \in Nat
        BY <4>1, <4>2
      <4>4. b <= height - Window
        BY <4>1, <4>2, <4>3
      <4>5. QED  BY <4>3, <4>4 DEF Backlog, Prunable
    <3>2. IsFiniteSet(Backlog)
      <4>1. Backlog \in SUBSET own /\ IsFiniteSet(own)
        BY DEF Backlog, Prunable, IInv, WithinWindow
      <4>2. QED  BY <4>1, FS_Subset
    <3>3. /\ IsFiniteSet(Backlog \cup {h - Window})
          /\ Cardinality(Backlog \cup {h - Window}) <= Cardinality(Backlog) + 1
          /\ Cardinality(Backlog) \in Nat
      <4>1. /\ IsFiniteSet(Backlog \cup {h - Window})
            /\ Cardinality(Backlog \cup {h - Window})
                 = IF h - Window \in Backlog THEN Cardinality(Backlog)
                                             ELSE Cardinality(Backlog) + 1
        BY <3>2, FS_AddElement
      <4>2. Cardinality(Backlog) \in Nat
        BY <3>2, FS_CardinalityType
      <4> HIDE DEF h
      <4>3. QED  BY <4>1, <4>2
    <3>4. /\ IsFiniteSet(due)
          /\ Cardinality(due) <= Cardinality(Backlog \cup {h - Window})
      BY <3>1, <3>3, FS_Subset
    <3>5. /\ Cardinality(due \ old) = Cardinality(due) - Cardinality(old)
          /\ Cardinality(due) \in Nat
      BY <2>2, <3>4, CardinalityWithout
    <3>6. Cardinality(Backlog \cup {h - Window}) \in Nat
      BY <3>3, FS_CardinalityType
    <3> HIDE DEF due, h
    <3>7. Cardinality(due \ old) < Cardinality(Backlog)
      BY <2>6, <3>3, <3>4, <3>5, <3>6, BlockInfoAssumption
    <3>8. QED  BY <2>4, <3>7
  <2>7. QED  BY <2>2, <2>5, <2>6 DEF Pruned
<1>2. QED  BY <1>1, Invariance, PTL DEF Spec, BacklogShrinks
=============================================================================
