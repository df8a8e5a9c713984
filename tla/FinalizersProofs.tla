-------------------------- MODULE FinalizersProofs --------------------------
(***************************************************************************)
(* The tables of finalizer keys, for every set of names and keys: they     *)
(* agree with each other and with the policy proposed to the host, every   *)
(* finalizer in that policy signs with its active key, and no election is  *)
(* refused by the host.                                                    *)
(***************************************************************************)
EXTENDS Finalizers, FiniteSetTheorems, TLAPS

\* The rows of a finalizer.
Mine(f) == {r \in finkeys : r.owner = f}

\* The types of the key tables, with what Cardinality needs.
KeyTypes ==
  /\ finkeys \subseteq KeyRow /\ IsFiniteSet(finkeys) /\ issued_ids \in Nat
  /\ DOMAIN finalizers \subseteq Name
  /\ finalizers \in [DOMAIN finalizers -> FinalizerRow]

\* The part of KeysAreUnique about the key tables alone.
RowsAreUnique ==
  /\ \A r1, r2 \in finkeys : r1 # r2 => r1.id # r2.id /\ r1.key # r2.key
  /\ \A r \in finkeys : r.id < issued_ids

KeyInv == KeyTypes /\ RowsAreUnique /\ TablesAgree

\* What the invariant asks of a set of entries proposed to the host: each was made
\* from an id that was handed out, still stands for the active key of its owner
\* where that id is registered, and no owner has two.
Sound(entries, rows, fins, ids) ==
  /\ entries \subseteq ProposalEntry
  /\ \A e \in entries : e.key_id < ids
  /\ \A e \in entries : \A r \in rows :
       r.id = e.key_id => /\ r.owner = e.owner /\ r.key = e.key
                          /\ fins[r.owner].active_key_id = r.id
  /\ \A e1, e2 \in entries : e1.owner = e2.owner => e1 = e2

\* The host's policy is made from the recorded entries, which gives it its type.
PolicyOfEntries ==
  policy = {[owner |-> e.owner, key |-> e.key] : e \in lastpropfins}

ProposalInv ==
  /\ Sound(lastpropfins, finkeys, finalizers, issued_ids)
  /\ PolicyOfEntries

ProducerTypes ==
  /\ DOMAIN producers \subseteq Name
  /\ producers \in [DOMAIN producers -> [active : BOOLEAN, votes : Votes]]

ScheduleTypes ==
  /\ schedule \subseteq Name /\ schedule_size = 0
  /\ since_update \in 0..LongAgo /\ since_election \in 0..LongAgo

IInv == KeyInv /\ ProposalInv /\ ProducerTypes /\ ScheduleTypes

-----------------------------------------------------------------------------
(* Setting a value of a function keeps its type. *)
LEMMA SetType ==
  ASSUME NEW V, NEW f, f \in [DOMAIN f -> V], NEW x, NEW y \in V
  PROVE  /\ DOMAIN Set(f, x, y) = DOMAIN f \cup {x}
         /\ Set(f, x, y) \in [DOMAIN Set(f, x, y) -> V]
         /\ Set(f, x, y)[x] = y
         /\ \A z \in DOMAIN f : z # x => Set(f, x, y)[z] = f[z]
<1>1. DOMAIN Set(f, x, y) = DOMAIN f \cup {x}
  BY DEF Set
<1>2. \A z \in DOMAIN f \cup {x} : Set(f, x, y)[z] = IF z = x THEN y ELSE f[z]
  BY DEF Set
<1>3. \A z \in DOMAIN f \cup {x} : Set(f, x, y)[z] \in V
  BY <1>2
<1>4. Set(f, x, y) \in [DOMAIN f \cup {x} -> V]
  BY <1>2, <1>3 DEF Set
<1>5. QED  BY <1>1, <1>2, <1>4

(* Registering a key keeps the tables in agreement. *)
LEMMA RegisterKeys ==
  ASSUME KeyInv, NEW finalizer \in Name, NEW key \in Key,
         regfinkey(finalizer, key)
  PROVE  /\ KeyInv'
         /\ \A r \in finkeys' : r \in finkeys \/ r.id = issued_ids
         /\ issued_ids' = issued_ids + 1
         /\ \A f \in DOMAIN finalizers :
              finalizers'[f].active_key_id = finalizers[f].active_key_id
<1> DEFINE new == [id |-> issued_ids, owner |-> finalizer, key |-> key]
           row == [active_key_id |-> issued_ids, active_key |-> key,
                   key_count |-> 1]
<1>1. /\ finkeys' = finkeys \cup {new} /\ issued_ids' = issued_ids + 1
      /\ \A r \in finkeys : r.key # key
      /\ new \in KeyRow /\ row \in FinalizerRow
  BY DEF regfinkey, Unregistered, RowOf, KeyInv, KeyTypes, KeyRow, FinalizerRow
<1>2. new \notin finkeys
  BY <1>1
<1>3. finkeys' \subseteq KeyRow /\ IsFiniteSet(finkeys') /\ issued_ids' \in Nat
  BY <1>1, FS_AddElement DEF KeyInv, KeyTypes
<1>4. RowsAreUnique'
  <2>1. \A r \in finkeys : r.id \in Nat /\ r.id < issued_ids
    BY DEF KeyInv, KeyTypes, KeyRow, RowsAreUnique
  <2>2. \A r \in finkeys' : r.id < issued_ids'
    BY <1>1, <2>1 DEF KeyInv, KeyTypes
  <2>3. \A r1, r2 \in finkeys' : r1 # r2 => r1.id # r2.id /\ r1.key # r2.key
    BY <1>1, <2>1 DEF KeyInv, KeyTypes, RowsAreUnique
  <2>4. QED  BY <2>2, <2>3 DEF RowsAreUnique
<1>5. \A f : /\ f # finalizer => Mine(f)' = Mine(f)
             /\ f = finalizer => Mine(f)' = Mine(f) \cup {new}
  BY <1>1 DEF Mine
<1>6. \A f : IsFiniteSet(Mine(f)) /\ Cardinality(Mine(f)) \in Nat
  BY FS_Subset, FS_CardinalityType DEF Mine, KeyInv, KeyTypes
<1>7. Cardinality(Mine(finalizer)') = Cardinality(Mine(finalizer)) + 1
  <2>1. new \notin Mine(finalizer)
    BY <1>2 DEF Mine
  <2>2. QED  BY <1>5, <1>6, <2>1, FS_AddElement
<1>8. CASE finalizer \in DOMAIN finalizers
  <2>1. finalizers' = [finalizers EXCEPT ![finalizer].key_count = @ + 1]
    BY <1>8 DEF regfinkey
  <2>2. /\ DOMAIN finalizers' = DOMAIN finalizers
        /\ finalizers' \in [DOMAIN finalizers' -> FinalizerRow]
        /\ \A f \in DOMAIN finalizers :
             /\ finalizers'[f].active_key_id = finalizers[f].active_key_id
             /\ finalizers'[f].active_key = finalizers[f].active_key
             /\ f # finalizer => finalizers'[f].key_count = finalizers[f].key_count
        /\ finalizers'[finalizer].key_count = finalizers[finalizer].key_count + 1
    BY <1>8, <2>1 DEF KeyInv, KeyTypes, FinalizerRow
  <2>3. ASSUME NEW f \in DOMAIN finalizers'
        PROVE  finalizers'[f].key_count = Cardinality(Mine(f)')
    <3>1. f \in DOMAIN finalizers
          /\ finalizers[f].key_count = Cardinality(Mine(f))
      BY <2>2 DEF KeyInv, TablesAgree, Mine
    <3>2. CASE f = finalizer
      BY <1>7, <2>2, <3>1, <3>2
    <3>3. CASE f # finalizer
      BY <1>5, <2>2, <3>1, <3>3
    <3>4. QED  BY <3>2, <3>3
  <2>4. DOMAIN finalizers' = {r.owner : r \in finkeys'}
    BY <1>1, <1>8, <2>2 DEF KeyInv, TablesAgree
  <2>5. \A f \in DOMAIN finalizers' :
          [id |-> finalizers'[f].active_key_id, owner |-> f,
           key |-> finalizers'[f].active_key] \in finkeys'
    BY <1>1, <2>2 DEF KeyInv, TablesAgree
  <2>6. TablesAgree'
    BY <2>3, <2>4, <2>5 DEF TablesAgree, Mine
  <2>7. KeyTypes'
    BY <1>3, <2>2 DEF KeyInv, KeyTypes
  <2>8. \A r \in finkeys' : r \in finkeys \/ r.id = issued_ids
    BY <1>1
  <2>9. QED  BY <1>1, <1>4, <2>2, <2>6, <2>7, <2>8 DEF KeyInv
<1>9. CASE finalizer \notin DOMAIN finalizers
  <2>1. finalizers' = Set(finalizers, finalizer, row)
    BY <1>9 DEF regfinkey
  <2>2. /\ DOMAIN finalizers' = DOMAIN finalizers \cup {finalizer}
        /\ finalizers' \in [DOMAIN finalizers' -> FinalizerRow]
        /\ finalizers'[finalizer] = row
        /\ \A f \in DOMAIN finalizers : finalizers'[f] = finalizers[f]
    <3>1. finalizers \in [DOMAIN finalizers -> FinalizerRow]
      BY DEF KeyInv, KeyTypes
    <3>2. row \in FinalizerRow
      BY <1>1
    <3> HIDE DEF row
    <3>3. /\ DOMAIN finalizers' = DOMAIN finalizers \cup {finalizer}
          /\ finalizers' \in [DOMAIN finalizers' -> FinalizerRow]
          /\ finalizers'[finalizer] = row
          /\ \A f \in DOMAIN finalizers :
               f # finalizer => finalizers'[f] = finalizers[f]
      BY <2>1, <3>1, <3>2, SetType
    <3>4. QED  BY <1>9, <3>3
  <2>3. Mine(finalizer) = {}
    BY <1>9 DEF Mine, KeyInv, TablesAgree
  <2>4. \A f \in DOMAIN finalizers' :
          finalizers'[f].key_count = Cardinality(Mine(f)')
    <3>1. Cardinality(Mine(finalizer)') = 1
      BY <1>7, <2>3, FS_EmptySet
    <3>2. ASSUME NEW f \in DOMAIN finalizers
          PROVE  finalizers'[f].key_count = Cardinality(Mine(f)')
      <4>1. f # finalizer /\ finalizers[f].key_count = Cardinality(Mine(f))
        BY <1>9 DEF KeyInv, TablesAgree, Mine
      <4>2. QED  BY <1>5, <2>2, <4>1
    <3>3. finalizers'[finalizer].key_count = 1
      BY <2>2
    <3>4. QED  BY <2>2, <3>1, <3>2, <3>3
  <2>5. DOMAIN finalizers' = {r.owner : r \in finkeys'}
    BY <1>1, <1>9, <2>2 DEF KeyInv, TablesAgree
  <2>6. ASSUME NEW f \in DOMAIN finalizers'
        PROVE  [id |-> finalizers'[f].active_key_id, owner |-> f,
                key |-> finalizers'[f].active_key] \in finkeys'
    <3>1. CASE f = finalizer
      BY <1>1, <2>2, <3>1
    <3>2. CASE f \in DOMAIN finalizers /\ f # finalizer
      BY <1>1, <2>2, <3>2 DEF KeyInv, TablesAgree
    <3>3. QED  BY <2>2, <3>1, <3>2
  <2>7. QED  BY <1>1, <1>3, <1>4, <1>9, <2>2, <2>4, <2>5, <2>6
             DEF KeyInv, KeyTypes, TablesAgree, Mine
<1>10. QED  BY <1>8, <1>9

(* Activating a key keeps the tables in agreement. *)
LEMMA ActivateKeys ==
  ASSUME KeyInv, NEW finalizer \in Name, NEW key \in Key,
         actfinkey(finalizer, key)
  PROVE  KeyInv'
<1>1. PICK row \in RowOf(key) :
        /\ row.owner = finalizer
        /\ finalizers' = [finalizers EXCEPT ![finalizer].active_key_id = row.id,
                                            ![finalizer].active_key = key]
  BY DEF actfinkey
<1>2. finalizer \in DOMAIN finalizers /\ UNCHANGED <<finkeys, issued_ids>>
  BY DEF actfinkey
<1>3. /\ row \in finkeys /\ row \in KeyRow /\ row.key = key
      /\ row = [id |-> row.id, owner |-> finalizer, key |-> key]
  BY <1>1 DEF RowOf, KeyInv, KeyTypes, KeyRow
<1>4. /\ DOMAIN finalizers' = DOMAIN finalizers
      /\ finalizers' \in [DOMAIN finalizers' -> FinalizerRow]
      /\ \A f \in DOMAIN finalizers :
           /\ finalizers'[f].key_count = finalizers[f].key_count
           /\ f # finalizer => finalizers'[f] = finalizers[f]
      /\ finalizers'[finalizer].active_key_id = row.id
      /\ finalizers'[finalizer].active_key = key
  <2> DEFINE old == finalizers[finalizer]
             new == [old EXCEPT !.active_key_id = row.id, !.active_key = key]
  <2>1. /\ old \in FinalizerRow
        /\ finalizers \in [DOMAIN finalizers -> FinalizerRow]
    BY <1>2 DEF KeyInv, KeyTypes
  <2>2. /\ new \in FinalizerRow
        /\ new.active_key_id = row.id /\ new.active_key = key
        /\ new.key_count = old.key_count
    BY <1>3, <2>1 DEF FinalizerRow, KeyRow
  <2>3. finalizers' = [finalizers EXCEPT ![finalizer] = new]
    BY <1>1, <1>2
  <2> HIDE DEF new
  <2>4. QED  BY <1>2, <2>1, <2>2, <2>3
<1>5. ASSUME NEW f \in DOMAIN finalizers
      PROVE  [id |-> finalizers'[f].active_key_id, owner |-> f,
              key |-> finalizers'[f].active_key] \in finkeys
  <2>1. CASE f = finalizer
    BY <1>3, <1>4, <2>1
  <2>2. CASE f # finalizer
    BY <1>4, <2>2 DEF KeyInv, TablesAgree
  <2>3. QED  BY <2>1, <2>2
<1>6. TablesAgree'
  BY <1>2, <1>4, <1>5 DEF KeyInv, TablesAgree
<1>7. KeyTypes' /\ RowsAreUnique'
  BY <1>2, <1>4 DEF KeyInv, KeyTypes, RowsAreUnique
<1>8. QED  BY <1>6, <1>7 DEF KeyInv

(* Deleting a key keeps the tables in agreement: the last key takes the row of *)
(* its finalizer with it, and before that the active key stays.                *)
LEMMA DeleteKeys ==
  ASSUME KeyInv, NEW finalizer \in Name, NEW key \in Key,
         delfinkey(finalizer, key)
  PROVE  /\ KeyInv'
         /\ finkeys' \subseteq finkeys /\ issued_ids' = issued_ids
         /\ \A f \in DOMAIN finalizers' :
              finalizers'[f].active_key_id = finalizers[f].active_key_id
<1>1. PICK row \in RowOf(key) :
        /\ CanDelete(finalizer, row)
        /\ finkeys' = finkeys \ {row}
        /\ finalizers' = OneKeyLess(finalizer)
  BY DEF delfinkey
<1>2. finalizer \in DOMAIN finalizers /\ issued_ids' = issued_ids
  BY DEF delfinkey
<1>3. row \in finkeys /\ row.owner = finalizer
  BY <1>1 DEF RowOf, CanDelete
<1>4. /\ finkeys' \subseteq KeyRow /\ IsFiniteSet(finkeys')
      /\ issued_ids' \in Nat /\ RowsAreUnique'
  BY <1>1, <1>2, FS_RemoveElement DEF KeyInv, KeyTypes, RowsAreUnique
<1>5. \A f : /\ f # finalizer => Mine(f)' = Mine(f)
             /\ f = finalizer => Mine(f)' = Mine(f) \ {row}
  BY <1>1, <1>3 DEF Mine
<1>6. \A f : IsFiniteSet(Mine(f)) /\ Cardinality(Mine(f)) \in Nat
  BY FS_Subset, FS_CardinalityType DEF Mine, KeyInv, KeyTypes
<1>7. Cardinality(Mine(finalizer)') = Cardinality(Mine(finalizer)) - 1
  <2>1. row \in Mine(finalizer)
    BY <1>3 DEF Mine
  <2>2. QED  BY <1>5, <1>6, <2>1, FS_RemoveElement
<1>8. \A f \in DOMAIN finalizers :
        /\ finalizers[f].key_count = Cardinality(Mine(f))
        /\ finalizers[f] \in FinalizerRow
  BY DEF KeyInv, KeyTypes, TablesAgree, Mine
<1>9. CASE finalizers[finalizer].key_count = 1
  <2>1. /\ DOMAIN finalizers' = DOMAIN finalizers \ {finalizer}
        /\ \A f \in DOMAIN finalizers' : finalizers'[f] = finalizers[f]
        /\ finalizers' \in [DOMAIN finalizers' -> FinalizerRow]
    BY <1>1, <1>8, <1>9 DEF OneKeyLess
  <2>2. Mine(finalizer)' = {}
    <3>1. Cardinality(Mine(finalizer)') = 0
      BY <1>2, <1>7, <1>8, <1>9
    <3>2. IsFiniteSet(Mine(finalizer)')
      BY <1>5, <1>6, FS_RemoveElement
    <3>3. QED  BY <3>1, <3>2, FS_EmptySet
  <2>3. DOMAIN finalizers' = {r.owner : r \in finkeys'}
    <3>1. \A f \in DOMAIN finalizers' : \E r \in finkeys' : r.owner = f
      BY <1>1, <1>3, <2>1 DEF KeyInv, TablesAgree
    <3>2. \A r \in finkeys' : r.owner \in DOMAIN finalizers'
      BY <1>1, <2>1, <2>2 DEF KeyInv, TablesAgree, Mine
    <3>3. QED  BY <3>1, <3>2
  <2>4. ASSUME NEW f \in DOMAIN finalizers'
        PROVE  /\ finalizers'[f].key_count = Cardinality(Mine(f)')
               /\ [id |-> finalizers'[f].active_key_id, owner |-> f,
                   key |-> finalizers'[f].active_key] \in finkeys'
    <3>1. f \in DOMAIN finalizers /\ f # finalizer
      BY <2>1
    <3>2. [id |-> finalizers[f].active_key_id, owner |-> f,
           key |-> finalizers[f].active_key] \in finkeys \ {row}
      <4> DEFINE a == [id |-> finalizers[f].active_key_id, owner |-> f,
                       key |-> finalizers[f].active_key]
      <4>1. a.owner # row.owner
        BY <1>3, <3>1
      <4>2. a \in finkeys
        BY <3>1 DEF KeyInv, TablesAgree
      <4>3. QED  BY <4>1, <4>2
    <3>3. QED  BY <1>1, <1>5, <1>8, <2>1, <3>1, <3>2
  <2>5. TablesAgree'
    BY <2>3, <2>4 DEF TablesAgree, Mine
  <2>6. DOMAIN finalizers' \subseteq Name
    BY <2>1 DEF KeyInv, KeyTypes
  <2>7. QED  BY <1>1, <1>2, <1>4, <2>1, <2>5, <2>6 DEF KeyInv, KeyTypes
<1>10. CASE finalizers[finalizer].key_count # 1
  <2>1. finalizers' = [finalizers EXCEPT ![finalizer].key_count = @ - 1]
    BY <1>1, <1>10 DEF OneKeyLess
  <2>2. /\ DOMAIN finalizers' = DOMAIN finalizers
        /\ finalizers' \in [DOMAIN finalizers' -> FinalizerRow]
        /\ \A f \in DOMAIN finalizers :
             /\ finalizers'[f].active_key_id = finalizers[f].active_key_id
             /\ finalizers'[f].active_key = finalizers[f].active_key
             /\ f # finalizer => finalizers'[f] = finalizers[f]
        /\ finalizers'[finalizer].key_count = finalizers[finalizer].key_count - 1
    BY <1>2, <1>8, <1>10, <2>1 DEF KeyInv, KeyTypes, FinalizerRow
  <2>3. ASSUME NEW f \in DOMAIN finalizers
        PROVE  finalizers'[f].key_count = Cardinality(Mine(f)')
    <3>1. CASE f = finalizer
      BY <1>7, <1>8, <2>2, <3>1
    <3>2. CASE f # finalizer
      BY <1>5, <1>8, <2>2, <3>2
    <3>3. QED  BY <3>1, <3>2
  <2>4. ASSUME NEW f \in DOMAIN finalizers
        PROVE  [id |-> finalizers[f].active_key_id, owner |-> f,
                key |-> finalizers[f].active_key] \in finkeys'
    <3>1. [id |-> finalizers[f].active_key_id, owner |-> f,
           key |-> finalizers[f].active_key] \in finkeys
      BY DEF KeyInv, TablesAgree
    <3>2. CASE f # finalizer
      BY <1>1, <1>3, <3>1, <3>2
    <3>3. CASE f = finalizer
      BY <1>1, <1>10, <3>1, <3>3 DEF CanDelete
    <3>4. QED  BY <3>2, <3>3
  <2>5. DOMAIN finalizers' = {r.owner : r \in finkeys'}
    <3>1. \A f \in DOMAIN finalizers : \E r \in finkeys' : r.owner = f
      BY <2>4
    <3>2. \A r \in finkeys' : r.owner \in DOMAIN finalizers
      BY <1>1 DEF KeyInv, TablesAgree
    <3>3. QED  BY <2>2, <3>1, <3>2
  <2>6. TablesAgree'
    BY <2>2, <2>3, <2>4, <2>5 DEF TablesAgree, Mine
  <2>7. DOMAIN finalizers' \subseteq Name
    BY <2>2 DEF KeyInv, KeyTypes
  <2>8. QED  BY <1>1, <1>2, <1>4, <2>2, <2>6, <2>7 DEF KeyInv, KeyTypes
<1>11. QED  BY <1>9, <1>10

-----------------------------------------------------------------------------
(* What is proposed to the host is what the table then holds. *)
LEMMA Proposed ==
  ASSUME NEW entries, set_proposed_finalizers(entries), PolicyOfEntries
  PROVE  lastpropfins' = entries /\ PolicyOfEntries'
<1>1. CASE entries = lastpropfins
  BY <1>1 DEF set_proposed_finalizers, PolicyOfEntries
<1>2. CASE entries # lastpropfins
  BY <1>2 DEF set_proposed_finalizers, PolicyOfEntries
<1>3. QED  BY <1>1, <1>2

(* A newly registered key has an id that nothing proposed has. *)
LEMMA RegisterProposal ==
  ASSUME KeyInv, ProposalInv, NEW finalizer \in Name, NEW key \in Key,
         regfinkey(finalizer, key)
  PROVE  ProposalInv'
<1>1. UNCHANGED <<lastpropfins, policy>>
  BY DEF regfinkey, proposal
<1>2. /\ \A r \in finkeys' : r \in finkeys \/ r.id = issued_ids
      /\ issued_ids' = issued_ids + 1
      /\ \A f \in DOMAIN finalizers :
           finalizers'[f].active_key_id = finalizers[f].active_key_id
  BY RegisterKeys
<1>3. \A e \in lastpropfins : e.key_id \in Nat /\ e.key_id < issued_ids
  BY DEF ProposalInv, Sound, ProposalEntry
<1>4. \A e \in lastpropfins : e.key_id < issued_ids'
  BY <1>2, <1>3 DEF KeyInv, KeyTypes
<1>5. ASSUME NEW e \in lastpropfins, NEW r \in finkeys', r.id = e.key_id
      PROVE  /\ r.owner = e.owner /\ r.key = e.key
             /\ finalizers'[r.owner].active_key_id = r.id
  <2>1. r \in finkeys
    BY <1>2, <1>3, <1>5
  <2>2. r.owner \in DOMAIN finalizers
    BY <2>1 DEF KeyInv, TablesAgree
  <2>3. QED  BY <1>2, <1>5, <2>1, <2>2 DEF ProposalInv, Sound
<1>6. Sound(lastpropfins', finkeys', finalizers', issued_ids')
  BY <1>1, <1>4, <1>5 DEF ProposalInv, Sound
<1>7. QED  BY <1>1, <1>6 DEF ProposalInv, PolicyOfEntries

(* An id is registered once: the rows with the id of the active key of a       *)
(* finalizer are that finalizer's.                                             *)
LEMMA ActiveRow ==
  ASSUME KeyInv, NEW f \in DOMAIN finalizers
  PROVE  \E a \in finkeys :
           /\ a.id = finalizers[f].active_key_id /\ a.owner = f
           /\ a.key = finalizers[f].active_key
           /\ \A r \in finkeys : r.id = a.id => r = a
<1> DEFINE a == [id |-> finalizers[f].active_key_id, owner |-> f,
                 key |-> finalizers[f].active_key]
<1>1. a \in finkeys
  BY DEF KeyInv, TablesAgree
<1>2. \A r \in finkeys : r.id = a.id => r = a
  BY <1>1 DEF KeyInv, RowsAreUnique
<1>3. a.id = finalizers[f].active_key_id /\ a.owner = f
      /\ a.key = finalizers[f].active_key
  OBVIOUS
<1>4. QED  BY <1>1, <1>2, <1>3

(* Activating a key replaces the entry of the key that was active.             *)
LEMMA ActivateProposal ==
  ASSUME KeyInv, ProposalInv, NEW finalizer \in Name, NEW key \in Key,
         actfinkey(finalizer, key)
  PROVE  /\ ProposalInv'
         /\ lastpropfins # {} => lastpropfins' # {}
<1> DEFINE active == finalizers[finalizer].active_key_id
           replaced == {e \in lastpropfins : e.key_id = active}
<1>1. PICK row \in RowOf(key) :
        /\ row.owner = finalizer /\ row.id # active
        /\ finalizers' = [finalizers EXCEPT ![finalizer].active_key_id = row.id,
                                            ![finalizer].active_key = key]
        /\ set_proposed_finalizers(WithReplaced(replaced, row))
  BY DEF actfinkey
<1>2. finalizer \in DOMAIN finalizers /\ UNCHANGED <<finkeys, issued_ids>>
  BY DEF actfinkey
<1>3. row \in finkeys /\ row \in KeyRow /\ row.key = key
  BY <1>1 DEF RowOf, KeyInv, KeyTypes
<1>4. /\ lastpropfins' = WithReplaced(replaced, row)
      /\ PolicyOfEntries'
  BY <1>1, Proposed DEF ProposalInv
<1>5. /\ finalizers'[finalizer].active_key_id = row.id
      /\ \A f \in DOMAIN finalizers :
           f # finalizer => finalizers'[f] = finalizers[f]
  BY <1>1, <1>2 DEF KeyInv, KeyTypes, FinalizerRow
<1>6. PICK a \in finkeys :
        /\ a.id = active /\ a.owner = finalizer
        /\ \A r \in finkeys : r.id = active => r = a
  BY <1>2, ActiveRow
<1>7. \A e \in replaced : e \in ProposalEntry /\ e.owner = finalizer
  BY <1>6 DEF ProposalInv, Sound
<1>8. ASSUME NEW e \in replaced
      PROVE  LET n == Replacement(e, row)
             IN  /\ n \in ProposalEntry /\ n.key_id = row.id
                 /\ n.owner = finalizer /\ n.key = key
  BY <1>3, <1>7 DEF Replacement, ProposalEntry, KeyRow
<1>9. ASSUME NEW e \in lastpropfins'
      PROVE  \/ e \in lastpropfins /\ e.key_id # active
             \/ /\ \E o \in replaced : e = Replacement(o, row)
                /\ e \in ProposalEntry /\ e.key_id = row.id
                /\ e.owner = finalizer /\ e.key = key
  BY <1>4, <1>8 DEF WithReplaced
<1>10. ASSUME NEW e \in lastpropfins'
       PROVE  /\ e \in ProposalEntry /\ e.key_id < issued_ids
              /\ \A r \in finkeys : r.id = e.key_id =>
                   /\ r.owner = e.owner /\ r.key = e.key
                   /\ finalizers'[r.owner].active_key_id = r.id
  <2>1. CASE e \in lastpropfins /\ e.key_id # active
    <3>1. /\ e \in ProposalEntry /\ e.key_id < issued_ids
          /\ \A r \in finkeys : r.id = e.key_id =>
               /\ r.owner = e.owner /\ r.key = e.key
               /\ finalizers[r.owner].active_key_id = r.id
      BY <2>1 DEF ProposalInv, Sound
    <3>2. ASSUME NEW r \in finkeys, r.id = e.key_id
          PROVE  finalizers'[r.owner].active_key_id = r.id
      <4>1. r.owner \in DOMAIN finalizers /\ r.owner # finalizer
        BY <2>1, <3>1, <3>2 DEF KeyInv, TablesAgree
      <4>2. QED  BY <1>5, <3>1, <3>2, <4>1
    <3>3. QED  BY <3>1, <3>2
  <2>2. CASE /\ e \in ProposalEntry /\ e.key_id = row.id
             /\ e.owner = finalizer /\ e.key = key
    <3>1. \A r \in finkeys : r.id = row.id => r = row
      BY <1>3 DEF KeyInv, RowsAreUnique
    <3>2. row.id < issued_ids
      BY <1>3 DEF KeyInv, RowsAreUnique
    <3>3. QED  BY <1>1, <1>3, <1>5, <2>2, <3>1, <3>2
  <2>3. QED  BY <1>9, <2>1, <2>2
<1>11. ASSUME NEW e1 \in lastpropfins', NEW e2 \in lastpropfins',
              e1.owner = e2.owner
       PROVE  e1 = e2
  <2>1. \A x, y \in lastpropfins : x.owner = y.owner => x = y
    BY DEF ProposalInv, Sound
  <2>2. \A x \in lastpropfins :
          x.key_id # active /\ x.owner = finalizer => replaced = {}
    BY <1>7, <2>1
  <2>3. \A o1, o2 \in replaced : o1 = o2
    BY <1>7, <2>1
  <2>4. QED  BY <1>9, <1>11, <2>1, <2>2, <2>3
<1>12. Sound(lastpropfins', finkeys', finalizers', issued_ids')
  BY <1>2, <1>10, <1>11 DEF Sound
<1>13. lastpropfins # {} => lastpropfins' # {}
  BY <1>4 DEF WithReplaced
<1>14. QED  BY <1>4, <1>12, <1>13 DEF ProposalInv

(* Deleting a key makes no other key active.                                   *)
LEMMA DeleteProposal ==
  ASSUME KeyInv, ProposalInv, NEW finalizer \in Name, NEW key \in Key,
         delfinkey(finalizer, key)
  PROVE  ProposalInv'
<1>1. UNCHANGED <<lastpropfins, policy>>
  BY DEF delfinkey, proposal
<1>2. /\ KeyInv'
      /\ finkeys' \subseteq finkeys /\ issued_ids' = issued_ids
      /\ \A f \in DOMAIN finalizers' :
           finalizers'[f].active_key_id = finalizers[f].active_key_id
  BY DeleteKeys
<1>3. \A r \in finkeys' : r.owner \in DOMAIN finalizers'
  BY <1>2 DEF KeyInv, TablesAgree
<1>4. Sound(lastpropfins', finkeys', finalizers', issued_ids')
  BY <1>1, <1>2, <1>3 DEF ProposalInv, Sound
<1>5. QED  BY <1>1, <1>4 DEF ProposalInv, PolicyOfEntries

(* What an election proposes is sound, and no key is in it twice.              *)
LEMMA ElectedEntries ==
  ASSUME KeyInv, NEW top \in SUBSET DOMAIN finalizers
  PROVE  LET entries == {Entry(p) : p \in top}
         IN  /\ Sound(entries, finkeys, finalizers, issued_ids)
             /\ HostAccepts(entries)
<1> DEFINE entries == {Entry(p) : p \in top}
<1>1. ASSUME NEW p \in top
      PROVE  /\ Entry(p) \in ProposalEntry
             /\ Entry(p).owner = p
             /\ Entry(p).key_id = finalizers[p].active_key_id
             /\ Entry(p).key = finalizers[p].active_key
  <2>1. finalizers[p] \in FinalizerRow /\ p \in Name
    BY DEF KeyInv, KeyTypes
  <2>2. QED  BY <2>1 DEF Entry, FinalizerRow, ProposalEntry
<1>2. ASSUME NEW p \in top
      PROVE  /\ Entry(p).key_id < issued_ids
             /\ \A r \in finkeys : r.id = Entry(p).key_id =>
                  /\ r.owner = Entry(p).owner /\ r.key = Entry(p).key
                  /\ finalizers[r.owner].active_key_id = r.id
  <2>1. PICK a \in finkeys :
          /\ a.id = finalizers[p].active_key_id /\ a.owner = p
          /\ a.key = finalizers[p].active_key
          /\ \A r \in finkeys : r.id = a.id => r = a
    BY ActiveRow
  <2>2. a.id < issued_ids
    BY DEF KeyInv, RowsAreUnique
  <2>3. QED  BY <1>1, <2>1, <2>2
<1>3. Sound(entries, finkeys, finalizers, issued_ids)
  <2>1. entries \subseteq ProposalEntry
    BY <1>1
  <2>2. \A e1, e2 \in entries : e1.owner = e2.owner => e1 = e2
    BY <1>1
  <2>3. QED  BY <1>2, <2>1, <2>2 DEF Sound
<1>4. ASSUME NEW p \in top, NEW q \in top, Entry(p) # Entry(q)
      PROVE  Entry(p).key # Entry(q).key
  <2>1. PICK a \in finkeys :
          a.owner = p /\ a.key = finalizers[p].active_key
    BY ActiveRow
  <2>2. PICK b \in finkeys :
          b.owner = q /\ b.key = finalizers[q].active_key
    BY ActiveRow
  <2>3. p # q
    BY <1>4
  <2>4. a.key # b.key
    BY <2>1, <2>2, <2>3 DEF KeyInv, RowsAreUnique
  <2>5. QED  BY <1>1, <2>1, <2>2, <2>4
<1>5. HostAccepts(entries)
  BY <1>4 DEF HostAccepts
<1>6. QED  BY <1>3, <1>5

-----------------------------------------------------------------------------
(* An election keeps the invariant, and elects only active producers.          *)
LEMMA ElectionStep ==
  ASSUME IInv, update_elected_producers
  PROVE  /\ Sound(lastpropfins', finkeys, finalizers, issued_ids)
         /\ PolicyOfEntries'
         /\ schedule' \subseteq Name
         /\ schedule' # schedule => \A p \in schedule' : producers[p].active
         /\ lastpropfins # {} => lastpropfins' # {}
<1>1. PICK top \in Elections(MaxProducers) :
        IF TooFew(top)
          THEN UNCHANGED proposal
          ELSE /\ schedule' \in {top, schedule}
               /\ set_proposed_finalizers({Entry(p) : p \in top})
  BY DEF update_elected_producers
<1>2. /\ top \in SUBSET DOMAIN finalizers
      /\ top \subseteq DOMAIN producers
      /\ \A p \in top : producers[p].active
  BY <1>1 DEF Elections, Eligible
<1>3. CASE UNCHANGED proposal
  BY <1>3 DEF proposal, IInv, ProposalInv, PolicyOfEntries, ScheduleTypes
<1>4. CASE /\ top # {}
           /\ schedule' \in {top, schedule}
           /\ set_proposed_finalizers({Entry(p) : p \in top})
  <2> DEFINE entries == {Entry(p) : p \in top}
  <2>1. Sound(entries, finkeys, finalizers, issued_ids)
    BY <1>2, ElectedEntries DEF IInv
  <2>2. entries # {}
    BY <1>4
  <2>3. lastpropfins' = entries /\ PolicyOfEntries'
    BY <1>4, Proposed DEF IInv, ProposalInv
  <2> HIDE DEF entries
  <2>4. schedule' \subseteq Name
    BY <1>2, <1>4 DEF IInv, ProducerTypes, ScheduleTypes
  <2>5. QED  BY <1>2, <1>4, <2>1, <2>2, <2>3, <2>4
<1>5. QED  BY <1>1, <1>3, <1>4 DEF TooFew

(* Slots are counted in their range. *)
LEMMA LaterType ==
  ASSUME NEW slots \in 0..LongAgo
  PROVE  Later(slots) \in 0..LongAgo
BY FinalizersAssumption DEF Later, LongAgo

(* Every step keeps the invariant. *)
LEMMA StepInv ==
  ASSUME IInv, [Next]_vars
  PROVE  IInv'
<1> USE DEF IInv
<1>1. ASSUME NEW p \in Name, regproducer(p)
      PROVE  IInv'
  <2>1. UNCHANGED <<keys, proposal, clock>>
    BY <1>1 DEF regproducer
  <2>2. ProducerTypes'
    <3> DEFINE row == [active |-> TRUE, votes |-> IF p \in DOMAIN producers
                                                   THEN producers[p].votes ELSE 0]
               Row == [active : BOOLEAN, votes : Votes]
    <3>1. row \in Row
      BY FinalizersAssumption DEF ProducerTypes
    <3>2. producers' = Set(producers, p, row)
      BY <1>1 DEF regproducer
    <3>3. producers \in [DOMAIN producers -> Row]
      BY DEF ProducerTypes
    <3> HIDE DEF row, Row
    <3>4. /\ DOMAIN Set(producers, p, row) = DOMAIN producers \cup {p}
          /\ Set(producers, p, row) \in [DOMAIN Set(producers, p, row) -> Row]
      BY <3>1, <3>3 DEF Set
    <3>5. producers' \in [DOMAIN producers' -> Row] /\ DOMAIN producers' \subseteq Name
      BY <3>2, <3>4 DEF ProducerTypes
    <3> USE DEF Row
    <3>6. QED  BY <3>5 DEF ProducerTypes
  <2>3. QED  BY <2>1, <2>2
             DEF keys, proposal, clock, KeyInv, KeyTypes, RowsAreUnique,
                 TablesAgree, ProposalInv, PolicyOfEntries, ScheduleTypes
<1>2. ASSUME NEW p \in Name, deactivate(p)
      PROVE  IInv'
  <2>1. UNCHANGED <<keys, proposal, clock>>
    BY <1>2 DEF deactivate
  <2>2. ProducerTypes'
    BY <1>2 DEF deactivate, ProducerTypes
  <2>3. QED  BY <2>1, <2>2
             DEF keys, proposal, clock, KeyInv, KeyTypes, RowsAreUnique,
                 TablesAgree, ProposalInv, PolicyOfEntries, ScheduleTypes
<1>3. ASSUME NEW p \in Name, NEW v \in Votes, setvotes(p, v)
      PROVE  IInv'
  <2>1. UNCHANGED <<keys, proposal, clock>>
    BY <1>3 DEF setvotes
  <2>2. ProducerTypes'
    BY <1>3 DEF setvotes, ProducerTypes
  <2>3. QED  BY <2>1, <2>2
             DEF keys, proposal, clock, KeyInv, KeyTypes, RowsAreUnique,
                 TablesAgree, ProposalInv, PolicyOfEntries, ScheduleTypes
<1>4. ASSUME NEW f \in Name, NEW k \in Key, regfinkey(f, k)
      PROVE  IInv'
  <2>1. KeyInv' /\ ProposalInv'
    BY <1>4, RegisterKeys, RegisterProposal
  <2>2. QED  BY <1>4, <2>1
             DEF regfinkey, proposal, clock, ProducerTypes, ScheduleTypes
<1>5. ASSUME NEW f \in Name, NEW k \in Key, actfinkey(f, k)
      PROVE  IInv'
  <2>1. KeyInv' /\ ProposalInv'
    BY <1>5, ActivateKeys, ActivateProposal
  <2>2. QED  BY <1>5, <2>1 DEF actfinkey, clock, ProducerTypes, ScheduleTypes
<1>6. ASSUME NEW f \in Name, NEW k \in Key, delfinkey(f, k)
      PROVE  IInv'
  <2>1. KeyInv' /\ ProposalInv'
    BY <1>6, DeleteKeys, DeleteProposal
  <2>2. QED  BY <1>6, <2>1
             DEF delfinkey, proposal, clock, ProducerTypes, ScheduleTypes
<1>7. ASSUME onblock
      PROVE  IInv'
  <2>1. UNCHANGED <<producers, keys, schedule_size>>
    BY <1>7 DEF onblock
  <2>2. /\ Sound(lastpropfins', finkeys, finalizers, issued_ids)
        /\ PolicyOfEntries' /\ schedule' \subseteq Name
    <3>1. CASE Due
      BY <1>7, <3>1, ElectionStep DEF onblock
    <3>2. CASE ~Due
      BY <1>7, <3>2
         DEF onblock, proposal, ProposalInv, PolicyOfEntries, ScheduleTypes
    <3>3. QED  BY <3>1, <3>2
  <2>3. since_update' \in 0..LongAgo /\ since_election' \in 0..LongAgo
    <3>1. 1 \in 0..LongAgo
      BY FinalizersAssumption DEF LongAgo
    <3>2. QED  BY <1>7, <3>1, LaterType DEF onblock, ScheduleTypes
  <2>4. KeyInv' /\ ProducerTypes'
    BY <2>1 DEF keys, KeyInv, KeyTypes, RowsAreUnique, TablesAgree,
                ProducerTypes
  <2>5. ProposalInv'
    BY <2>1, <2>2 DEF keys, ProposalInv
  <2>6. QED  BY <2>1, <2>2, <2>3, <2>4, <2>5 DEF ScheduleTypes
<1>8. ASSUME FailedOnblock
      PROVE  IInv'
  <2>1. UNCHANGED <<producers, keys, proposal, schedule_size>>
    BY <1>8 DEF FailedOnblock
  <2>2. since_update' \in 0..LongAgo /\ since_election' \in 0..LongAgo
    BY <1>8, LaterType DEF FailedOnblock, ScheduleTypes
  <2>3. QED  BY <2>1, <2>2
             DEF keys, proposal, KeyInv, KeyTypes, RowsAreUnique, TablesAgree,
                 ProposalInv, PolicyOfEntries, ProducerTypes, ScheduleTypes
<1>9. ASSUME UNCHANGED vars
      PROVE  IInv'
  BY <1>9 DEF vars, keys, proposal, clock, KeyInv, KeyTypes, RowsAreUnique,
              TablesAgree, ProposalInv, PolicyOfEntries, ProducerTypes,
              ScheduleTypes
<1>10. QED  BY <1>1, <1>2, <1>3, <1>4, <1>5, <1>6, <1>7, <1>8, <1>9 DEF Next

(* The invariant holds before anybody registers. *)
LEMMA InitInv == Init => IInv
<1> SUFFICES ASSUME Init
             PROVE  IInv
  OBVIOUS
<1>1. /\ DOMAIN producers = {} /\ DOMAIN finalizers = {}
      /\ \A V : producers \in [{} -> V] /\ finalizers \in [{} -> V]
  BY DEF Init
<1>2. KeyInv
  BY <1>1, FS_EmptySet DEF Init, KeyInv, KeyTypes, RowsAreUnique, TablesAgree
<1>3. ProposalInv
  BY DEF Init, ProposalInv, Sound, PolicyOfEntries
<1>4. ProducerTypes
  BY <1>1 DEF ProducerTypes
<1>5. ScheduleTypes
  BY FinalizersAssumption DEF Init, ScheduleTypes, LongAgo
<1>6. QED  BY <1>2, <1>3, <1>4, <1>5 DEF IInv

(* The invariant holds in every reachable state. *)
THEOREM Invariance == Spec => []IInv
BY InitInv, StepInv, PTL DEF Spec

-----------------------------------------------------------------------------
(* Every table has rows of its type, and no finalizer a key count of 0. *)
THEOREM TypeCorrect == Spec => []TypeOK
<1>1. ASSUME IInv
      PROVE  TypeOK
  <2>1. policy \subseteq [owner : Name, key : Key]
    BY <1>1 DEF IInv, ProposalInv, PolicyOfEntries, Sound, ProposalEntry
  <2>2. QED  BY <1>1, <2>1
             DEF IInv, KeyInv, KeyTypes, ProposalInv, Sound, ProducerTypes,
                 ScheduleTypes, TypeOK
<1>2. QED  BY <1>1, Invariance, PTL

(* No key is registered twice and no id is handed out again: regfinkey. *)
THEOREM UniqueKeys == Spec => []KeysAreUnique
<1>1. IInv => KeysAreUnique
  BY DEF IInv, KeyInv, RowsAreUnique, ProposalInv, Sound, KeysAreUnique
<1>2. QED  BY <1>1, Invariance, PTL

(* finkeys and finalizers agree, whatever regfinkey, actfinkey and delfinkey do. *)
THEOREM Agreement == Spec => []TablesAgree
<1>1. IInv => TablesAgree
  BY DEF IInv, KeyInv
<1>2. QED  BY <1>1, Invariance, PTL

(* A finalizer of the proposed policy signs with its active key, as long as the *)
(* key it was proposed with is registered.                                      *)
THEOREM SignsWithActiveKey == Spec => []ProposedKeyIsActive
<1>1. IInv => ProposedKeyIsActive
  BY DEF IInv, ProposalInv, Sound, ProposedKeyIsActive
<1>2. QED  BY <1>1, Invariance, PTL

(* No finalizer has two votes in the proposed policy. *)
THEOREM OneVoteEach == Spec => []OneEntryEach
<1>1. IInv => OneEntryEach
  BY DEF IInv, ProposalInv, Sound, OneEntryEach
<1>2. QED  BY <1>1, Invariance, PTL

(* The host accepts the policy of every election that onblock can hold. *)
THEOREM ElectionsAccepted == Spec => []ElectionIsAccepted
<1>1. ASSUME IInv
      PROVE  ElectionIsAccepted
  <2> SUFFICES ASSUME NEW top \in Elections(MaxProducers)
               PROVE  HostAccepts({Entry(p) : p \in top})
    BY DEF ElectionIsAccepted
  <2>1. top \in SUBSET DOMAIN finalizers
    BY DEF Elections, Eligible
  <2>2. QED  BY <1>1, <2>1, ElectedEntries DEF IInv
<1>2. QED  BY <1>1, Invariance, PTL

(* Only active producers are elected, and a proposed policy is never withdrawn. *)
THEOREM ElectsActive == Spec => ElectsActiveProducers
<1> DEFINE Elects ==
      /\ schedule' # schedule => \A p \in schedule' : producers[p].active
      /\ is_savanna_consensus => is_savanna_consensus'
<1>1. ASSUME IInv, [Next]_vars
      PROVE  [Elects]_vars
  <2> SUFFICES ASSUME Next
               PROVE  Elects
    BY <1>1
  <2>1. ASSUME NEW p \in Name, regproducer(p) \/ deactivate(p)
        PROVE  Elects
    BY <2>1 DEF regproducer, deactivate, proposal, is_savanna_consensus
  <2>2. ASSUME NEW p \in Name, NEW v \in Votes, setvotes(p, v)
        PROVE  Elects
    BY <2>2 DEF setvotes, proposal, is_savanna_consensus
  <2>3. ASSUME NEW f \in Name, NEW k \in Key, regfinkey(f, k) \/ delfinkey(f, k)
        PROVE  Elects
    BY <2>3 DEF regfinkey, delfinkey, proposal, is_savanna_consensus
  <2>4. ASSUME NEW f \in Name, NEW k \in Key, actfinkey(f, k)
        PROVE  Elects
    <3>1. lastpropfins # {} => lastpropfins' # {}
      BY <1>1, <2>4, ActivateProposal DEF IInv
    <3>2. schedule' = schedule
      BY <2>4 DEF actfinkey
    <3>3. QED  BY <3>1, <3>2 DEF is_savanna_consensus
  <2>5. ASSUME onblock
        PROVE  Elects
    <3>1. CASE Due
      BY <1>1, <2>5, <3>1, ElectionStep DEF onblock, is_savanna_consensus
    <3>2. CASE ~Due
      BY <2>5, <3>2 DEF onblock, proposal, is_savanna_consensus
    <3>3. QED  BY <3>1, <3>2
  <2>6. ASSUME FailedOnblock
        PROVE  Elects
    BY <2>6 DEF FailedOnblock, proposal, is_savanna_consensus
  <2>7. QED  BY <2>1, <2>2, <2>3, <2>4, <2>5, <2>6 DEF Next
<1>2. QED  BY <1>1, Invariance, PTL DEF Spec, ElectsActiveProducers

(* With nobody scheduled the only election that switchtosvnn could ask for is empty. *)
LEMMA NobodyToSwitchTo ==
  ASSUME IInv
  PROVE  ~CanSwitch
<1>1. schedule_size = 0 /\ IsFiniteSet(finkeys)
      /\ DOMAIN finalizers = {r.owner : r \in finkeys}
  BY DEF IInv, ScheduleTypes, KeyInv, KeyTypes, TablesAgree
<1>2. IsFiniteSet(DOMAIN finalizers)
  <2> DEFINE owner == [r \in finkeys |-> r.owner]
  <2>1. owner \in Surjection(finkeys, DOMAIN finalizers)
    BY <1>1 DEF Surjection
  <2>2. QED  BY <1>1, <2>1, FS_Surjection
<1>3. ASSUME NEW top \in Elections(schedule_size), CanSwitchTo(top)
      PROVE  FALSE
  <2>1. top \in SUBSET DOMAIN finalizers
    BY DEF Elections, Eligible
  <2>2. IsFiniteSet(top)
    BY <1>2, <2>1, FS_Subset
  <2>3. Cardinality(top) = 0 /\ top # {}
    BY <1>1, <1>3 DEF CanSwitchTo
  <2>4. QED  BY <2>2, <2>3, FS_EmptySet
<1>4. QED  BY <1>3 DEF CanSwitch

(* No call of switchtosvnn succeeds, with any number of producers, seats and keys: *)
(* the size it asks for is lost by onblock. That is why it is no action of Next:   *)
(* with it there, nothing else could happen.                                       *)
THEOREM SwitchAddsNothing == Init /\ [][Next \/ switchtosvnn]_vars => Spec
<1>1. Init => IInv
  BY InitInv
<1>2. IInv => ~switchtosvnn
  BY NobodyToSwitchTo DEF CanSwitch, switchtosvnn
<1>3. IInv /\ [Next \/ switchtosvnn]_vars => [Next]_vars
  BY <1>2
<1>4. IInv /\ [Next \/ switchtosvnn]_vars => IInv'
  BY <1>3, StepInv
<1>5. QED  BY <1>1, <1>3, <1>4, PTL DEF Spec
=============================================================================
