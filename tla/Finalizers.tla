----------------------------- MODULE Finalizers -----------------------------
(***************************************************************************)
(* Block producers, their finalizer keys, and the elections onblock runs:  *)
(* the producers, finkeys, finalizers, finkeyidgen, lastpropfins and       *)
(* global tables of the system contract, the producer schedule and the     *)
(* finalizer policy it proposes to the host.                               *)
(*                                                                         *)
(* Data abstraction.  A BLS key is a model value that its owner can prove  *)
(* possession of.  lastpropfins is a vector sorted by key id; since ids    *)
(* are unique it is the set of its entries, and it is empty where the      *)
(* table has no row.  (On a missing row the code dereferences an optional  *)
(* that holds no value.  What it reads there is never what is proposed,    *)
(* and holds no finalizer's key: the outcomes are those of the empty       *)
(* vector, and a trap, which undoes actfinkey or, in FailedOnblock, the    *)
(* whole of onblock.)  URLs, locations and signing keys are left out.      *)
(***************************************************************************)
EXTENDS Integers, FiniteSets

CONSTANTS
  Name,             \* the accounts that may become producers
  Key,              \* the finalizer keys
  Votes,            \* the values total_votes takes
  MaxProducers,     \* 21 in the code
  BlocksPerMinute   \* blocks_per_minute, 60 in the code

ASSUME FinalizersAssumption ==
  /\ IsFiniteSet(Name)
  /\ Votes \subseteq Nat /\ 0 \in Votes
  /\ MaxProducers \in Nat \ {0}
  /\ BlocksPerMinute \in Nat \ {0}

VARIABLES
  producers,       \* the producers table: activity and votes by owner
  finkeys,         \* the rows of the finkeys table
  finalizers,      \* the finalizers table: active key and key count by name
  issued_ids,      \* how many key ids finkeyidgen has handed out
  lastpropfins,    \* the finalizers last proposed
  policy,          \* the finalizer policy the host was last given
  schedule,        \* the producers the host was last asked to schedule
  schedule_size,   \* global.last_producer_schedule_size
  since_update,    \* slots since global.last_producer_schedule_update
  since_election   \* history: slots since producers were last updated

keys == <<finkeys, finalizers, issued_ids>>
proposal == <<lastpropfins, policy, schedule>>
clock == <<schedule_size, since_update, since_election>>
vars == <<producers, keys, proposal, clock>>

\* Slots are only compared with BlocksPerMinute: counting stops just above it.
LongAgo == BlocksPerMinute + 1
Later(slots) == IF slots = LongAgo THEN LongAgo ELSE slots + 1

Init ==
  /\ producers = <<>>
  /\ finkeys = {} /\ finalizers = <<>> /\ issued_ids = 0
  /\ lastpropfins = {} /\ policy = {} /\ schedule = {}
  /\ schedule_size = 0
  /\ since_update = LongAgo /\ since_election = LongAgo

-----------------------------------------------------------------------------
(* Producers. *)

\* The function f with f[x] = y.
Set(f, x, y) == [z \in DOMAIN f \cup {x} |-> IF z = x THEN y ELSE f[z]]

regproducer(producer) ==
  /\ producers' =
       Set(producers, producer,
           [active |-> TRUE,
            votes |-> IF producer \in DOMAIN producers
                        THEN producers[producer].votes ELSE 0])
  /\ UNCHANGED <<keys, proposal, clock>>

\* unregprod by the producer and rmvproducer by the system account.
deactivate(producer) ==
  /\ producer \in DOMAIN producers
  /\ producers' = [producers EXCEPT ![producer].active = FALSE]
  /\ UNCHANGED <<keys, proposal, clock>>

\* No action of the system contract writes total_votes: votes are what an earlier
\* or later version of it, with voting, leaves in the table.
setvotes(producer, votes) ==
  /\ producer \in DOMAIN producers
  /\ producers' = [producers EXCEPT ![producer].votes = votes]
  /\ UNCHANGED <<keys, proposal, clock>>

-----------------------------------------------------------------------------
(* Proposals. *)

Entry(finalizer) ==
  [key_id |-> finalizers[finalizer].active_key_id,
   owner |-> finalizer,
   key |-> finalizers[finalizer].active_key]

\* The host refuses a finalizer policy in which two finalizers share a key, and
\* with it the transaction that proposes it.
HostAccepts(entries) ==
  \A e1, e2 \in entries : e1 # e2 => e1.key # e2.key

set_proposed_finalizers(entries) ==
  IF entries = lastpropfins
    THEN UNCHANGED <<lastpropfins, policy>>
    ELSE /\ HostAccepts(entries)
         /\ policy' = {[owner |-> e.owner, key |-> e.key] : e \in entries}
         /\ lastpropfins' = entries

is_savanna_consensus == lastpropfins # {}

-----------------------------------------------------------------------------
(* Finalizer keys. *)

RowOf(key) == {row \in finkeys : row.key = key}

\* Mutant of Unregistered: the key may be registered by another finalizer.
UnregisteredByOwner(finalizer, key) ==
  \A row \in RowOf(key) : row.owner # finalizer

Unregistered(finalizer, key) == RowOf(key) = {}

regfinkey(finalizer, key) ==
  /\ finalizer \in DOMAIN producers
  /\ Unregistered(finalizer, key)
  /\ finkeys' = finkeys \cup
                  {[id |-> issued_ids, owner |-> finalizer, key |-> key]}
  /\ issued_ids' = issued_ids + 1
  /\ finalizers' =
       IF finalizer \in DOMAIN finalizers
         THEN [finalizers EXCEPT ![finalizer].key_count = @ + 1]
         ELSE Set(finalizers, finalizer,
                  [active_key_id |-> issued_ids, active_key |-> key,
                   key_count |-> 1])
  /\ UNCHANGED <<producers, proposal, clock>>

\* Mutant of Replacement: the entry keeps the id of the key it replaces.
ReplacementKeepingId(entry, row) == [entry EXCEPT !.key = row.key]

\* The entry of the last proposal, with a newly activated key.
Replacement(entry, row) == [entry EXCEPT !.key_id = row.id, !.key = row.key]

\* Mutant of WithReplaced: the replaced entries stay.
WithAdded(replaced, row) ==
  lastpropfins \cup {Replacement(e, row) : e \in replaced}

\* The last proposal, with the given entries of it replaced.
WithReplaced(replaced, row) ==
  (lastpropfins \ replaced) \cup {Replacement(e, row) : e \in replaced}

\* A finalizer in the last proposal has its entry there replaced at once.
actfinkey(finalizer, key) ==
  /\ finalizer \in DOMAIN finalizers
  /\ \E row \in RowOf(key) :
       /\ row.owner = finalizer
       /\ row.id # finalizers[finalizer].active_key_id
       /\ finalizers' = [finalizers EXCEPT ![finalizer].active_key_id = row.id,
                                           ![finalizer].active_key = key]
       /\ LET replaced == {e \in lastpropfins :
                             e.key_id = finalizers[finalizer].active_key_id}
          IN  set_proposed_finalizers(WithReplaced(replaced, row))
  /\ UNCHANGED <<producers, finkeys, issued_ids, schedule, clock>>

\* Mutant of CanDelete: the active key may be deleted before the others.
CanDeleteActive(finalizer, row) == row.owner = finalizer

\* The active key goes last.
CanDelete(finalizer, row) ==
  /\ row.owner = finalizer
  /\ row.id = finalizers[finalizer].active_key_id
       => finalizers[finalizer].key_count = 1

\* Mutant of OneKeyLess: the row stays when the last key goes.
OneKeyLessKeepingRow(finalizer) ==
  [finalizers EXCEPT ![finalizer].key_count = @ - 1]

\* The finalizers table when the finalizer has lost a key, with the last of them
\* its row.
OneKeyLess(finalizer) ==
  IF finalizers[finalizer].key_count = 1
    THEN [f \in DOMAIN finalizers \ {finalizer} |-> finalizers[f]]
    ELSE [finalizers EXCEPT ![finalizer].key_count = @ - 1]

delfinkey(finalizer, key) ==
  /\ finalizer \in DOMAIN finalizers
  /\ \E row \in RowOf(key) :
       /\ CanDelete(finalizer, row)
       /\ finkeys' = finkeys \ {row}
       /\ finalizers' = OneKeyLess(finalizer)
  /\ UNCHANGED <<producers, issued_ids, proposal, clock>>

-----------------------------------------------------------------------------
(* Elections. *)

Eligible ==
  {p \in DOMAIN producers : /\ producers[p].active /\ producers[p].votes > 0
                            /\ p \in DOMAIN finalizers}

\* Mutant of Elections: the loop does not look at is_active.
ElectionsOfInactive(size) ==
  LET candidates == {p \in DOMAIN producers : /\ producers[p].votes > 0
                                              /\ p \in DOMAIN finalizers}
  IN  {top \in SUBSET candidates :
         \/ Cardinality(top) = size
         \/ Cardinality(top) < size /\ top = candidates}

\* The results of electing the given number of producers: those with most votes.
\* Ties are broken by name, which is a free choice here.
Elections(size) ==
  {top \in SUBSET Eligible :
     /\ \/ Cardinality(top) = size
        \/ Cardinality(top) < size /\ top = Eligible
     /\ \A p \in top, q \in Eligible \ top :
          producers[p].votes >= producers[q].votes}

\* Such an election changes nothing.
TooFew(top) == top = {} \/ Cardinality(top) < schedule_size

\* The host may refuse a schedule, for instance one it has already.  What
\* update_elected_producers stores in global is lost: onblock, which read global
\* before the call, writes its copy back after it.
update_elected_producers ==
  \E top \in Elections(MaxProducers) :
    IF TooFew(top)
      THEN UNCHANGED proposal
      ELSE /\ schedule' \in {top, schedule}
           /\ set_proposed_finalizers({Entry(p) : p \in top})

Due == since_update > BlocksPerMinute

\* The block updates the producers.
Updates == Due /\ \E top \in Elections(MaxProducers) : ~TooFew(top)

\* The part of onblock that concerns producers.
onblock ==
  /\ IF Due THEN update_elected_producers ELSE UNCHANGED proposal
  /\ since_update' = Later(since_update)
  /\ since_election' = IF Updates THEN 1 ELSE Later(since_election)
  /\ UNCHANGED <<producers, keys, schedule_size>>

\* Another part of onblock fails, or it traps: only time passes.
FailedOnblock ==
  /\ since_update' = Later(since_update)
  /\ since_election' = Later(since_election)
  /\ UNCHANGED <<producers, keys, proposal, schedule_size>>

\* The results of an election that switchtosvnn does not refuse: as many finalizers
\* as were last scheduled, with which the host and the check at its end agree.
CanSwitchTo(top) ==
  /\ Cardinality(top) = schedule_size
  /\ HostAccepts({Entry(p) : p \in top})
  /\ top # {}

CanSwitch ==
  ~is_savanna_consensus /\ \E top \in Elections(schedule_size) : CanSwitchTo(top)

\* It is no action of Next: schedule_size never leaves 0, since onblock writes its
\* stale copy back, the election it asks for is empty, and proposing nobody leaves
\* is_savanna_consensus false, which the code rejects.
switchtosvnn ==
  /\ ~is_savanna_consensus
  /\ \E top \in Elections(schedule_size) :
       CanSwitchTo(top) /\ set_proposed_finalizers({Entry(p) : p \in top})
  /\ UNCHANGED <<producers, keys, schedule, clock>>

Next ==
  \/ \E p \in Name : regproducer(p) \/ deactivate(p)
  \/ \E p \in Name, v \in Votes : setvotes(p, v)
  \/ \E f \in Name, k \in Key :
       regfinkey(f, k) \/ actfinkey(f, k) \/ delfinkey(f, k)
  \/ onblock
  \/ FailedOnblock

Spec == Init /\ [][Next]_vars

-----------------------------------------------------------------------------
(* Properties. *)

KeyRow == [id : Nat, owner : Name, key : Key]
FinalizerRow == [active_key_id : Nat, active_key : Key, key_count : Nat \ {0}]
ProposalEntry == [key_id : Nat, owner : Name, key : Key]

\* Every table has rows of its type, and no finalizer has a key count of 0.
TypeOK ==
  /\ DOMAIN producers \subseteq Name
  /\ producers \in [DOMAIN producers -> [active : BOOLEAN, votes : Votes]]
  /\ finkeys \subseteq KeyRow /\ issued_ids \in Nat
  /\ DOMAIN finalizers \subseteq Name
  /\ finalizers \in [DOMAIN finalizers -> FinalizerRow]
  /\ lastpropfins \subseteq ProposalEntry
  /\ policy \subseteq [owner : Name, key : Key]
  /\ schedule \subseteq Name /\ schedule_size \in Nat
  /\ since_update \in 0..LongAgo /\ since_election \in 0..LongAgo

\* No key and no id is registered twice, and no id is handed out again.
KeysAreUnique ==
  /\ \A r1, r2 \in finkeys : r1 # r2 => r1.id # r2.id /\ r1.key # r2.key
  /\ \A r \in finkeys : r.id < issued_ids
  /\ \A e \in lastpropfins : e.key_id < issued_ids

\* The two tables agree: a name is in finalizers exactly when it has keys, its
\* count is the number of them, and its active key is one of them.
TablesAgree ==
  /\ DOMAIN finalizers = {r.owner : r \in finkeys}
  /\ \A f \in DOMAIN finalizers :
       /\ finalizers[f].key_count = Cardinality({r \in finkeys : r.owner = f})
       /\ [id |-> finalizers[f].active_key_id, owner |-> f,
           key |-> finalizers[f].active_key] \in finkeys

\* A finalizer of the proposed policy signs with its active key as long as the key
\* it was proposed with is registered: activating another key replaces it at once,
\* and ids that are not reused cannot lead to another finalizer's entry.
ProposedKeyIsActive ==
  \A e \in lastpropfins : \A r \in finkeys :
    r.id = e.key_id => /\ r.owner = e.owner /\ r.key = e.key
                       /\ finalizers[r.owner].active_key_id = r.id

\* No finalizer has two votes in the proposed policy.
OneEntryEach ==
  \A e1, e2 \in lastpropfins : e1.owner = e2.owner => e1 = e2

\* An election never proposes a policy that the host refuses, which would undo the
\* whole of onblock in every block until a key changes.
ElectionIsAccepted ==
  \A top \in Elections(MaxProducers) : HostAccepts({Entry(p) : p \in top})

\* Only a producer that is active is ever elected, and once there is a proposed
\* policy there always is one.
ElectsActiveProducers ==
  [][/\ schedule' # schedule => \A p \in schedule' : producers[p].active
     /\ is_savanna_consensus => is_savanna_consensus']_vars

\* The comment in onblock says that producers are updated only once a minute: no
\* onblock updates them when the last update is a minute ago or less.
ElectionsAMinuteApart ==
  [][onblock /\ Updates => since_election > BlocksPerMinute]_vars
=============================================================================
