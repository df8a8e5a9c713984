------------------------------ MODULE Accounts ------------------------------
(***************************************************************************)
(* The hooks of the system contract on the native actions of the chain:    *)
(* who may create an account of which name, and who may change the         *)
(* permissions of an account.  The host creates the account, or changes    *)
(* the permissions, when the hook does not abort.                          *)
(*                                                                         *)
(* A name is abstracted to what newaccount tells apart: names of twelve    *)
(* characters, shorter names without a dot, and names with a dot, whose    *)
(* last part is their suffix.                                              *)
(***************************************************************************)
EXTENDS Integers

CONSTANTS
  Top,         \* names of less than twelve characters without a dot
  Dotted,      \* names with a dot
  Plain,       \* names of twelve characters without a dot
  Suffix,      \* the last part of a name, by dotted name
  Eosio,       \* the system contract
  Initial,     \* the accounts at the start
  Permission,  \* names of permissions
  Owner, Active,
  Depths,      \* what setwhitelist is called with
  Lists        \* what limitauthchg is called with: sets of permissions

Name == Top \cup Dotted \cup Plain

\* authorized_by when it is left out.
Nobody == <<>>

ASSUME AccountsAssumption ==
  /\ Suffix \in [Dotted -> Top]
  /\ Top \cap Dotted = {} /\ Plain \cap (Top \cup Dotted) = {}
  /\ Eosio \in Top \cap Initial /\ Initial \subseteq Name
  /\ {Owner, Active} \subseteq Permission /\ Nobody \notin Permission
  /\ Depths \subseteq 0..255
  /\ Lists \subseteq SUBSET Permission

VARIABLES
  accounts,   \* the host's: the accounts that exist
  perms,      \* the host's: the permissions of each account
  whitelist,  \* the whitelist table: depth by account
  limits,     \* the limitauthchg table: allow_perms and disallow_perms
  trusted     \* history: whether the system contract ever was trusted

vars == <<accounts, perms, whitelist, limits, trusted>>

Init ==
  /\ accounts = Initial
  /\ perms = [a \in Initial |-> {Owner, Active}]
  /\ whitelist = <<>> /\ limits = <<>>
  /\ trusted = FALSE

\* Rows of a table: one is written, or erased.
Put(table, key, row) ==
  [k \in DOMAIN table \cup {key} |-> IF k = key THEN row ELSE table[k]]

Erase(table, key) == [k \in DOMAIN table \ {key} |-> table[k]]

-----------------------------------------------------------------------------
(* Names. *)

Trusts(list, creator) ==
  creator = Eosio /\ creator \in DOMAIN list /\ list[creator] > 3

\* Mutant of MayCreate: the whitelist is for everybody.
MayCreateWhitelisted(creator, name) ==
  \/ creator \in DOMAIN whitelist /\ whitelist[creator] > 3
  \/ name \in Plain
  \/ name \in Dotted /\ creator = Suffix[name]

\* The check of a name by newaccount.  It reads no auction: a short name without a
\* dot is refused to whoever is not trusted.
MayCreate(creator, name) ==
  \/ Trusts(whitelist, creator)
  \/ name \in Plain
  \/ name \in Dotted /\ creator = Suffix[name]

newaccount(creator, name) ==
  /\ creator \in accounts /\ name \notin accounts
  /\ MayCreate(creator, name)
  /\ accounts' = accounts \cup {name}
  /\ perms' = Put(perms, name, {Owner, Active})
  /\ UNCHANGED <<whitelist, limits, trusted>>

\* Mutant of setwhitelist: depth 0 is stored.
setwhitelist_zero(account, depth) ==
  /\ whitelist' = Put(whitelist, account, depth)
  /\ trusted' = (trusted \/ Trusts(whitelist', Eosio))
  /\ UNCHANGED <<accounts, perms, limits>>

\* Depth 0 erases a row, and aborts when there is none.
setwhitelist(account, depth) ==
  /\ depth > 0 \/ account \in DOMAIN whitelist
  /\ whitelist' = IF depth > 0 THEN Put(whitelist, account, depth)
                               ELSE Erase(whitelist, account)
  /\ trusted' = (trusted \/ Trusts(whitelist', Eosio))
  /\ UNCHANGED <<accounts, perms, limits>>

-----------------------------------------------------------------------------
(* Permissions. *)

\* Mutant of ListsAreFine: the owner may be left out of allow_perms.
ListsAreFineWithoutOwner(allow_perms, disallow_perms) ==
  /\ allow_perms = {} \/ disallow_perms = {}
  /\ Owner \notin disallow_perms

ListsAreFine(allow_perms, disallow_perms) ==
  /\ allow_perms = {} \/ disallow_perms = {}
  /\ allow_perms = {} \/ Owner \in allow_perms
  /\ Owner \notin disallow_perms

limitauthchg(account, allow_perms, disallow_perms) ==
  /\ account \in accounts
  /\ ListsAreFine(allow_perms, disallow_perms)
  /\ limits' = IF allow_perms \cup disallow_perms # {}
                 THEN Put(limits, account, [allow_perms |-> allow_perms,
                                            disallow_perms |-> disallow_perms])
                 ELSE Erase(limits, account)
  /\ UNCHANGED <<accounts, perms, whitelist, trusted>>

\* The account acts with the permission authorized_by, when that is given, and the
\* limit of the account admits it.
check_auth_change(account, authorized_by) ==
  /\ authorized_by # Nobody => authorized_by \in perms[account]
  /\ account \in DOMAIN limits =>
       /\ authorized_by # Nobody
       /\ IF limits[account].allow_perms # {}
            THEN authorized_by \in limits[account].allow_perms
            ELSE authorized_by \notin limits[account].disallow_perms

\* linkauth and unlinkauth make the same check, and link what is not modelled.
updateauth(account, permission, authorized_by) ==
  /\ account \in accounts
  /\ check_auth_change(account, authorized_by)
  /\ perms' = [perms EXCEPT ![account] = @ \cup {permission}]
  /\ UNCHANGED <<accounts, whitelist, limits, trusted>>

\* The host keeps owner and active.
deleteauth(account, permission, authorized_by) ==
  /\ account \in accounts /\ permission \in perms[account] \ {Owner, Active}
  /\ check_auth_change(account, authorized_by)
  /\ perms' = [perms EXCEPT ![account] = @ \ {permission}]
  /\ UNCHANGED <<accounts, whitelist, limits, trusted>>

-----------------------------------------------------------------------------
Next ==
  \/ \E creator \in Name, name \in Name : newaccount(creator, name)
  \/ \E account \in Name :
       \/ \E depth \in Depths : setwhitelist(account, depth)
       \/ \E allow_perms, disallow_perms \in Lists :
            limitauthchg(account, allow_perms, disallow_perms)
       \/ \E permission \in Permission, by \in Permission \cup {Nobody} :
            \/ updateauth(account, permission, by)
            \/ deleteauth(account, permission, by)

Spec == Init /\ [][Next]_vars

-----------------------------------------------------------------------------
(* Properties. *)

\* Rows have their types: no row of the whitelist has depth 0, and only accounts
\* have permissions and limits.
TypeOK ==
  /\ Initial \subseteq accounts /\ accounts \subseteq Name
  /\ perms \in [accounts -> SUBSET Permission]
  /\ DOMAIN whitelist \subseteq Name
  /\ \A a \in DOMAIN whitelist : whitelist[a] \in 1..255
  /\ DOMAIN limits \subseteq accounts
  /\ \A a \in DOMAIN limits :
       limits[a] \in [allow_perms : SUBSET Permission,
                      disallow_perms : SUBSET Permission]
  /\ trusted \in BOOLEAN

\* Whatever limits an account sets and lifts, and whatever permissions it creates
\* and deletes, one of the permissions it has can still change its permissions.
NeverLockedOut ==
  \A a \in accounts : \E by \in perms[a] : check_auth_change(a, by)

\* Until the system contract itself is whitelisted deeper than 3, and whoever else
\* is, no short name without a dot comes to exist and a name with a dot only beside
\* its suffix.
NamesAreReserved ==
  ~trusted => \A name \in accounts \ Initial :
                name \notin Top /\ (name \in Dotted => Suffix[name] \in accounts)
=============================================================================
