--------------------------- MODULE AccountsProofs ---------------------------
(***************************************************************************)
(* The rules for accounts hold, for every set of names, permissions, lists *)
(* and depths.                                                             *)
(***************************************************************************)
EXTENDS Accounts, TLAPS

\* The limits in force are such as limitauthchg admits, and no account has lost
\* the permissions that the host keeps.
LimitsOK ==
  /\ \A a \in accounts : {Owner, Active} \subseteq perms[a]
  /\ \A a \in DOMAIN limits :
       ListsAreFine(limits[a].allow_perms, limits[a].disallow_perms)

\* trusted remembers what the whitelist says.
TrustOK == Trusts(whitelist, Eosio) => trusted

IInv == TypeOK /\ LimitsOK /\ TrustOK /\ NamesAreReserved

-----------------------------------------------------------------------------
(* Types are kept. *)
LEMMA TypeStep ==
  ASSUME TypeOK, Next
  PROVE  TypeOK'
<1> USE AccountsAssumption DEF TypeOK, Name
<1>1. ASSUME NEW creator \in Name, NEW name \in Name, newaccount(creator, name)
      PROVE  TypeOK'
  BY <1>1 DEF newaccount, Put
<1>2. ASSUME NEW account \in Name, NEW depth \in Depths,
             setwhitelist(account, depth)
      PROVE  TypeOK'
  BY <1>2 DEF setwhitelist, Put, Erase
<1>3. ASSUME NEW account \in Name, NEW allow_perms \in Lists,
             NEW disallow_perms \in Lists,
             limitauthchg(account, allow_perms, disallow_perms)
      PROVE  TypeOK'
  <2>1. allow_perms \in SUBSET Permission /\ disallow_perms \in SUBSET Permission
    OBVIOUS
  <2>2. UNCHANGED <<accounts, perms, whitelist, trusted>>
    BY <1>3 DEF limitauthchg
  <2>3. DOMAIN limits' \subseteq accounts
    BY <1>3 DEF limitauthchg, Put, Erase
  <2>4. ASSUME NEW a \in DOMAIN limits'
        PROVE  limits'[a] \in [allow_perms : SUBSET Permission,
                               disallow_perms : SUBSET Permission]
    BY <1>3, <2>1, <2>4 DEF limitauthchg, Put, Erase
  <2>5. QED  BY <2>2, <2>3, <2>4
<1>4. ASSUME NEW account \in Name, NEW permission \in Permission,
             NEW by \in Permission \cup {Nobody},
             \/ updateauth(account, permission, by)
             \/ deleteauth(account, permission, by)
      PROVE  TypeOK'
  BY <1>4 DEF updateauth, deleteauth
<1>5. QED  BY <1>1, <1>2, <1>3, <1>4 DEF Next

(* The limits stay such as limitauthchg admits, whatever permissions go. *)
LEMMA LimitsStep ==
  ASSUME TypeOK, LimitsOK, Next
  PROVE  LimitsOK'
<1> USE AccountsAssumption DEF TypeOK, LimitsOK
<1>1. ASSUME NEW creator \in Name, NEW name \in Name, newaccount(creator, name)
      PROVE  LimitsOK'
  BY <1>1 DEF newaccount, Put
<1>2. ASSUME NEW account \in Name, NEW depth \in Depths,
             setwhitelist(account, depth)
      PROVE  LimitsOK'
  BY <1>2 DEF setwhitelist
<1>3. ASSUME NEW account \in Name, NEW allow_perms \in Lists,
             NEW disallow_perms \in Lists,
             limitauthchg(account, allow_perms, disallow_perms)
      PROVE  LimitsOK'
  <2>1. UNCHANGED <<accounts, perms>> /\ ListsAreFine(allow_perms, disallow_perms)
    BY <1>3 DEF limitauthchg
  <2>2. ASSUME NEW a \in DOMAIN limits'
        PROVE  ListsAreFine(limits'[a].allow_perms, limits'[a].disallow_perms)
    BY <1>3, <2>1, <2>2 DEF limitauthchg, Put, Erase
  <2>3. QED  BY <2>1, <2>2 DEF ListsAreFine
<1>4. ASSUME NEW account \in Name, NEW permission \in Permission,
             NEW by \in Permission \cup {Nobody},
             \/ updateauth(account, permission, by)
             \/ deleteauth(account, permission, by)
      PROVE  LimitsOK'
  BY <1>4 DEF updateauth, deleteauth, ListsAreFine
<1>5. QED  BY <1>1, <1>2, <1>3, <1>4 DEF Next

(* Such limits never exclude the owner. *)
LEMMA OwnerRemains ==
  ASSUME TypeOK, LimitsOK
  PROVE  NeverLockedOut
<1>1. SUFFICES ASSUME NEW a \in accounts
               PROVE  Owner \in perms[a] /\ check_auth_change(a, Owner)
  BY DEF NeverLockedOut
<1>2. Owner \in perms[a] /\ Owner # Nobody
  BY AccountsAssumption DEF LimitsOK
<1>3. ASSUME a \in DOMAIN limits
      PROVE  IF limits[a].allow_perms # {}
               THEN Owner \in limits[a].allow_perms
               ELSE Owner \notin limits[a].disallow_perms
  BY <1>3 DEF LimitsOK, ListsAreFine
<1>4. QED  BY <1>2, <1>3 DEF check_auth_change

(* Who is not trusted creates only names that are not reserved. *)
LEMMA ReservedStep ==
  ASSUME TypeOK, TrustOK, NamesAreReserved, Next
  PROVE  TrustOK' /\ NamesAreReserved'
<1> USE AccountsAssumption DEF TrustOK, NamesAreReserved
<1>1. ASSUME NEW creator \in Name, NEW name \in Name, newaccount(creator, name)
      PROVE  TrustOK' /\ NamesAreReserved'
  BY <1>1 DEF newaccount, MayCreate, Trusts, TypeOK
<1>2. ASSUME NEW account \in Name, NEW depth \in Depths,
             setwhitelist(account, depth)
      PROVE  TrustOK' /\ NamesAreReserved'
  BY <1>2 DEF setwhitelist
<1>3. ASSUME UNCHANGED <<accounts, whitelist, trusted>>
      PROVE  TrustOK' /\ NamesAreReserved'
  BY <1>3 DEF Trusts
<1>4. QED
  BY <1>1, <1>2, <1>3
  DEF Next, limitauthchg, updateauth, deleteauth

-----------------------------------------------------------------------------
(* The inductive invariant. *)

LEMMA InitInv == Init => IInv
<1> SUFFICES ASSUME Init PROVE IInv
  OBVIOUS
<1> USE AccountsAssumption DEF Init
<1>1. DOMAIN whitelist = {} /\ DOMAIN limits = {}
  OBVIOUS
<1>2. perms \in [accounts -> SUBSET Permission]
  OBVIOUS
<1>3. TypeOK
  BY <1>1, <1>2 DEF TypeOK
<1>4. LimitsOK
  BY <1>1 DEF LimitsOK
<1>5. TrustOK /\ NamesAreReserved
  BY <1>1 DEF TrustOK, Trusts, NamesAreReserved
<1>6. QED  BY <1>3, <1>4, <1>5 DEF IInv

LEMMA StepInv == IInv /\ [Next]_vars => IInv'
<1> SUFFICES ASSUME IInv, [Next]_vars PROVE IInv'
  OBVIOUS
<1>1. CASE Next
  BY <1>1, TypeStep, LimitsStep, ReservedStep DEF IInv
<1>2. CASE UNCHANGED vars
  BY <1>2 DEF vars, IInv, TypeOK, LimitsOK, TrustOK, Trusts, NamesAreReserved
<1>3. QED  BY <1>1, <1>2

LEMMA Inductive == Spec => []IInv
BY InitInv, StepInv, PTL DEF Spec

-----------------------------------------------------------------------------
(* The theorems. *)

(* Rows have their types: no row of the whitelist has depth 0, and only accounts *)
(* have permissions and limits.                                                  *)
THEOREM TypeCorrect == Spec => []TypeOK
<1>1. IInv => TypeOK
  BY DEF IInv
<1>2. QED  BY <1>1, Inductive, PTL

(* No account can lock itself out of changing its permissions. *)
THEOREM OwnerNeverLockedOut == Spec => []NeverLockedOut
<1>1. IInv => NeverLockedOut
  BY OwnerRemains DEF IInv
<1>2. QED  BY <1>1, Inductive, PTL

(* Unless the system contract is whitelisted no account of a reserved name comes *)
(* to exist.                                                                     *)
THEOREM Reserved == Spec => []NamesAreReserved
<1>1. IInv => NamesAreReserved
  BY DEF IInv
<1>2. QED  BY <1>1, Inductive, PTL
=============================================================================
