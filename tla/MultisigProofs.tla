--------------------------- MODULE MultisigProofs ---------------------------
(***************************************************************************)
(* The multisig contract keeps the promise of Approvals, for every set of  *)
(* proposals, levels and accounts, every authority of the host and every   *)
(* transaction.                                                            *)
(***************************************************************************)
EXTENDS Multisig, TLAPS

\* The inductive invariant: the delay of a proposal starts at the time its
\* approval was given, and times are of the past.
IInv == TypeOK /\ TablesAgree

\* What the invariant says of one row of the proposals and the approvals table.
ProposalOK(row, time) ==
  /\ row \in [trx : Transaction, earliest_exec_time : Nat]
  /\ \/ row.earliest_exec_time = NoTime
     \/ row.earliest_exec_time - BlocksPerSecond * row.trx.delay_sec \in 1..time

ApprovalsOK(row, time) ==
  row \in Seq(Approval) /\ \A i \in DOMAIN row : row[i].time <= time

\* A set of levels of an approvals row is known by its positions.
Stands(row, level) == \E i \in DOMAIN row : row[i].level = level /\ Valid(row[i])

-----------------------------------------------------------------------------
(* Rows. *)

(* A row whose i-th approval is given another time. *)
LEMMA SetTime ==
  ASSUME NEW row \in Seq(Approval), NEW i \in DOMAIN row, NEW t \in Nat
  PROVE  LET new == [row EXCEPT ![i].time = t]
         IN  /\ new \in Seq(Approval) /\ DOMAIN new = DOMAIN row
             /\ new[i].time = t /\ new[i].level = row[i].level
             /\ new[i] \in Approval
             /\ \A j \in DOMAIN row : j # i => new[j] = row[j]
<1> DEFINE new == [row EXCEPT ![i].time = t]
<1>1. /\ DOMAIN row = 1..Len(row) /\ Len(row) \in Nat
      /\ \A j \in 1..Len(row) : row[j] \in Approval
  OBVIOUS
<1>2. new = [j \in 1..Len(row) |-> IF j = i THEN [row[i] EXCEPT !.time = t]
                                            ELSE row[j]]
  BY <1>1
<1>3. [row[i] EXCEPT !.time = t] \in Approval
  BY <1>1 DEF Approval
<1>4. new \in [1..Len(row) -> Approval]
  BY <1>1, <1>2, <1>3
<1>5. new \in Seq(Approval)
  BY <1>1, <1>4
<1>6. QED  BY <1>1, <1>2, <1>3, <1>5 DEF Approval

(* Every approval of a new row is only requested. *)
LEMMA NewRow ==
  ASSUME NEW levels \in Seq(Level)
  PROVE  /\ Requested(levels) \in Seq(Approval)
         /\ \A i \in DOMAIN Requested(levels) :
              Requested(levels)[i].time = NoTime
<1>1. DOMAIN levels = 1..Len(levels) /\ Len(levels) \in Nat
  OBVIOUS
<1>2. Requested(levels) \in [1..Len(levels) -> Approval]
  BY <1>1 DEF Requested, Approval, NoTime
<1>3. QED  BY <1>1, <1>2 DEF Requested

(* get_approvals is the set of levels that stand. *)
LEMMA StandsMeans ==
  ASSUME NEW row, NEW level
  PROVE  level \in get_approvals(row) <=> Stands(row, level)
BY DEF get_approvals, Stands

-----------------------------------------------------------------------------
(* The invariant. *)

(* Its conjuncts, row by row. *)
LEMMA Parts ==
  TypeOK <=> /\ now \in 1..MaxTime /\ authority \in Authorities
             /\ DOMAIN proposals \subseteq Proposal
             /\ \A p \in DOMAIN proposals : ProposalOK(proposals[p], now)
             /\ \A p \in DOMAIN approvals : ApprovalsOK(approvals[p], now)
             /\ DOMAIN invalids \subseteq Account
             /\ \A account \in DOMAIN invalids : invalids[account] \in 1..now
BY DEF TypeOK, ProposalOK, ApprovalsOK

(* Time passes. *)
LEMMA Later ==
  ASSUME NEW t \in Nat, NEW row
  PROVE  /\ ProposalOK(row, t) => ProposalOK(row, t + 1)
         /\ ApprovalsOK(row, t) => ApprovalsOK(row, t + 1)
<1>1. ASSUME ProposalOK(row, t)
      PROVE  ProposalOK(row, t + 1)
  <2>1. row.earliest_exec_time \in Nat /\ row.trx.delay_sec \in Nat
    BY <1>1, MultisigAssumption DEF ProposalOK
  <2>2. QED  BY <1>1, <2>1 DEF ProposalOK, BlocksPerSecond
<1>2. ASSUME ApprovalsOK(row, t)
      PROVE  ApprovalsOK(row, t + 1)
  <2>1. \A i \in DOMAIN row : row[i].time \in Nat
    <3>1. \A i \in DOMAIN row : row[i] \in Approval
      BY <1>2 DEF ApprovalsOK
    <3>2. QED  BY <3>1 DEF Approval
  <2>2. QED  BY <1>2, <2>1 DEF ApprovalsOK
<1>3. QED  BY <1>1, <1>2

(* Init establishes it. *)
LEMMA InitInv == Init => IInv
BY MultisigAssumption DEF Init, IInv, TypeOK, TablesAgree

(* Every step keeps it. *)
LEMMA StepInv ==
  ASSUME IInv, [Next]_vars
  PROVE  IInv'
<1> USE DEF IInv, TablesAgree
<1>1. ASSUME NEW p \in Proposal, NEW levels \in Requests, NEW trx \in Transaction,
             propose(p, levels, trx)
      PROVE  IInv'
  <2>1. /\ Requested(levels) \in Seq(Approval)
        /\ \A i \in DOMAIN Requested(levels) : Requested(levels)[i].time = NoTime
    BY MultisigAssumption, NewRow
  <2>2. [trx |-> trx, earliest_exec_time |-> NoTime]
          \in [trx : Transaction, earliest_exec_time : Nat]
    BY DEF NoTime
  <2>3. /\ ProposalOK([trx |-> trx, earliest_exec_time |-> NoTime], now)
        /\ ApprovalsOK(Requested(levels), now)
    BY <2>1, <2>2, Parts DEF ProposalOK, ApprovalsOK, NoTime
  <2> DEFINE row == [trx |-> trx, earliest_exec_time |-> NoTime]
             given == Requested(levels)
  <2> HIDE DEF row, given
  <2>4. /\ proposals' = Put(proposals, p, row)
        /\ approvals' = Put(approvals, p, given)
        /\ UNCHANGED <<now, authority, invalids>>
    BY <1>1 DEF propose, row, given
  <2>5. /\ DOMAIN proposals' = DOMAIN proposals \cup {p}
        /\ \A q \in DOMAIN proposals' : ProposalOK(proposals'[q], now)
    BY <2>3, <2>4, Parts DEF Put, row
  <2>6. /\ DOMAIN approvals' = DOMAIN approvals \cup {p}
        /\ \A q \in DOMAIN approvals' : ApprovalsOK(approvals'[q], now)
    BY <2>3, <2>4, Parts DEF Put, given
  <2>7. QED  BY <2>4, <2>5, <2>6 DEF TypeOK, ProposalOK, ApprovalsOK
<1>2. ASSUME NEW p \in Proposal, NEW level \in Level,
             NEW hash, approve(p, level, hash)
      PROVE  IInv'
  <2>1. PICK i \in Grantable(approvals[p], level) :
          LET row == [approvals[p] EXCEPT ![i].time = now]
          IN  /\ approvals' = [approvals EXCEPT ![p] = row]
              /\ \/ proposals' = proposals
                 \/ proposals' = [proposals EXCEPT ![p].earliest_exec_time =
                                              StartedDelay(proposals[p].trx)]
    BY <1>2 DEF approve
  <2> DEFINE row == [approvals[p] EXCEPT ![i].time = now]
  <2>2. /\ p \in DOMAIN proposals /\ p \in DOMAIN approvals
        /\ approvals[p] \in Seq(Approval) /\ i \in DOMAIN approvals[p]
        /\ UNCHANGED <<now, authority, invalids>> /\ now \in Nat
    BY <1>2, <2>1 DEF approve, TypeOK, Grantable
  <2>3. /\ row \in Seq(Approval) /\ DOMAIN row = DOMAIN approvals[p]
        /\ row[i].time = now
        /\ \A j \in DOMAIN approvals[p] : j # i => row[j] = approvals[p][j]
    BY <2>2, SetTime
  <2>4. \A j \in DOMAIN row : row[j].time <= now
    BY <2>2, <2>3 DEF TypeOK
  <2> HIDE DEF row
  <2>5. /\ DOMAIN approvals' = DOMAIN approvals
        /\ \A q \in DOMAIN approvals : /\ approvals'[q] \in Seq(Approval)
                                       /\ \A j \in DOMAIN approvals'[q] :
                                            approvals'[q][j].time <= now
    BY <2>1, <2>2, <2>3, <2>4 DEF row, TypeOK
  <2>6. /\ DOMAIN proposals' = DOMAIN proposals
        /\ \A q \in DOMAIN proposals :
             /\ proposals'[q] \in [trx : Transaction, earliest_exec_time : Nat]
             /\ \/ proposals'[q].earliest_exec_time = NoTime
                \/ proposals'[q].earliest_exec_time
                     - BlocksPerSecond * proposals'[q].trx.delay_sec \in 1..now
    <3>1. /\ proposals[p].trx.delay_sec \in Nat
          /\ proposals[p] \in [trx : Transaction, earliest_exec_time : Nat]
      BY <2>2, MultisigAssumption DEF TypeOK
    <3>2. /\ StartedDelay(proposals[p].trx) \in Nat
          /\ StartedDelay(proposals[p].trx)
               - BlocksPerSecond * proposals[p].trx.delay_sec \in 1..now
      BY <2>2, <3>1 DEF StartedDelay, BlocksPerSecond, TypeOK
    <3> HIDE DEF IInv
    <3>3. CASE proposals' = proposals
      BY <1>2, <3>3 DEF IInv, TypeOK
    <3>4. CASE proposals' = [proposals EXCEPT ![p].earliest_exec_time =
                                              StartedDelay(proposals[p].trx)]
      BY <1>2, <2>2, <3>1, <3>2, <3>4 DEF IInv, TypeOK
    <3>5. QED  BY <2>1, <3>3, <3>4
  <2>7. QED  BY <2>2, <2>5, <2>6 DEF TypeOK
<1>3. ASSUME NEW p \in Proposal, NEW level \in Level, unapprove(p, level)
      PROVE  IInv'
  <2>1. PICK i \in Withdrawable(approvals[p], level) :
          LET row == [approvals[p] EXCEPT ![i].time = NoTime]
          IN  /\ approvals' = [approvals EXCEPT ![p] = row]
              /\ \E t \in {NoTime, proposals[p].earliest_exec_time} :
                   proposals' = [proposals EXCEPT ![p].earliest_exec_time = t]
    BY <1>3 DEF unapprove, AfterWithdrawal
  <2> DEFINE row == [approvals[p] EXCEPT ![i].time = NoTime]
  <2>2. /\ p \in DOMAIN proposals /\ p \in DOMAIN approvals
        /\ approvals[p] \in Seq(Approval) /\ i \in DOMAIN approvals[p]
        /\ UNCHANGED <<now, authority, invalids>> /\ now \in Nat
    BY <1>3, <2>1 DEF unapprove, TypeOK, Withdrawable
  <2>3. /\ row \in Seq(Approval) /\ DOMAIN row = DOMAIN approvals[p]
        /\ row[i].time = NoTime
        /\ \A j \in DOMAIN approvals[p] : j # i => row[j] = approvals[p][j]
    <3>1. NoTime \in Nat
      BY DEF NoTime
    <3>2. QED  BY <2>2, <3>1, SetTime
  <2>4. \A j \in DOMAIN row : row[j].time <= now
    BY <2>2, <2>3 DEF TypeOK, NoTime
  <2> HIDE DEF row
  <2>5. /\ DOMAIN approvals' = DOMAIN approvals
        /\ \A q \in DOMAIN approvals : /\ approvals'[q] \in Seq(Approval)
                                       /\ \A j \in DOMAIN approvals'[q] :
                                            approvals'[q][j].time <= now
    BY <2>1, <2>2, <2>3, <2>4 DEF row, TypeOK
  <2>6. /\ DOMAIN proposals' = DOMAIN proposals
        /\ \A q \in DOMAIN proposals :
             /\ proposals'[q] \in [trx : Transaction, earliest_exec_time : Nat]
             /\ \/ proposals'[q].earliest_exec_time = NoTime
                \/ proposals'[q].earliest_exec_time
                     - BlocksPerSecond * proposals'[q].trx.delay_sec \in 1..now
    BY <2>1, <2>2 DEF TypeOK, NoTime
  <2>7. QED  BY <2>2, <2>5, <2>6 DEF TypeOK
<1>4. ASSUME NEW p \in Proposal, NEW by \in BOOLEAN, cancel(p, by) \/ exec(p)
      PROVE  IInv'
  <2>1. /\ proposals' = Erase(proposals, p) /\ approvals' = Erase(approvals, p)
        /\ UNCHANGED <<now, authority, invalids>>
    BY <1>4 DEF cancel, exec
  <2>2. /\ DOMAIN proposals' = DOMAIN proposals \ {p}
        /\ DOMAIN approvals' = DOMAIN approvals \ {p}
        /\ \A q \in DOMAIN proposals' : proposals'[q] = proposals[q]
        /\ \A q \in DOMAIN approvals' : approvals'[q] = approvals[q]
    BY <2>1 DEF Erase
  <2>3. QED  BY <2>1, <2>2 DEF TypeOK
<1>5. ASSUME NEW account \in Account, invalidate(account)
      PROVE  IInv'
  <2>1. /\ DOMAIN invalids' = DOMAIN invalids \cup {account}
        /\ \A a \in DOMAIN invalids' : invalids'[a] \in 1..now
    BY <1>5 DEF invalidate, TypeOK, Put
  <2>2. QED  BY <1>5, <2>1 DEF invalidate, TypeOK
<1>6. CASE Tick
  <2>1. now \in Nat /\ now' = now + 1 /\ now' \in 1..MaxTime
    BY <1>6, MultisigAssumption DEF Tick, TypeOK
  <2>2. /\ \A q \in DOMAIN proposals' : ProposalOK(proposals'[q], now')
        /\ \A q \in DOMAIN approvals' : ApprovalsOK(approvals'[q], now')
    BY <1>6, <2>1, Parts, Later DEF Tick
  <2>3. QED  BY <1>6, <2>1, <2>2 DEF Tick, TypeOK, ProposalOK, ApprovalsOK
<1>7. CASE changeauth
  BY <1>7 DEF changeauth, TypeOK
<1>8. CASE UNCHANGED vars
  BY <1>8 DEF vars, TypeOK
<1>9. QED
  BY <1>1, <1>2, <1>3, <1>4, <1>5, <1>6, <1>7, <1>8 DEF Next

(* It holds in every reachable state. *)
LEMMA Invariance == Spec => []IInv
BY InitInv, StepInv, PTL DEF Spec

(* Rows have their types, no time is of the future and every running delay *)
(* started in a block that has come.                                       *)
THEOREM TypeCorrect == Spec => []TypeOK
<1>1. IInv => TypeOK
  BY DEF IInv
<1>2. QED  BY <1>1, Invariance, PTL

(* No row is left behind in either table: propose, cancel and exec. *)
THEOREM Agreement == Spec => []TablesAgree
<1>1. IInv => TablesAgree
  BY DEF IInv
<1>2. QED  BY <1>1, Invariance, PTL

(* exec and cancel split time at the expiration. *)
THEOREM SharpExpiry == Spec => []ExpiryIsSharp
<1>1. ASSUME IInv, NEW p \in DOMAIN proposals
      PROVE  /\ CanExec(p) => ~CanCancel(p, FALSE)
             /\ now >= BlocksPerSecond * (proposals[p].trx.expiration + 1)
                  => CanCancel(p, FALSE)
  <2>1. p \in DOMAIN approvals /\ proposals[p].trx.expiration \in Nat /\ now \in Nat
    BY <1>1, MultisigAssumption DEF IInv, TypeOK, TablesAgree
  <2>2. QED  BY <1>1, <2>1 DEF CanExec, CanCancel, NowSec, BlocksPerSecond
<1>2. IInv => ExpiryIsSharp
  BY <1>1 DEF ExpiryIsSharp
<1>3. QED  BY <1>2, Invariance, PTL

-----------------------------------------------------------------------------
(* What stands behind a proposal after each step. *)

(* Approving in terms of positions. *)
LEMMA ApprovingMeans ==
  ASSUME NEW p, NEW level
  PROVE  level \in Approving(p) <=>
           p \in DOMAIN approvals /\ Stands(approvals[p], level)
BY StandsMeans DEF Approving

(* An approval adds its level or, when it is void at once, nothing. *)
LEMMA ApproveStanding ==
  ASSUME IInv, NEW p \in Proposal, NEW level \in Level, NEW hash,
         approve(p, level, hash)
  PROVE  /\ Approving(p)' \in {Approving(p), Approving(p) \cup {level}}
         /\ \A q \in DOMAIN proposals : q # p => Approving(q)' = Approving(q)
<1>1. PICK i \in Grantable(approvals[p], level) :
        approvals' = [approvals EXCEPT ![p] =
                        [approvals[p] EXCEPT ![i].time = now]]
  BY DEF approve
<1> DEFINE row == approvals[p]
           new == [row EXCEPT ![i].time = now]
<1>2. /\ p \in DOMAIN approvals /\ row \in Seq(Approval) /\ i \in DOMAIN row
      /\ row[i].level = level /\ row[i].time = NoTime /\ now \in Nat
      /\ UNCHANGED invalids
  BY <1>1 DEF approve, IInv, TypeOK, Grantable
<1>3. /\ DOMAIN new = DOMAIN row /\ new[i].level = level
      /\ \A j \in DOMAIN row : j # i => new[j] = row[j]
  BY <1>2, SetTime
<1>4. /\ DOMAIN approvals' = DOMAIN approvals /\ approvals'[p] = new
      /\ \A q \in DOMAIN approvals : q # p => approvals'[q] = approvals[q]
  BY <1>1, <1>2
<1>5. ~Valid(row[i])
  BY <1>2 DEF Valid
<1> HIDE DEF row, new
<1>6. \A l : Stands(new, l) <=> Stands(row, l) \/ (l = level /\ Valid(new[i]))
  BY <1>2, <1>3, <1>5 DEF Stands
<1>7. \A l : l \in Approving(p)' <=>
               l \in Approving(p) \/ (l = level /\ Valid(new[i]))
  <2>1. \A l : l \in Approving(p) <=> Stands(row, l)
    BY <1>2, ApprovingMeans DEF row
  <2>2. \A l : l \in Approving(p)' <=> Stands(new, l)
    BY <1>2, <1>4 DEF Approving, get_approvals, Stands, Valid
  <2>3. QED  BY <1>6, <2>1, <2>2
<1>8. \A q \in DOMAIN proposals : q # p => Approving(q)' = Approving(q)
  BY <1>2, <1>4 DEF Approving, get_approvals, Valid
<1>9. QED  BY <1>7, <1>8

(* A withdrawal removes its level or, when it was given twice, nothing. *)
LEMMA WithdrawStanding ==
  ASSUME IInv, NEW p \in Proposal, NEW level \in Level, unapprove(p, level)
  PROVE  /\ Approving(p)' \in {Approving(p), Approving(p) \ {level}}
         /\ \A q \in DOMAIN proposals : q # p => Approving(q)' = Approving(q)
<1>1. PICK i \in Withdrawable(approvals[p], level) :
        approvals' = [approvals EXCEPT ![p] =
                        [approvals[p] EXCEPT ![i].time = NoTime]]
  BY DEF unapprove
<1> DEFINE row == approvals[p]
           new == [row EXCEPT ![i].time = NoTime]
<1>2. /\ p \in DOMAIN approvals /\ row \in Seq(Approval) /\ i \in DOMAIN row
      /\ row[i].level = level /\ NoTime \in Nat
      /\ UNCHANGED invalids
  BY <1>1 DEF unapprove, IInv, TypeOK, Withdrawable, NoTime
<1>3. /\ DOMAIN new = DOMAIN row /\ new[i].time = NoTime
      /\ \A j \in DOMAIN row : j # i => new[j] = row[j]
  BY <1>2, SetTime
<1>4. /\ DOMAIN approvals' = DOMAIN approvals /\ approvals'[p] = new
      /\ \A q \in DOMAIN approvals : q # p => approvals'[q] = approvals[q]
  BY <1>1, <1>2
<1>5. ~Valid(new[i])
  BY <1>3 DEF Valid
<1> HIDE DEF row, new
<1>6. /\ \A l : Stands(new, l) => Stands(row, l)
      /\ \A l : l # level => (Stands(new, l) <=> Stands(row, l))
  BY <1>2, <1>3, <1>5 DEF Stands
<1>7. /\ Approving(p)' \subseteq Approving(p)
      /\ Approving(p) \ {level} \subseteq Approving(p)'
  <2>1. \A l : l \in Approving(p) <=> Stands(row, l)
    BY <1>2, ApprovingMeans DEF row
  <2>2. \A l : l \in Approving(p)' <=> Stands(new, l)
    BY <1>2, <1>4 DEF Approving, get_approvals, Stands, Valid
  <2>3. QED  BY <1>6, <2>1, <2>2
<1>8. \A q \in DOMAIN proposals : q # p => Approving(q)' = Approving(q)
  BY <1>2, <1>4 DEF Approving, get_approvals, Valid
<1>9. Approving(p)' \in {Approving(p), Approving(p) \ {level}}
  BY <1>7
<1>10. QED  BY <1>8, <1>9

(* An invalidation revokes every level of its account, behind every proposal. *)
LEMMA InvalidateStanding ==
  ASSUME IInv, NEW account \in Account, invalidate(account)
  PROVE  \A p : Approving(p)' =
               Approving(p) \ {l \in Level : Actor[l] = account}
<1>1. /\ invalids' = Put(invalids, account, now) /\ UNCHANGED <<approvals, now>>
      /\ now \in Nat
  BY DEF invalidate, IInv, TypeOK
<1>2. ASSUME NEW a \in Approval, a.time <= now
      PROVE  Valid(a)' <=> Valid(a) /\ Actor[a.level] # account
  <2>1. a.time \in Nat
    BY DEF Approval
  <2>2. CASE Actor[a.level] = account
    BY <1>1, <1>2, <2>1, <2>2 DEF Valid, Put
  <2>3. CASE Actor[a.level] # account
    BY <1>1, <2>3 DEF Valid, Put
  <2>4. QED  BY <2>2, <2>3
<1>3. ASSUME NEW p \in DOMAIN approvals, NEW i \in DOMAIN approvals[p]
      PROVE  /\ approvals[p][i] \in Approval /\ approvals[p][i].time <= now
             /\ approvals[p][i].level \in Level
  <2>1. approvals[p] \in Seq(Approval)
    BY DEF IInv, TypeOK
  <2>2. approvals[p][i] \in Approval
    BY <2>1
  <2>3. QED  BY <2>2 DEF IInv, TypeOK, Approval
<1>4. ASSUME NEW p, NEW l
      PROVE  l \in Approving(p)' <=>
               l \in Approving(p) /\ ~(l \in Level /\ Actor[l] = account)
  <2>1. CASE p \notin DOMAIN approvals
    BY <1>1, <2>1 DEF Approving
  <2>2. CASE p \in DOMAIN approvals
    <3>1. \A i \in DOMAIN approvals[p] :
            Valid(approvals[p][i])' <=> /\ Valid(approvals[p][i])
                                        /\ Actor[approvals[p][i].level] # account
      BY <1>1, <1>2, <1>3, <2>2
    <3>2. QED  BY <1>1, <1>3, <2>2, <3>1 DEF Approving, get_approvals
  <2>3. QED  BY <2>1, <2>2
<1>5. QED  BY <1>4

(* A level comes to stand behind a proposal by approving it, and in no other *)
(* way: whatever propose, unapprove, cancel, exec and invalidate do.         *)
THEOREM StandsByApproval == Spec => StandsOnlyByApproval
<1> DEFINE Approved == \A p \in Proposal : \A level \in Approving(p)' \ Approving(p) :
                         \E proposal_hash \in {NoHash} \cup Transaction :
                           approve(p, level, proposal_hash)
<1>1. ASSUME IInv, [Next]_vars
      PROVE  [Approved]_vars
  <2> SUFFICES ASSUME Next
               PROVE  Approved
    BY <1>1
  <2>1. ASSUME NEW q \in Proposal, NEW levels \in Requests, NEW trx \in Transaction,
               propose(q, levels, trx)
        PROVE  Approved
    <3>1. \A i \in DOMAIN Requested(levels) : Requested(levels)[i].time = NoTime
      BY MultisigAssumption, NewRow
    <3>2. /\ UNCHANGED invalids
          /\ DOMAIN approvals' = DOMAIN approvals \cup {q}
          /\ approvals'[q] = Requested(levels)
          /\ \A p \in DOMAIN approvals : approvals'[p] = approvals[p]
      BY <2>1 DEF propose, Put
    <3>3. \A p : Approving(p)' \subseteq Approving(p)
      BY <3>1, <3>2 DEF Approving, get_approvals, Valid
    <3>4. QED  BY <3>3
  <2>2. ASSUME NEW q \in Proposal, NEW level \in Level,
               NEW hash \in {NoHash} \cup Transaction, approve(q, level, hash)
        PROVE  Approved
    <3>1. ASSUME NEW p \in Proposal, NEW l \in Approving(p)' \ Approving(p)
          PROVE  p = q /\ l = level
      <4>1. DOMAIN approvals' = DOMAIN approvals
        BY <2>2 DEF approve
      <4>2. p \in DOMAIN proposals
        BY <1>1, <3>1, <4>1 DEF Approving, IInv, TablesAgree
      <4>3. QED  BY <1>1, <2>2, <3>1, <4>2, ApproveStanding
    <3>2. QED  BY <2>2, <3>1
  <2>3. ASSUME NEW q \in Proposal, NEW level \in Level, unapprove(q, level)
        PROVE  Approved
    <3>1. ASSUME NEW p \in Proposal
          PROVE  Approving(p)' \subseteq Approving(p)
      <4>1. DOMAIN approvals' = DOMAIN approvals
        BY <2>3 DEF unapprove
      <4>2. CASE p \in DOMAIN proposals
        BY <1>1, <2>3, <4>2, WithdrawStanding
      <4>3. CASE p \notin DOMAIN proposals
        BY <1>1, <4>1, <4>3 DEF Approving, IInv, TablesAgree
      <4>4. QED  BY <4>2, <4>3
    <3>2. QED  BY <3>1
  <2>4. ASSUME NEW q \in Proposal, NEW by \in BOOLEAN, cancel(q, by) \/ exec(q)
        PROVE  Approved
    <3>1. approvals' = Erase(approvals, q) /\ UNCHANGED invalids
      BY <2>4 DEF cancel, exec
    <3>2. \A p : Approving(p)' \subseteq Approving(p)
      BY <3>1 DEF Approving, get_approvals, Valid, Erase
    <3>3. QED  BY <3>2
  <2>5. ASSUME NEW account \in Account, invalidate(account)
        PROVE  Approved
    BY <1>1, <2>5, InvalidateStanding
  <2>6. CASE Tick \/ changeauth
    <3>1. UNCHANGED <<approvals, invalids>>
      BY <2>6 DEF Tick, changeauth
    <3>2. \A p : Approving(p)' = Approving(p)
      BY <3>1 DEF Approving, get_approvals, Valid
    <3>3. QED  BY <3>2
  <2>7. QED  BY <2>1, <2>2, <2>3, <2>4, <2>5, <2>6 DEF Next
<1>2. QED  BY <1>1, Invariance, PTL DEF Spec, StandsOnlyByApproval

-----------------------------------------------------------------------------
(* The refinement. *)

\* The abstract proposal that stands for p.
OpenRow(p) ==
  [trx |-> proposals[p].trx, standing |-> Approving(p),
   since |-> IF proposals[p].earliest_exec_time = NoTime THEN 0
             ELSE proposals[p].earliest_exec_time
                  - BlocksPerSecond * proposals[p].trx.delay_sec]

(* open is the function of these rows. *)
LEMMA OpenRows == open = [p \in DOMAIN proposals |-> OpenRow(p)]
BY DEF open, OpenRow

(* The delay of an abstract proposal, when approve starts it or not. *)
LEMMA Since ==
  ASSUME IInv, NEW p \in DOMAIN proposals
  PROVE  /\ proposals[p].trx \in Transaction
         /\ proposals[p].trx.delay_sec \in Nat
         /\ proposals[p].trx.expiration \in Nat
         /\ proposals[p].earliest_exec_time \in Nat /\ now \in Nat
         /\ (OpenRow(p).since = 0) <=> (proposals[p].earliest_exec_time = NoTime)
         /\ OpenRow(p).since # 0 =>
              OpenRow(p).since = proposals[p].earliest_exec_time
                                 - BlocksPerSecond * proposals[p].trx.delay_sec
<1>1. /\ proposals[p] \in [trx : Transaction, earliest_exec_time : Nat]
      /\ proposals[p].trx \in Transaction /\ now \in Nat
      /\ proposals[p].trx \in [delay_sec : Nat, expiration : Nat]
  BY MultisigAssumption DEF IInv, TypeOK
<1>2. \/ proposals[p].earliest_exec_time = NoTime
      \/ proposals[p].earliest_exec_time
           - BlocksPerSecond * proposals[p].trx.delay_sec \in 1..now
  BY DEF IInv, TypeOK
<1>3. QED  BY <1>1, <1>2 DEF OpenRow, NoTime

(* A proposal that is ready in the contract is ready in the abstract. *)
LEMMA ExecReady ==
  ASSUME IInv, NEW p \in Proposal, CanExec(p)
  PROVE  p \in DOMAIN open /\ A!Ready(p)
<1>1. /\ p \in DOMAIN proposals /\ open[p] = OpenRow(p) /\ p \in DOMAIN open
      /\ open[p].trx = proposals[p].trx /\ open[p].standing = Approving(p)
      /\ open[p].since = OpenRow(p).since
  BY OpenRows DEF CanExec, OpenRow
<1> DEFINE trx == proposals[p].trx
           d == [t \in Transaction |-> BlocksPerSecond * t.delay_sec]
           l == [t \in Transaction |-> BlocksPerSecond * (t.expiration + 1) - 1]
<1>2. /\ d[trx] = BlocksPerSecond * trx.delay_sec
      /\ l[trx] = BlocksPerSecond * (trx.expiration + 1) - 1
  BY <1>1, Since
<1>3. A!Suffice(open[p].standing)
  BY <1>1 DEF CanExec, trx_is_authorized, A!Suffice
<1>4. now <= l[open[p].trx]
  BY <1>1, <1>2, Since DEF CanExec, NowSec, BlocksPerSecond
<1>5. IF open[p].since = 0 THEN d[open[p].trx] = 0
                           ELSE open[p].since + d[open[p].trx] <= now
  BY <1>1, <1>2, Since DEF CanExec, BlocksPerSecond, NoTime
<1>6. QED  BY <1>1, <1>3, <1>4, <1>5 DEF A!Ready

(* A step that writes the row of p is a step of the abstract row alone. *)
LEMMA OneRow ==
  ASSUME NEW p \in DOMAIN open, NEW row,
         DOMAIN proposals' = DOMAIN proposals,
         \A q \in DOMAIN proposals : q # p => OpenRow(q)' = OpenRow(q),
         OpenRow(p)' = row
  PROVE  open' = [open EXCEPT ![p] = row]
<1>1. open = [q \in DOMAIN proposals |-> OpenRow(q)]
  BY OpenRows
<1>2. open' = [q \in DOMAIN proposals' |-> OpenRow(q)']
  BY DEF open, OpenRow
<1>3. QED  BY <1>1, <1>2

(* A step that erases the row of p closes the abstract proposal. *)
LEMMA RowErased ==
  ASSUME IInv, NEW p \in Proposal, p \in DOMAIN proposals,
         proposals' = Erase(proposals, p), approvals' = Erase(approvals, p),
         UNCHANGED invalids
  PROVE  p \in DOMAIN open /\ open' = A!Without(p)
<1>1. open = [q \in DOMAIN proposals |-> OpenRow(q)]
  BY OpenRows
<1>2. open' = [q \in DOMAIN proposals' |-> OpenRow(q)']
  BY DEF open, OpenRow
<1>3. /\ DOMAIN proposals' = DOMAIN proposals \ {p}
      /\ \A q \in DOMAIN proposals' : OpenRow(q)' = OpenRow(q)
  BY DEF Erase, OpenRow, Approving, get_approvals, Valid
<1>4. QED  BY <1>1, <1>2, <1>3 DEF A!Without

(* What stands and since when are written together. *)
LEMMA RowWritten ==
  ASSUME NEW row, DOMAIN row = {"trx", "standing", "since"},
         NEW standing, NEW since
  PROVE  [row EXCEPT !.standing = standing, !.since = since]
           = [trx |-> row.trx, standing |-> standing, since |-> since]
<1>1. [row EXCEPT !.standing = standing, !.since = since]
        = [f \in {"trx", "standing", "since"} |->
             IF f = "since" THEN since
             ELSE IF f = "standing" THEN standing ELSE row[f]]
  OBVIOUS
<1>2. QED  BY <1>1

(* The contract implements Approvals, action by action. *)
LEMMA StepMaps ==
  ASSUME IInv, [Next]_vars
  PROVE  [A!Next]_(A!vars)
<1>1. ASSUME NEW p \in Proposal, NEW levels \in Requests, NEW trx \in Transaction,
             propose(p, levels, trx)
      PROVE  A!Propose(p, trx)
  <2>1. \A i \in DOMAIN Requested(levels) : Requested(levels)[i].time = NoTime
    BY MultisigAssumption, NewRow
  <2>2. /\ UNCHANGED <<now, authority, invalids>> /\ p \notin DOMAIN proposals
        /\ DOMAIN approvals' = DOMAIN approvals \cup {p}
        /\ approvals'[p] = Requested(levels)
        /\ \A q \in DOMAIN approvals : approvals'[q] = approvals[q]
        /\ DOMAIN proposals' = DOMAIN proposals \cup {p}
        /\ proposals'[p] = [trx |-> trx, earliest_exec_time |-> NoTime]
        /\ \A q \in DOMAIN proposals : proposals'[q] = proposals[q]
    BY <1>1 DEF propose, Put
  <2>3. Approving(p)' = {}
    BY <2>1, <2>2 DEF Approving, get_approvals, Valid
  <2>4. \A q \in DOMAIN proposals : Approving(q)' = Approving(q)
    BY <2>2 DEF Approving, get_approvals, Valid, IInv, TablesAgree
  <2>5. /\ OpenRow(p)' = [trx |-> trx, standing |-> {}, since |-> 0]
        /\ \A q \in DOMAIN proposals : OpenRow(q)' = OpenRow(q)
    BY <2>2, <2>3, <2>4 DEF OpenRow
  <2>6. /\ open = [q \in DOMAIN proposals |-> OpenRow(q)]
        /\ open' = [q \in DOMAIN proposals' |-> OpenRow(q)']
    BY OpenRows DEF open, OpenRow
  <2>7. QED  BY <2>2, <2>5, <2>6 DEF A!Propose
<1>2. ASSUME NEW p \in Proposal, NEW level \in Level, NEW hash,
             approve(p, level, hash)
      PROVE  A!Approve(p, level)
  <2>1. /\ p \in DOMAIN proposals /\ UNCHANGED <<now, authority, invalids>>
        /\ DOMAIN proposals' = DOMAIN proposals
        /\ \A q \in DOMAIN proposals : q # p => proposals'[q] = proposals[q]
        /\ p \in DOMAIN approvals
    BY <1>2 DEF approve
  <2>2. /\ Approving(p)' \in {Approving(p), Approving(p) \cup {level}}
        /\ \A q \in DOMAIN proposals : q # p => Approving(q)' = Approving(q)
    BY <1>2, ApproveStanding
  <2>3. \A q \in DOMAIN proposals : q # p => OpenRow(q)' = OpenRow(q)
    BY <2>1, <2>2 DEF OpenRow
  <2> DEFINE old == proposals[p]
             starts == old.earliest_exec_time = NoTime
                       /\ trx_is_authorized(Approving(p)')
  <2>4. proposals'[p] = IF starts
                         THEN [old EXCEPT !.earliest_exec_time = StartedDelay(old.trx)]
                         ELSE old
    <3>1. PICK i \in Grantable(approvals[p], level) :
            LET row == [approvals[p] EXCEPT ![i].time = now]
            IN  /\ approvals' = [approvals EXCEPT ![p] = row]
                /\ proposals' = IF /\ old.earliest_exec_time = NoTime
                                   /\ trx_is_authorized(get_approvals(row))
                       THEN [proposals EXCEPT ![p].earliest_exec_time =
                                                StartedDelay(old.trx)]
                       ELSE proposals
      BY <1>2 DEF approve
    <3> DEFINE row == [approvals[p] EXCEPT ![i].time = now]
    <3>2. approvals'[p] = row /\ DOMAIN approvals' = DOMAIN approvals
      BY <2>1, <3>1
    <3> HIDE DEF row
    <3>3. get_approvals(row) = Approving(p)'
      BY <2>1, <3>2 DEF Approving, get_approvals, Valid
    <3>4. QED  BY <2>1, <3>1, <3>3 DEF row
  <2>5. /\ old.trx.delay_sec \in Nat /\ now \in 1..MaxTime
        /\ old \in [trx : Transaction, earliest_exec_time : Nat]
        /\ (OpenRow(p).since = 0) <=> (old.earliest_exec_time = NoTime)
    BY <2>1, Since DEF IInv, TypeOK
  <2> DEFINE new == [trx |-> old.trx, standing |-> Approving(p)',
                     since |-> IF OpenRow(p).since = 0 /\ A!Suffice(Approving(p)')
                                 THEN now ELSE OpenRow(p).since]
  <2>6. OpenRow(p)' = new
    <3> starts <=> OpenRow(p).since = 0 /\ A!Suffice(Approving(p)')
      BY <2>5 DEF A!Suffice, trx_is_authorized
    <3>1. CASE starts
      <4>1. /\ proposals'[p].trx = old.trx
            /\ proposals'[p].earliest_exec_time = StartedDelay(old.trx)
            /\ StartedDelay(old.trx) # NoTime
            /\ StartedDelay(old.trx) - BlocksPerSecond * old.trx.delay_sec = now
        BY <2>4, <2>5, <3>1, MultisigAssumption
           DEF StartedDelay, BlocksPerSecond, NoTime
      <4>2. QED  BY <3>1, <4>1 DEF OpenRow
    <3>2. CASE ~starts
      <4>1. proposals'[p] = old
        BY <2>4, <3>2
      <4>2. QED  BY <3>2, <4>1 DEF OpenRow
    <3>3. QED  BY <3>1, <3>2
  <2> HIDE DEF new
  <2>7. p \in DOMAIN open /\ open[p] = OpenRow(p)
    BY <2>1, OpenRows
  <2>8. open' = [open EXCEPT ![p] = new]
    BY <2>1, <2>3, <2>6, <2>7, OneRow
  <2>9. new = [open[p] EXCEPT !.standing = Approving(p)',
                              !.since = IF @ = 0 /\ A!Suffice(Approving(p)')
                                          THEN now ELSE @]
    <3>1. /\ DOMAIN open[p] = {"trx", "standing", "since"}
          /\ open[p].trx = old.trx /\ open[p].since = OpenRow(p).since
      BY <2>7 DEF OpenRow
    <3>2. new = [trx |-> open[p].trx, standing |-> Approving(p)',
                 since |-> IF open[p].since = 0 /\ A!Suffice(Approving(p)')
                             THEN now ELSE open[p].since]
      BY <3>1 DEF new
    <3>3. QED  BY <3>1, <3>2, RowWritten, Zenon
  <2>10. Approving(p)' \in {open[p].standing, open[p].standing \cup {level}}
    BY <2>2, <2>7 DEF OpenRow
  <2>11. open' = [open EXCEPT ![p].standing = Approving(p)',
                              ![p].since = IF @ = 0 /\ A!Suffice(Approving(p)')
                                             THEN now ELSE @]
    BY <2>7, <2>8, <2>9, Zenon
  <2>12. QED  BY <2>1, <2>7, <2>10, <2>11 DEF A!Approve
<1>3. ASSUME NEW p \in Proposal, NEW level \in Level, unapprove(p, level)
      PROVE  A!Withdraw(p, level)
  <2>1. /\ p \in DOMAIN proposals /\ UNCHANGED <<now, authority, invalids>>
        /\ DOMAIN proposals' = DOMAIN proposals
        /\ \A q \in DOMAIN proposals : q # p => proposals'[q] = proposals[q]
        /\ p \in DOMAIN approvals
    BY <1>3 DEF unapprove
  <2>2. /\ Approving(p)' \in {Approving(p), Approving(p) \ {level}}
        /\ \A q \in DOMAIN proposals : q # p => Approving(q)' = Approving(q)
    BY <1>3, WithdrawStanding
  <2>3. \A q \in DOMAIN proposals : q # p => OpenRow(q)' = OpenRow(q)
    BY <2>1, <2>2 DEF OpenRow
  <2> DEFINE old == proposals[p]
             stays == trx_is_authorized(Approving(p)')
  <2>4. proposals'[p] = [old EXCEPT !.earliest_exec_time =
                           IF stays THEN old.earliest_exec_time ELSE NoTime]
    <3>1. PICK i \in Withdrawable(approvals[p], level) :
            LET row == [approvals[p] EXCEPT ![i].time = NoTime]
            IN  /\ approvals' = [approvals EXCEPT ![p] = row]
                /\ proposals' = [proposals EXCEPT ![p].earliest_exec_time =
                                   IF trx_is_authorized(get_approvals(row))
                                     THEN old.earliest_exec_time ELSE NoTime]
      BY <1>3 DEF unapprove, AfterWithdrawal
    <3> DEFINE row == [approvals[p] EXCEPT ![i].time = NoTime]
    <3>2. approvals'[p] = row /\ DOMAIN approvals' = DOMAIN approvals
      BY <2>1, <3>1
    <3> HIDE DEF row
    <3>3. get_approvals(row) = Approving(p)'
      BY <2>1, <3>2 DEF Approving, get_approvals, Valid
    <3>4. QED  BY <2>1, <3>1, <3>3 DEF row
  <2>5. old \in [trx : Transaction, earliest_exec_time : Nat]
    BY <2>1 DEF IInv, TypeOK
  <2> DEFINE new == [trx |-> old.trx, standing |-> Approving(p)',
                     since |-> IF A!Suffice(Approving(p)')
                                 THEN OpenRow(p).since ELSE 0]
  <2>6. OpenRow(p)' = new
    <3> stays <=> A!Suffice(Approving(p)')
      BY DEF A!Suffice, trx_is_authorized
    <3>1. /\ proposals'[p].trx = old.trx
          /\ proposals'[p].earliest_exec_time =
               IF stays THEN old.earliest_exec_time ELSE NoTime
      BY <2>4, <2>5
    <3>2. QED  BY <3>1 DEF OpenRow, NoTime
  <2> HIDE DEF new
  <2>7. p \in DOMAIN open /\ open[p] = OpenRow(p)
    BY <2>1, OpenRows
  <2>8. open' = [open EXCEPT ![p] = new]
    BY <2>1, <2>3, <2>6, <2>7, OneRow
  <2>9. new = [open[p] EXCEPT !.standing = Approving(p)',
                              !.since = IF A!Suffice(Approving(p)')
                                          THEN @ ELSE 0]
    <3>1. /\ DOMAIN open[p] = {"trx", "standing", "since"}
          /\ open[p].trx = old.trx /\ open[p].since = OpenRow(p).since
      BY <2>7 DEF OpenRow
    <3>2. QED  BY <3>1, RowWritten DEF new
  <2>10. Approving(p)' \in {open[p].standing, open[p].standing \ {level}}
    BY <2>2, <2>7 DEF OpenRow
  <2>11. open' = [open EXCEPT ![p].standing = Approving(p)',
                              ![p].since = IF A!Suffice(Approving(p)')
                                             THEN @ ELSE 0]
    BY <2>7, <2>8, <2>9
  <2>12. QED  BY <2>1, <2>7, <2>10, <2>11 DEF A!Withdraw
<1>4. ASSUME NEW p \in Proposal, NEW by \in BOOLEAN, cancel(p, by)
      PROVE  A!Cancel(p)
  <2>1. /\ p \in DOMAIN proposals /\ UNCHANGED <<now, authority, invalids>>
        /\ proposals' = Erase(proposals, p) /\ approvals' = Erase(approvals, p)
    BY <1>4 DEF cancel, CanCancel
  <2>2. QED  BY <2>1, RowErased DEF A!Cancel
<1>5. ASSUME NEW p \in Proposal, exec(p)
      PROVE  A!Execute(p)
  <2>1. /\ p \in DOMAIN proposals /\ UNCHANGED <<now, authority, invalids>>
        /\ proposals' = Erase(proposals, p) /\ approvals' = Erase(approvals, p)
        /\ CanExec(p)
    BY <1>5 DEF exec, CanExec
  <2>2. QED  BY <2>1, RowErased, ExecReady DEF A!Execute
<1>6. ASSUME NEW account \in Account, invalidate(account)
      PROVE  A!Revoke({l \in Level : Actor[l] = account})
  <2> DEFINE levels == {l \in Level : Actor[l] = account}
  <2>1. UNCHANGED <<now, authority, proposals>>
    BY <1>6 DEF invalidate
  <2>2. \A p : Approving(p)' = Approving(p) \ levels
    BY <1>6, InvalidateStanding
  <2>3. /\ open = [q \in DOMAIN proposals |-> OpenRow(q)]
        /\ open' = [q \in DOMAIN proposals' |-> OpenRow(q)']
    BY OpenRows DEF open, OpenRow
  <2> HIDE DEF levels
  <2>4. \A q : OpenRow(q)' = [OpenRow(q) EXCEPT !.standing = @ \ levels]
    BY <2>1, <2>2 DEF OpenRow
  <2>5. QED  BY <2>1, <2>3, <2>4 DEF A!Revoke, levels
<1>7. ASSUME Tick \/ changeauth
      PROVE  A!Tick \/ A!ChangeAuthority
  <2>1. UNCHANGED open
    BY <1>7 DEF Tick, changeauth, open, Approving, get_approvals, Valid
  <2>2. QED  BY <1>7, <2>1 DEF Tick, changeauth, A!Tick, A!ChangeAuthority
<1>8. CASE UNCHANGED vars
  <2>1. UNCHANGED open
    BY <1>8 DEF vars, open, Approving, get_approvals, Valid
  <2>2. QED  BY <1>8, <2>1 DEF vars, A!vars
<1>9. QED
  <2>1. \A account : {l \in Level : Actor[l] = account} \in SUBSET Level
    OBVIOUS
  <2>2. QED
    BY <1>1, <1>2, <1>3, <1>4, <1>5, <1>6, <1>7, <1>8, <2>1 DEF Next, A!Next

(* Whatever propose, approve, unapprove, invalidate, cancel and exec do to the  *)
(* three tables, they do to the open proposals what Approvals allows: no        *)
(* execution without approvals that stand, after the deadline, before the delay *)
(* has passed, or twice.                                                        *)
THEOREM Implements == Spec => KeepsApprovals
<1>1. Init => A!Init
  BY DEF Init, A!Init, open
<1>2. QED  BY <1>1, StepMaps, Invariance, PTL DEF Spec, KeepsApprovals, A!Spec
=============================================================================
