SPECIFICATION BoundedSpec
CONSTANTS
  aliceActive = aliceActive
  aliceOwner = aliceOwner
  bobActive = bobActive
  alice = alice
  bob = bob
  p1 = p1
  p2 = p2
  Proposal = {p1, p2}
  Level <- MCLevel
  Account = {alice, bob}
  Actor <- MCActor
  Requests <- MCRequests
  Transaction <- MCTransaction
  Authorities <- MCAuthorities
  MaxTime = 4
INVARIANTS TypeOK TablesAgree ExpiryIsSharp
PROPERTIES StandsOnlyByApproval KeepsApprovals
