SPECIFICATION FairSpec
CONSTANTS
  Covenants = {1}
  Releasers = {r1}
  Arbitrations = {a1}
  MerchantRefunds = {m1}
  ArbiterRefunds = {b1}
  Mutuals = {u1}
  Cancellers = {}
  ClaimBatch = 2
  MaxFaults = 0
  MaxCrashes = 0
  None = None
INVARIANTS
  TypeOK
  ClaimExclusive
  SettledAsSpent
PROPERTIES
  SettledForGood
  EscrowSpec
  CaptureWindowResolves
\* A run may end: settled covenants and answered requests leave the keeper
\* nothing to do.
CHECK_DEADLOCK FALSE
