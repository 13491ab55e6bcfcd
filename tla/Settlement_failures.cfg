SPECIFICATION Spec
CONSTANTS
  Covenants = {1, 2}
  Releasers = {r1}
  Arbitrations = {}
  MerchantRefunds = {m1}
  ArbiterRefunds = {}
  Mutuals = {}
  Cancellers = {x1}
  ClaimBatch = 2
  MaxFaults = 1
  MaxCrashes = 1
  None = None
INVARIANTS
  IInv
PROPERTIES
  SettledForGood
  EscrowSpec
\* A run may end: settled covenants and answered requests leave the keeper
\* nothing to do.
CHECK_DEADLOCK FALSE
