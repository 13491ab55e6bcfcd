SPECIFICATION FairSpec
CONSTANTS
  Covenants = {1}
  Releasers = {}
  Arbitrations = {}
  MerchantRefunds = {}
  ArbiterRefunds = {}
  Mutuals = {}
  Cancellers = {x1}
  ClaimBatch = 2
  MaxFaults = 0
  MaxCrashes = 0
  None = None
PROPERTIES
  CaptureWindowResolves
\* A run may end: settled covenants and answered requests leave the keeper
\* nothing to do.
CHECK_DEADLOCK FALSE
