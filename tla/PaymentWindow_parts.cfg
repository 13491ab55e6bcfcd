SPECIFICATION Spec
CONSTANTS
  Submitters = {s1}
  Finalizers = {f1}
  Fetchers = {}
  Viewers = {}
  Cancellers = {}
  TxIds = {t1}
  Fundings <- Funding
  CLAIM_BATCH = 1
  MaxAhead = 0
  MaxFailures = 0
  None = None
INVARIANTS
  FundedByOneOutput
\* A run may end: a paid or cancelled invoice with every request served leaves
\* the workers nothing to do.
CHECK_DEADLOCK FALSE
