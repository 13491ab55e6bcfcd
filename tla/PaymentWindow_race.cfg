SPECIFICATION Spec
CONSTANTS
  Submitters = {s1, q}
  Finalizers = {f1, q}
  Fetchers = {q}
  Viewers = {}
  Cancellers = {}
  TxIds = {t1, t2}
  Fundings <- PlainFundings
  CLAIM_BATCH = 1
  MaxAhead = 0
  MaxFailures = 0
  None = None
SYMMETRY Symmetry
INVARIANTS
  TypeOK
  TimelySubmissionNotExpired
  CycleFollowsSubmission
  AcceptedInTime
  FundedExactly
PROPERTIES
  TxClaimedOnce
\* A run may end: a paid or cancelled invoice with every request served leaves
\* the workers nothing to do.
CHECK_DEADLOCK FALSE
