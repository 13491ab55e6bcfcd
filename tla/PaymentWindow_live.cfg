SPECIFICATION FairSpec
CONSTANTS
  Submitters = {s1}
  Finalizers = {f1}
  Fetchers = {s1, f1}
  Viewers = {s1, f1}
  Cancellers = {f1}
  TxIds = {t1}
  Fundings <- Funding
  CLAIM_BATCH = 1
  MaxAhead = 1
  MaxFailures = 1
  None = None
INVARIANTS
  TimelySubmissionNotExpired
  CycleFollowsSubmission
  FundedExactly
  FailureReportedOnce
PROPERTIES
  DeepPaymentDecided
  UnpaidInvoiceCloses
\* A run may end: a paid or cancelled invoice with every request served leaves
\* the workers nothing to do.
CHECK_DEADLOCK FALSE
