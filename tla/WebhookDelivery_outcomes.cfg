SPECIFICATION FairSpec
CONSTANTS
  Workers = {w1, w2}
  Endpoints = {p1}
  Events = {v1}
  Topics = {t1}
  MaxDeliveries = 2
  CLAIM_BATCH = 2
  Stuck = 2
  AttemptMax = 1
  max_attempts = 2
  base_delay = 1
  MaxFaults = 1
  MaxEdits = 1
INVARIANTS
  TypeOK
  EveryTryCounted
  AcceptedOnce
  FannedOut
  OldSecretRetired
PROPERTIES
  KeepsPromise
  EveryDeliverySettles
