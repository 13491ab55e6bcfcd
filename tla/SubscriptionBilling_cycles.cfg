SPECIFICATION Spec
CONSTANTS
  Subs = {1}
  Creators = {c1}
  Retriers = {q}
  Changers = {q}
  Interval = 1
  ScanBatch = 2
  MaxPeriods = 2
  MaxTime = 1
  MaxAttempts = 2
  MaxSetups = 0
  MaxFaults = 1
  None = None
INVARIANTS
  TypeOK
  OneAwaitingInvoice
PROPERTIES
  PaidForGood
