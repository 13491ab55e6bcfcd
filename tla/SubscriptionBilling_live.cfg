SPECIFICATION FairSpec
CONSTANTS
  Subs = {1}
  Creators = {c1}
  Retriers = {}
  Changers = {}
  Interval = 1
  ScanBatch = 2
  MaxPeriods = 2
  MaxTime = 1
  MaxAttempts = 1
  MaxSetups = 1
  MaxFaults = 1
  None = None
PROPERTIES
  DuePeriodInvoiced
