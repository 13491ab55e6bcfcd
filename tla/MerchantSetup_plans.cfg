SPECIFICATION Spec
CONSTANTS
  Requests = {q1, q2}
  Included = "main"
  Others = {"shop"}
  Configs <- MCConfigs
  Patches <- MCPatches
  Keep = Keep
  Legacy <- MCLegacy
  Amounts = {49, 99}
  LinkAmount = 99
  MaxBps = 100
  PlatformBps = 2
  PlatformFlat = 0
  MinInvoice = 49
  MassParam = 100
  MaxMass = 60
  MaxWrites = 3
  MaxInvoices = 1
  MaxFaults = 1
INVARIANTS
  TypeOK
  OneDefaultStore
  PlansSettle
\* The bounds on requests run out; the server then waits for more.
CHECK_DEADLOCK FALSE
