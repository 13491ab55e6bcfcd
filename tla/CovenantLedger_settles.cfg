\* Two escrows and a cell on the keeper's one usable coin.
CONSTANTS
    c1 = c1  c2 = c2  cell = cell  q1 = q1
    Escrows = {c1, c2}
    Cell = cell
    Requests = {q1}
    Payouts <- MCPayouts
    Gross = 24
    CaptureTime = 1
    PanelSize = 2
    Threshold = 1
    Splits <- MCSplits
    CellPayouts <- MCCellPayouts
    CellValue = 24
    PeriodDaa = 1
    SweepThreshold = 6
    MinFee = 5
    ChangeFloor = 8
    MassParam = 24
    SettlementMass = 16
    MassCap = 20
    FeeBase = 1
    FeePerOutput = 1
    Wallets <- MCWallets
    MedianLag = 0
    MaxClock = 2
SPECIFICATION FairSpec
INVARIANTS
    TypeOK
    RefusedForCause
    BooksBalance
    CellPaysOnlyClaims
PROPERTY
    EscrowsSettle
\* Escrows and cell can all be spent and the clock at its bound: nothing is left.
CHECK_DEADLOCK FALSE
