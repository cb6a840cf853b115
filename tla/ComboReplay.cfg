SPECIFICATION Spec
CONSTANTS
    None = None
    BTC = BTC
    eth = eth
    sol = sol
    Symbols <- MCSymbols
    Ratio <- MCRatio
    Snapshots <- MCSnapshots
    Tables <- MCTables
    Settings <- MCSettings
    PoolSize = 1
INVARIANTS
    RefusesArgumentsOnly
    DaysChain
    HoldsOnlyTargets
PROPERTIES
    NoLookAhead
    LedgerSpec
CHECK_DEADLOCK FALSE
