SPECIFICATION Spec
CONSTANTS
    eth = eth
    sol = sol
    BTC = BTC
    Symbols <- MCSymbols
    RawLists <- MCRawLists
    MaxVersions = 2
    PoolSize = 1
    RefreshModes = {TRUE}
    Views <- FallingViews
    TopN = 1
    AtrMultipliers = {1}
    EntryPrices = {3}
    StoreThrough = TRUE
INVARIANTS
    StopStaysTripped
    StampedPoolIsList
