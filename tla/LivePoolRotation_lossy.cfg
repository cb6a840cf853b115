SPECIFICATION Spec
CONSTANTS
    eth = eth
    sol = sol
    BTC = BTC
    Symbols <- MCSymbols
    RawLists <- MCRawLists
    MaxVersions = 2
    PoolSize = 1
    RefreshModes = {TRUE, FALSE}
    Views <- GappyViews
    TopN = 1
    AtrMultipliers = {1}
    EntryPrices = {4}
    StoreThrough = FALSE
INVARIANTS
    TypeOK
    NoPyramiding
    ExitsCloseTheDecision
PROPERTIES
    AuthorityNeedsReconciledBooks
    PoolSpec
