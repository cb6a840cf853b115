SPECIFICATION Spec
CONSTANTS
    None = None
    BTC = BTC
    eth = eth
    sol = sol
    Symbols <- MCSymbols
    Ratio <- MCRatio
    Configs <- MCConfigs
    Markets <- MCMarkets
    Accounts <- MCAccounts
    PoolSize = 1
    AtrMultiplier = 1
    AllowEntries = TRUE
    StoreThrough = FALSE
    MaxCycles = 3
INVARIANTS
    BudgetsFitCash
    LegsStayInsideTargets
    EitherRegimeCutsTrend
    TrendRiskInsideTarget
    FailedTrendLegStaysCash
