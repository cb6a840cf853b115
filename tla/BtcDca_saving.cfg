SPECIFICATION FairSpec
CONSTANTS
    None = None
    YearMonths = 2
    DaysIn <- MCDaysIn
    WeekLength = 3
    Schedules <- MCSchedules
    Deployments <- SavingDeployments
    Multiplier <- MCMultiplier
    Ratio <- MCRatio
    Readings <- CheapReading
    Signals <- PassiveSignal
    OtherAssets = 4
    MaxEquity = 14
    Deposits = {}
    PricesMove = FALSE
    FillsVary = FALSE
PROPERTIES
    AccumulationSettles
