SPECIFICATION Spec
CONSTANTS
    None = None
    YearMonths = 2
    DaysIn <- MCDaysIn
    WeekLength = 3
    Schedules <- MCSchedules
    Deployments <- MCDeployments
    Multiplier <- MCMultiplier
    Ratio <- MCRatio
    Readings <- MCReadings
    Signals <- MCSignals
    OtherAssets = 4
    MaxEquity = 9
    Deposits = {2}
    PricesMove = TRUE
    FillsVary = TRUE
INVARIANTS
    ReserveKept
    DirectionJustified
    GateRefusesOnlyHoldings
    DearerBuysLess
PROPERTIES
    BuysStayInWindow
