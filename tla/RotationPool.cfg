SPECIFICATION PoolSpec
CONSTANTS
    eth = eth
    sol = sol
    bnb = bnb
    Symbols <- MCSymbols
    RawLists <- MCRawLists
    MaxVersions = 3
    PoolSize = 2
    RefreshModes = {TRUE, FALSE}
INVARIANTS
    OneListOrder
    InsideStampedList
PROPERTIES
    PoolNeverEmpties
