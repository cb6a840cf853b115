SPECIFICATION Spec
CONSTANTS
    eth = eth
    sol = sol
    bnb = bnb
    Symbols <- MCSymbols
    Panels <- MCPanels
    Windows <- MCWindows
    Options <- MCOptions
    InitialCash = 2400
INVARIANTS
    EquityIsLedger
PROPERTIES
    TradesOnPastOnly
    GapsOfOthersHarmless
    LedgerSpec
CHECK_DEADLOCK FALSE
