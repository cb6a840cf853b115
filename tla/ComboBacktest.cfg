SPECIFICATION RunSpec
CONSTANTS
    sol = sol
    dot = dot
    Alts <- MCAlts
    Histories <- MCHistories
    Configs <- MCConfigs
    Requests <- MCRequests
    ExtraDays = 1
    Grain = 400
INVARIANTS
    WindowIsSlice
PROPERTIES
    ContributionsKeepValue
CHECK_DEADLOCK FALSE
