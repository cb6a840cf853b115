SPECIFICATION BundleSpec
CONSTANTS
    NProfiles = 2
    Names = {"nested", "backtest_v1", "backtest_v2"}
    Versions = {"backtest_v1", "backtest_v2"}
    RunIds = {"run_a", "run_b"}
    MaxInvocations = 3
INVARIANTS
    BundleIsOwn
CHECK_DEADLOCK FALSE
