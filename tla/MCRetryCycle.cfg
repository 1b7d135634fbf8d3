SPECIFICATION Spec
CONSTANTS
    TERMINAL_4XX_MAX_ATTEMPTS = 3
    RETRY_AFTER_CAP_SECONDS = 3600
    Results <- MCResults
    Headers <- MCHeaders
    ConfiguredMaxes <- MCConfiguredMaxes
INVARIANTS
    TypeOK
    BudgetSpent
    WaitsAsScheduled
CHECK_DEADLOCK FALSE
