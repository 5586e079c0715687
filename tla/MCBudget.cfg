SPECIFICATION Spec
CONSTANTS
    MonthLengths <- MCMonths
    FirstDays = {88, 118}
    Span = 5
    ResetDays = {1, 31}
    Figures = {0, 5}
    MaxLag = 2
    MaxBatches = 2
INVARIANTS CacheMatchesLedger ShortMonthsClamp EstimateFollowsUse
CHECK_DEADLOCK FALSE
