\* Every algorithm over its inputs up to a length.
SPECIFICATION Spec
CONSTANTS
    Lo = 0
    Width = 3
    NumBuckets = 4
    Percents = {1, 25, 50, 95, 100}
    Rounded <- MCRounded
    Exact = 8
    Second = 2
    HourTicks = 4
    HoursPerDay = 2
    MonthStart <- MCMonthStart
    ApproxMonth = 2
    Inputs <- MCInputs
    Intervals = {1, 3}
    Origins = {0, 2}
    Retentions = {0, 1, 3}
INVARIANTS
    CodecsReadBack
    BatchReadsBack
    LineReadsBack
    PartitionsAgree
    WindowsTile
    PercentilesAgree
    IncreaseAddsUp
    OneAnswer
    PlanKept
    ParsesExactly
    TextsCarried
CHECK_DEADLOCK FALSE
