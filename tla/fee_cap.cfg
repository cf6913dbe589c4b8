SPECIFICATION Spec
CONSTANTS
    DEFAULT_PRIORITY_FEE = 10000
    EXTRA_LIMIT = 300000
    NoCap = NoCap
    Caps = {5000, 100000}
    StaticFees = {100, 150000}
    Percents = {0, 50}
    Estimates = {0, 300, 250000}
CHECK_DEADLOCK FALSE
INVARIANT FeeWithinCap
