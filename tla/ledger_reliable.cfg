SPECIFICATION Spec
CONSTANTS
    A = A
    B = B
    None = None
    Miner = {A, B}
    Enrolled = {A}
    Nonce = {1, 2}
    Difficulty = {5, 9}
    Reward = {20}
    Percent = 10
    BatchFails = FALSE
    BestRecorded = TRUE
    MaxChallenge = 2
    MaxRows = 4
    MaxRestarts = 1
\* The model ends with the last challenge.
CHECK_DEADLOCK FALSE
INVARIANTS
    BalancesMatchEarnings
    ClosedByOwnContribution
PROPERTIES
    QueueDrains
