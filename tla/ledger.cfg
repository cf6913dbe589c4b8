SPECIFICATION Spec
CONSTANTS
    A = A
    B = B
    None = None
    Miner = {A, B}
    Enrolled = {A, B}
    Nonce = {1, 2}
    Difficulty = {4, 9}
    Reward = {20}
    Percent = 7
    BatchFails = TRUE
    BestRecorded = FALSE
    MaxChallenge = 2
    MaxRows = 4
    MaxRestarts = 1
\* The model ends with the last challenge.
CHECK_DEADLOCK FALSE
INVARIANTS
    TypeOK
    RowsReferred
    EarnedOnce
    NeverOverpaid
