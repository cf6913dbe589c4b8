SPECIFICATION Spec
CONSTANTS
    A = A
    B = B
    None = None
    Miner = {A, B}
    Enrolled = {A, B}
    Nonce = {1, 2}
    Difficulty = {5, 9}
    Reward = {20}
    Percent = 10
    BatchFails = FALSE
    BestRecorded = TRUE
    MaxChallenge = 2
    MaxRows = 4
    MaxRestarts = 0
\* The model ends with the last challenge.
CHECK_DEADLOCK FALSE
INVARIANTS
    ChallengesUnique
