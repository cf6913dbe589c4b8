SPECIFICATION Spec
CONSTANTS
    c1 = c1
    A = A
    t1 = t1
    Client = {c1}
    Miner = {A}
    Pubkey <- MCPubkey
    Task = {t1}
    From <- MCFrom
    Solution <- MCSolution
    NoSolution = NoSolution
    NoRange = NoRange
    NoMission = NoMission
    MinDifficulty = 1
    MaxChallenge = 1
    SubmitLimit = 1
    CheckLimit = 2
    WaitLimit = 0
    MaxNonce = 1
CONSTRAINT Followed
INVARIANTS
    TypeOK
    BestCredited
PROPERTIES
    IntakeImplemented
    SubmissionImplemented
