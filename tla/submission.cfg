SPECIFICATION Spec
CONSTANTS
    c1 = c1
    c2 = c2
    A = A
    B = B
    Client = {}
    Miner = {A}
    Pubkey <- MCNoPubkey
    Solution <- MCSolution
    NoSolution = NoSolution
    MaxChallenge = 3
    SubmitLimit = 2
    CheckLimit = 2
    WaitLimit = 0
    MaxNonce = 0
INVARIANTS
    TypeOK
    PausedHasWork
    RecheckIsSome
    CreditsFitLedger
PROPERTIES
    PaysOnce
