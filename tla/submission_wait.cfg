SPECIFICATION Spec
CONSTANTS
    c1 = c1
    c2 = c2
    A = A
    B = B
    Client = {c1, c2}
    Miner = {A, B}
    Pubkey <- MCTwoPubkeys
    Solution <- MCSolution
    NoSolution = NoSolution
    MaxChallenge = 1
    SubmitLimit = 2
    CheckLimit = 2
    WaitLimit = 1
    MaxNonce = 0
PROPERTIES
    AllActiveSubmitted
