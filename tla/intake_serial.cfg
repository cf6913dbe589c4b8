SPECIFICATION Spec
CONSTANTS
    c1 = c1
    c2 = c2
    A = A
    B = B
    Client = {c1, c2}
    Miner = {A, B}
    Pubkey <- MCTwoWallets
    Task = {c1, c2}
    From <- MCFrom
    Challenge = {1, 2}
    Chunk = {0, 1}
    Solution <- MCSolution
    MinDifficulty = 2
    NoSolution = NoSolution
    NoRange = NoRange
INVARIANTS
    TypeOK
    BestHashSound
    BestDominates
    BestIsContributed
PROPERTIES
    LowerDifficultyDiscarded
