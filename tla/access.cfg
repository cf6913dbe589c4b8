SPECIFICATION Spec
CONSTANTS
    Good = Good
    Bad = Bad
    W = W
    NoPong = NoPong
    Nobody = Nobody
    Client = {Good, Bad}
    Responsive = {Good}
    Miner = {W}
    Pubkey <- MCPubkey
    MaxFailures = 2
    PingPeriod = 1
    PongPeriod = 1
    PongTimeout = 1
CONSTRAINT Followed
INVARIANTS
    TypeOK
    RewardRowsUnique
    AdmittedHasReward
PROPERTIES
    ResponsiveKept
    DeadRemoved
    EveryoneServed
