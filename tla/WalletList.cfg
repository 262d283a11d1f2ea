SPECIFICATION ListSpec
CONSTANTS
    Names = {"w1", "w2", "w3"}
    Stored <- MCStored
    ChainIds = {"goerli", "pixel", "gnosis"}
    FirstChain = "goerli"
    NoBalance = NoBalance
    MaxLoads = 3
    MaxStarts = 2
INVARIANTS
    WalletsKept
    ShownIsStored
    BalanceOfChain
PROPERTY ListAppears
CHECK_DEADLOCK FALSE
