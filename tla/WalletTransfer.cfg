SPECIFICATION Spec
CONSTANTS
    Chains = {"gnosis", "pixel"}
    PixelChains = {"pixel"}
    Keys = {"a", "b"}
    EntryPoints = {"ep"}
    Deployed = "ep"
    NoInit = NoInit
    Absent = Absent
    Values = {2}
    Nonces = {0, 1, 2}
    Ops = {}
    Fee = 1
    Endowment = 5
    AppEntryPoint <- MCEntryPoints
    NoKey = NoKey
    Empty = Empty
    OutsideKeys = {"a"}
    MaxTaps = 2
INVARIANTS
    SignsForOpenedWallet
    TapPaysAtMostOnce
PROPERTIES
    FirstTransferDeploys
CHECK_DEADLOCK FALSE
