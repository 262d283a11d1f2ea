SPECIFICATION Spec
CONSTANTS
    Chains = {"goerli", "pixel"}
    PixelChains = {"pixel"}
    Keys = {"a", "b"}
    EntryPoints = {"ep", "other"}
    Deployed = "ep"
    NoInit = NoInit
    Absent = Absent
    Values = {2}
    Nonces = {0, 1, 2}
    Ops = {}
    Fee = 1
    Endowment = 5
    AppEntryPoint <- MCChainData
    NoKey = NoKey
    Empty = Empty
    OutsideKeys = {"a"}
    MaxTaps = 1
PROPERTY FirstTransferDeploys
CHECK_DEADLOCK FALSE
