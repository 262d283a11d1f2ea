SPECIFICATION AccountSpec
CONSTANTS
    Chains = {"goerli", "pixel"}
    PixelChains = {"pixel"}
    Keys = {"a", "b"}
    EntryPoints = {"ep", "other"}
    Deployed = "ep"
    NoInit = NoInit
    Absent = Absent
    Values = {2, 3}
    Nonces = {0, 1}
    Ops <- MCOps
    Fee = 1
    Endowment = 6
INVARIANTS
    AccountTypeOK
    ExecutedOnce
    NoncesInOrder
    
PROPERTY AccountsStable
