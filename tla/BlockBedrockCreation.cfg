SPECIFICATION Spec
CONSTANTS
    Regolith = FALSE
    Accounts <- MCAccounts
    Contracts = {}
    Payees = {"bob", "coinbase"}
    Depositor = "depositor"
    Coinbase = "coinbase"
    BaseFeeRecipient = "basefee"
    L1FeeRecipient = "l1fee"
    Creation = "creation"
    NoL1 = NoL1
    L1Params <- MCL1Params
    Messages <- MCMessages
    NoMsg = NoMsg
    BaseFee = 2
    GasLimit = 14
    MaxRefund = 1
    Genesis <- MCGenesis
    ForcedLists <- MCForcedLists
    PoolStates <- MCPoolStates
    Locals = {"bob"}
    TxGas = 2
    NoEffect = NoEffect
    Unsealed = Unsealed
INVARIANT ContractAddressRecorded
