SPECIFICATION FairSpec
CONSTANTS
  a = a
  b = b
  None = None
  Accounts = {a, b}
  Txs <- MCTxs
  Own = {a}
  Mined <- MCMined
  GlobalSlots = 2
  GlobalQueue = 1
  AccountSlots = 1
  AccountQueue = 1
  ReinjectDepth = 2
  MaxTurns = 1
INVARIANTS PoolInternals
PROPERTIES PendingInLine  Promoted
