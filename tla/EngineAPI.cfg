SPECIFICATION FairSpec
CONSTANTS
  G = G
  A1 = A1
  A2 = A2
  B1 = B1
  X2 = X2
  X3 = X3
  None = None
  Blocks <- MCBlocks
  Genesis = G
  parent <- MCparent
  number <- MCnumber
  line <- MCline
  Bad <- MCBad
  Untimely <- MCUntimely
  TriesInMemory = 1
  MaxTrackedHeaders = 1
  HitEviction = 3
  TipsetsCap = 2
  Heads <- MCHeads
  Finals <- MCFinals
  Target = A2
  MaxRestarts = 1
INVARIANTS TypeOK CanonicalChain  HeadHasState
  
