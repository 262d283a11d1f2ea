SPECIFICATION FairSpec
CONSTANTS
  ElasticityMultiplier = 2
  BaseFeeChangeDenominator = 2
  MaxPayloads = 3
  MaxHeight = 3
  MaxFees = 1
  MaxTrackedPayloads = 2
  GasLimits <- MCGasLimits
  ForcedGas <- MCForcedGas
  PoolGas <- MCPoolGas
  Genesis <- MCGenesis
  NoPayload = NoPayload
  NoBlock = NoBlock
INVARIANTS TypeOK PayloadKept
PROPERTIES RefinesContract BaseFeeMoves BuilderEnds
