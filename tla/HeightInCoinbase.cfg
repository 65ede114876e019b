SPECIFICATION MinerSpec
CONSTANTS
  Null = Null
  Genesis = "G"
  Block <- MCMined
  Tx <- MCTx
  hashPrevBlock <- MCParent
  vtx <- MCVtx
  GetBlockWork <- MCWork
  vin <- MCVin
  vout <- MCVout
  BadBlock = {}
  BadContext = {"H4"}
  BadTx = {}
  BadSignature = {}
  NonStandard = {}
  NonRelayable = {}
  COINBASE_MATURITY = 1
  InitialSubsidy = 4
  HalvingInterval = 3
  TotalBlocksEstimate = 0
  LooseTx = {"p", "q", "r", "z"}
  Checkpoint = {}
  BelowMinWork = {}
  FaultKind = {}
  MaxFaults = 0
  MaxCrashes = 1
  Miners = {"m"}
INVARIANTS
  HeightFirstInCoinbase
