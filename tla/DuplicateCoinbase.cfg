SPECIFICATION Spec
CONSTANTS
  Null = Null
  Genesis = "G"
  Block <- MCDuplicate
  Tx <- MCTx
  hashPrevBlock <- MCParent
  vtx <- MCVtx
  GetBlockWork <- MCWork
  vin <- MCVin
  vout <- MCVout
  BadBlock = {}
  BadContext = {}
  BadTx = {}
  BadSignature = {}
  NonStandard = {}
  NonRelayable = {}
  COINBASE_MATURITY = 1
  InitialSubsidy = 4
  HalvingInterval = 10
  TotalBlocksEstimate = 0
  LooseTx = {}
  Checkpoint = {}
  BelowMinWork = {}
  FaultKind = {}
  MaxFaults = 0
  MaxCrashes = 0
INVARIANTS
  DisconnectRestores
