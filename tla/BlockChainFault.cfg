SPECIFICATION Spec
CONSTANTS
  Null = Null
  Genesis = "G"
  Block <- MCFaulty
  Tx <- MCTx
  hashPrevBlock <- MCParent
  vtx <- MCVtx
  GetBlockWork <- MCWork
  vin <- MCVin
  vout <- MCVout
  BadBlock = {}
  BadContext = {}
  BadTx = {}
  BadSignature = {}
  NonStandard = {}
  NonRelayable = {}
  COINBASE_MATURITY = 2
  InitialSubsidy = 4
  HalvingInterval = 3
  TotalBlocksEstimate = 0
  LooseTx = {"p"}
  Checkpoint = {}
  BelowMinWork = {}
  FaultKind = {"file", "index", "begin", "read", "write", "commit"}
  MaxFaults = 2
  MaxCrashes = 2
INVARIANTS
  OrphanMapsAgree
PROPERTIES
  BestWorkGrows
