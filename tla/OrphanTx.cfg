SPECIFICATION OrphanTxSpec
CONSTANTS
  Null = Null
  Genesis = "G"
  Block <- MCOrphanTx
  Tx <- MCTxs
  hashPrevBlock <- MCParent
  vtx <- MCVtx
  GetBlockWork <- MCWork
  vin <- MCVin
  vout <- MCVout
  BadBlock = {}
  BadContext = {}
  BadTx = {}
  BadSignature = {"v"}
  NonStandard = {}
  NonRelayable = {}
  COINBASE_MATURITY = 1
  InitialSubsidy = 4
  HalvingInterval = 3
  TotalBlocksEstimate = 0
  LooseTx <- MCLooseTx
  Checkpoint = {}
  BelowMinWork = {}
  FaultKind = {}
  MaxFaults = 0
  MaxCrashes = 2
  BigTx = {"u"}
  FreeTx = {"w"}
  MAX_ORPHAN_TRANSACTIONS = 2
INVARIANTS
  OrphanTxMapsAgree
  OrphanTxsBounded
  NoneLeftBehind
  PoolNotMined
  NextTxIsInverse
  LedgerMatchesChain
  LinksFollowBest
  RestartPossible
PROPERTIES
  WaitingOrphansKept
