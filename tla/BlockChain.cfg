SPECIFICATION FairSpec
CONSTANTS
  Null = Null
  Genesis = "G"
  Block <- MCRules
  Tx <- MCTx
  hashPrevBlock <- MCParent
  vtx <- MCVtx
  GetBlockWork <- MCWork
  vin <- MCVin
  vout <- MCVout
  BadBlock = {}
  BadContext = {}
  BadTx = {}
  BadSignature = {"v"}
  NonStandard = {}
  NonRelayable = {}
  COINBASE_MATURITY = 2
  InitialSubsidy = 4
  HalvingInterval = 3
  TotalBlocksEstimate = 0
  LooseTx = {"p", "q", "r"}
  Checkpoint = {"A1"}
  BelowMinWork = {"V4"}
  FaultKind = {}
  MaxFaults = 0
  MaxCrashes = 0
INVARIANTS
  TypeOK
  LedgerMatchesChain
  NoInflation
  LinksFollowBest
  StuckOrphansAreInvalid
  DisconnectRestores
PROPERTIES
  ImplementsChainSelection
  EventuallyHeaviest
