SPECIFICATION QueriesSpec
CONSTANTS
  Null = Null
  Genesis = "G"
  Block <- MCQBlock
  Tx <- MCQTx
  hashPrevBlock <- MCQParent
  vtx <- MCQVtx
  GetBlockWork <- MCQWork
  vin <- MCQVin
  vout <- MCQVout
  BadBlock = {}
  BadContext = {}
  BadTx = {}
  BadSignature = {}
  NonStandard = {}
  NonRelayable = {}
  COINBASE_MATURITY = 1
  InitialSubsidy = 4
  HalvingInterval = 3
  TotalBlocksEstimate = 0
  ChainWork <- MCQChainWork
  LocatorDense = 1
  HeaderLimit = 2
  WalletTx = "u"
  MaxInterrupted = 2
INVARIANTS
  QueriesTypeOK
  
  SearchByHeightIsRight
  LocatorFindsTrunk
  DistanceBackIsTrue
  HeadersLinkUp
  WalletDepthIsTrue
  ConfirmedTxLooksConfirmed
