SPECIFICATION FairDownload
CONSTANTS
  Block = {"G", "a1", "a2", "a3", "a4", "b1"}
  Null = Null
  hashGenesisBlock = "G"
  hashPrevBlock <- MCParent
  LocatorDense = 1
  Node = {"n", "m"}
  StartTips <- MCStart
  nLimit = 2
  MaxWait = 2
  MaxDisconnects = 1
INVARIANTS
  DownloadTypeOK
PROPERTIES
  ImplementsSync
  DownloadCompletes
CHECK_DEADLOCK FALSE
