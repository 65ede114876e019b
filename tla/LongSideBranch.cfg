SPECIFICATION FairDownload
CONSTANTS
  Block = {"G", "a1", "a2", "a3", "a4", "b1", "b2"}
  Null = Null
  hashGenesisBlock = "G"
  hashPrevBlock <- MCParent
  LocatorDense = 1
  Node = {"n", "m"}
  StartTips <- MCLongStart
  nLimit = 2
  MaxWait = 2
  MaxDisconnects = 0
PROPERTY DownloadCompletes
CHECK_DEADLOCK FALSE
