SPECIFICATION HeadersSpec
CONSTANTS
  nInterval = 3
  nTargetSpacing = 4
  bnProofOfWorkLimit = 200
  Compact <- MCCompact
  nMedianTimeSpan = 3
  nToCheck <- MCToCheck
  nReject <- MCReject
  nEnforce <- MCEnforce
  BlockTime <- MCTime
  MaxBlocks = 7
INVARIANTS
  HeadersTypeOK
  MedianTimeNeverFalls
  TargetMovesSlowly
  LeastWorkIsForgotten
  UpgradeIsFinal
  NoValidBlockIsTooEasy
CHECK_DEADLOCK FALSE
