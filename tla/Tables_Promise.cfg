SPECIFICATION Spec
CONSTANTS
  Hands <- MCHands
  TtTricks = 3
  HashKeys = 1
  HashOf <- MCHash
  PageIds = {1, 2, 3}
  BlocksPerPage = 1
  DistsPerEntry = 2
  BlocksPerEntry = 2
  FirstHarvestTrick = 2
  HarvestAge = 0
  WInit = 6
  WSize = 4
  NInit = 2
  NSize = 1
  LSize = 1
  TempSize = 5
  SimilarMaxWinNodes = 20
  InitMem = 10
  WinMem = 2
  NodeMem = 1
  LenMem = 1
  Deals <- MCDeals
  Value <- MCValue
  Limits <- MCLimits
  Kinds = {"large", "small"}
  LargeLimits <- MCLarge
  SmallLimits <- MCSmall
  Resizes <- MCResizes
  Allocations <- MCAllocations
  MaxHits = 2
INVARIANTS TypeOK AddIsFound MemoryAccounted
PROPERTY KeepsItsPromise
