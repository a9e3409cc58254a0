SPECIFICATION Spec
CONSTANTS
  Deals <- MCDeals
  Faulty = {"faulty"}
  Unreadable = {"unreadable"}
  Value <- MCValue
  DDS_STRAINS = 3
  MAXNOOFTABLES = 1
  MaxThreads = 2
  MaxTables = 4
  MaxThrows = 1
  Requests <- MCRequests
INVARIANT TypeOK
INVARIANT TablesAreRight
INVARIANT SolvesAreRight
PROPERTY OnlyAskedRowsChange
CHECK_DEADLOCK FALSE
