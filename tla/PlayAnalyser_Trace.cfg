SPECIFICATION Spec
CONSTANTS
  Deals <- MCDeals
  Trumps <- MCTrumps
  MaxCurrent = 3
  Numbers <- MCNumbers
CHECK_DEADLOCK FALSE
INVARIANT TypeOK
INVARIANT AccountAgrees
INVARIANT HintIsABound
INVARIANT TraceIsRight
