SPECIFICATION Spec
CONSTANTS
  h1 = h1
  h2 = h2
  h3 = h3
  h4 = h4
  c1 = c1
  c2 = c2
  t1 = t1
  t2 = t2
  Callers <- OneCaller
  Threads <- TwoThreads
  Hands <- FourHands
  Strains <- OneStrain
  Key <- MCKey
  Spare <- MCSpare
  BatchSizes <- UpToThree
CHECK_DEADLOCK FALSE
INVARIANT TypeOK
INVARIANT GroupsPartition
INVARIANT HandedOnce
PROPERTY RegisterRunReturns
