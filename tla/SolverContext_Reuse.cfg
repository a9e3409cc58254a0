SPECIFICATION Spec
CONSTANTS
  d1 = d1
  d2 = d2
  d3 = d3
  s1 = s1
  Null = Null
  Deals <- MCDeals
  Trumps <- MCTrumps
  ShortDeals <- MCShort
  Similar <- SimilarPairs
  Sizes <- MCSizes
  DefaultMB <- MCDefaultMB
  EnvDefault = 0
  EnvLimit = 50
INVARIANT TypeOK
INVARIANT AnswersTheDealAsked
INVARIANT NewDealHeals
