SPECIFICATION Spec
CONSTANTS
  Boards <- MCBoards
  Orders <- MCOrders
INVARIANTS
  TypeOK
  PositionKept
  SearchIsRight
PROPERTY EntriesHold
PROPERTY EstimatesHold
