SPECIFICATION Spec
CONSTANTS
  m1 = m1
  m2 = m2
  m3 = m3
  Null = Null
  Moves <- ThreeMoves
  Values <- MCValues
  Targets <- MCTargets
  Hints <- MCHints
CHECK_DEADLOCK FALSE
INVARIANT TypeOK
INVARIANT WindowBrackets
INVARIANT RepeatScoreIsRight
INVARIANT AnswersAreRight
PROPERTY Terminates
