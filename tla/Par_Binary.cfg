SPECIFICATION ParSpec
CONSTANT Tables <- MCTables
INVARIANT BinaryIsText
CHECK_DEADLOCK FALSE
