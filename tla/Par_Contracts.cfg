SPECIFICATION ParSpec
CONSTANT Tables <- MCTables
INVARIANT TypeOK
INVARIANT SidesParIsPar
INVARIANT DealerParIsPar
PROPERTY SidesParReturns
CHECK_DEADLOCK FALSE
