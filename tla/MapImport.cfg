SPECIFICATION ImportSpec
CONSTANT Tables <- MCTables
CHECK_DEADLOCK FALSE
INVARIANTS RoadsAreSound DescriptorsAreIds
