CONSTANTS
  Programs <- LabelBetweenLocals
  MaxCode = 100
  Parsed <- luaY_parser
  Lawful <- Legal
  Meant <- Meaning
  MaxIndexRK = 2
  FieldsPerFlush = 2
SPECIFICATION VMSpec
INVARIANT NoWrongOptimization
CHECK_DEADLOCK FALSE
