SPECIFICATION FairSpec
CONSTANTS
  Calls <- MCCalls
CHECK_DEADLOCK FALSE
INVARIANTS
  StringsStayInside
  Compares
  Copies
  Converts
  Prints
  Finds
PROPERTIES
  Returns
