SPECIFICATION Spec
CONSTANTS
    Nibbles = 2
    Calls <- AllCalls
INVARIANT TellsNamesApart
CHECK_DEADLOCK FALSE
