SPECIFICATION Spec
CONSTANTS
    Nibbles = 2
    Calls <- AllCalls
INVARIANT PrintsAsAsked
CHECK_DEADLOCK FALSE
