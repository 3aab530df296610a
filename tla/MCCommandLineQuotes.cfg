SPECIFICATION Spec
CONSTANTS
    MaxArgs = 6
    Before = 4
    MaxLen = 6
CHECK_DEADLOCK FALSE
INVARIANT QuotedWordsArrive
