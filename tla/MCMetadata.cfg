SPECIFICATION MetaSpec
CONSTANTS
    MaxArgs = 6
    Before = 4
    MaxLen = 5
    Piece = 16
INVARIANTS
    WordsArrive
    SaveAtomic
    RecordsSurvive
CHECK_DEADLOCK FALSE
