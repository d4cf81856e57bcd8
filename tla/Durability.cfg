SPECIFICATION Spec
CONSTANTS
    Server = {s1, s2}
    Player = {anna}
    Game = {g1}
    Command = {c1}
    MaxFrame = 1
    MaxSequence = 5
    CheckpointEvery = 2
    Panics = FALSE
SYMMETRY Symmetry
INVARIANTS JournalReplays
PROPERTIES HistoryNeverForks Implements
CHECK_DEADLOCK FALSE
