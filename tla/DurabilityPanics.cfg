SPECIFICATION Spec
CONSTANTS
    Server = {s1}
    Player = {anna, ben}
    Game = {g1}
    Command = {c1}
    MaxFrame = 2
    MaxSequence = 5
    CheckpointEvery = 3
    Panics = TRUE
SYMMETRY Symmetry
INVARIANTS AnswersAreDurable
CHECK_DEADLOCK FALSE
