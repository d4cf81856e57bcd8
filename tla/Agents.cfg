CONSTANTS
    None = None
    host = host
    anna = anna
    ben = ben
    blue = blue
    red = red
    q1 = q1
    q2 = q2
    Player = {host, anna, ben}
    Host = host
    RequestId = {q1, q2}
    Role = {blue, red}
    Side <- MCSide
    DecisionId = {d1, d2}
    MaxWork = 2
    Period = 2
    Timeout = 3
    WorkEvery = 1
    Scale = {1, 2}
    Scenes <- MCScenes
SPECIFICATION Spec
INVARIANTS AnswersAreTimely RevisionTellsChanges NoBurstOfFrames
PROPERTIES Admission WorkEnds
CHECK_DEADLOCK FALSE
