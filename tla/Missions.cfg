CONSTANTS
    None = None
    jfc = jfc
    tower = tower
    pilot = pilot
    hq = hq
    field = field
    jet = jet
    sweep = sweep
    escort = escort
    raid = raid
    opening = opening
    second = second
    handover = handover
    Role = {jfc, tower, pilot}
    Commander = jfc
    Recipients <- MCRecipients
    Planner = {jfc, tower}
    Controller = {jfc, tower}
    Unit = {hq, field, jet}
    At <- MCAt
    Operator <- MCOperator
    Chain <- MCChain
    Mission = {sweep, escort, raid}
    Course = {opening, second}
    Template = opening
    Tasks <- MCTasks
    Handoff = {handover}
    Transfer <- MCTransfer
    Sustained = {field}
    Load <- MCLoad
    LostAfter = 1
    Interval = 2
    Horizon = 5
    MaxRevision = 2
    MaxLosses = 1
    Scenes <- MCScenes
SPECIFICATION Spec
INVARIANTS WeaponsAreAccountedFor DependenciesComeFirst HandedOverAtTheAircraft
PROPERTIES MissionsEnd
CHECK_DEADLOCK FALSE
