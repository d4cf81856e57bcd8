CONSTANTS
    strike = strike
    launch = launch
    pilot = pilot
    chief = chief
    staff = staff
    Order = {strike, launch}
    Role = {pilot, chief}
    Claimable = {pilot, chief}
    Kind <- MCKind
    Issuer <- MCIssuer
    Chains <- MCChains
    Near <- MCNear
    Radios = {TRUE, FALSE}
    Failures = TRUE
    Edits = TRUE
    Mission = TRUE
    Delay = 1
    MaxAttempts = 1
    RetryTicks = 1
    Window = 0
SPECIFICATION Spec
PROPERTIES DecisionsStand NothingAfterTheEnd
CHECK_DEADLOCK FALSE
