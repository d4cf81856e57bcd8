CONSTANTS
    strike = strike
    launch = launch
    pilot = pilot
    chief = chief
    staff = staff
    Order = {strike}
    Role = {pilot, chief, staff}
    Claimable = {pilot, chief}
    Kind <- MCKind
    Issuer <- MCIssuer
    Chains <- MCLongChains
    Near <- MCStaffNear
    Radios = {TRUE}
    Failures = FALSE
    Edits = FALSE
    Mission = TRUE
    Delay = 1
    MaxAttempts = 2
    RetryTicks = 1
    Window = 1
SPECIFICATION Spec
INVARIANTS OnlyVouchedOrders ReceiptsAreHonest
PROPERTIES EveryLegEnds ReportingCloses
CHECK_DEADLOCK FALSE
