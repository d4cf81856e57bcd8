CONSTANTS
    long = long
    short = short
    brief = brief
    self = self
    Msg = {long, short, brief, self}
    Frags <- MCFrags
    Local = {self}
    Tracked = {long}
    HopLimit <- MCHopLimit
    MaxHops <- MCMaxHops
    RetryTicks = 2
    MaxAttempts = 2
    Horizon = 4
    Together <- MCTogether
SPECIFICATION Spec
INVARIANTS Lifecycle AckIsHonest
PROPERTIES KeepsContract
CHECK_DEADLOCK FALSE
