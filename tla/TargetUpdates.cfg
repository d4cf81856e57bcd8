CONSTANTS
    None = None
    pilot = pilot
    relay = relay
    tank = tank
    boat = boat
    Unit = {pilot, relay}
    Launcher = pilot
    Provider = {pilot, relay}
    Initial = relay
    Contact = {tank, boat}
    Sees <- MCSees
    Weapon = Weapon
    Handoff = TRUE
    Retargets = TRUE
    Telemetry = TRUE
    Subscriptions <- MCSubscriptions
    Mortal = {relay}
    Orders <- MCOrders
    Lifetime = 2
    MaxAge = 2
    Horizon = 3
    MaxSent = 3
SPECIFICATION Spec
INVARIANTS OneProviderPerRevision NumbersGoOn EstimateFromItsSource
CHECK_DEADLOCK FALSE
