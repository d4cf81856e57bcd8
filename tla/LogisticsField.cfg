CONSTANTS
    Nil = Nil
    tanker = tanker
    fighter = fighter
    wingman = wingman
    lifter = lifter
    guest = guest
    tender = tender
    escort = escort
    base = base
    depot = depot
    carrier = carrier
    Fleet = {{tanker, fighter, wingman}, {lifter, guest}, {tender, escort}}
    Id <- MCId
    Air = {tanker, fighter, wingman, lifter, guest}
    Facility = {base, depot, carrier, tender}
    Carrier = {carrier}
    Good = {"fuel", "repairs"}
    Interface = {"Underway", "Boom"}
    Compatible <- MCCompatible
    Delivers <- MCDelivers
    Homes <- MCHomes
    Aboard <- MCAboard
    Full <- MCFull
    Fuel <- MCFuel
    Reserve <- MCReserve
    MinDeparture <- MCMinDeparture
    Hold <- MCHold
    Stations <- MCStations
    Intake <- MCIntake
    Capacity <- MCCapacity
    Opening <- MCOpening
    Parking <- MCParking
    MoveSlots <- MCSlots
    ServiceSlots <- MCSlots
    CargoSlots <- MCSlots
    MoveTicks = 1
    ConnectTicks = 1
    DisconnectTicks = 2
    Rate = 1
    SharedRate = 1
    Uncharted = {wingman, guest}
    Tasks <- MCTasks
    MaxOrders = 3
    Targets = {lifter, guest, depot, carrier, tender}
    MaxHits = 1
SPECIFICATION LogisticsSpec
INVARIANTS WithinLimits
PROPERTIES NothingFromNothing SeparationEnds
CHECK_DEADLOCK FALSE
