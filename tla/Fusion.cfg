CONSTANTS
    scout = scout
    gun = gun
    x = x
    Platform = {scout, gun}
    Target = {x}
    Fixes <- MCFixes
    Hears <- MCHears
    Links <- MCLinks
    Route <- MCRoute
    Expiry = 2
    BearingExpiry = 1
    Together = 1
    Interval = 1
    Relay = 2
    Pace = 1
    Kept = 3
    Sent = 2
    MaxTick = 4
    MaxSightings = 3
SPECIFICATION FusionSpec
INVARIANTS FreshnessIsEarned
PROPERTIES OlderNeverReplacesNewer OwnSightingsAreNoNews
CHECK_DEADLOCK FALSE
