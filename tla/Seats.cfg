CONSTANTS
    None = None
    host = host
    guest = guest
    blue = blue
    red = red
    monitor = monitor
    hostWhite = hostWhite
    guestWhite = guestWhite
    Player = {host, guest}
    Host = host
    Role = {blue}
    Observer = {monitor}
    Referee <- MCReferee
    Active = 1
    Reserved = 1
    MaxGeneration = 2
    MaxVersion = 2
    Scenes <- MCScenes
SPECIFICATION Spec
INVARIANTS OwnersAreEntitled 
PROPERTIES NobodyTakesAReservedSeat DeadTokensStayDead SeatsComeFree
CHECK_DEADLOCK FALSE
