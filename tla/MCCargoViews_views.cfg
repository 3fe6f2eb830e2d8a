SPECIFICATION SpecWithViews
CONSTANTS
    r1 = r1
    r2 = r2
    r3 = r3
    awb1 = awb1
    awb2 = awb2
    sealA = sealA
    Cargo = {awb1, awb2}
    Requests = {r1, r2, r3}
    Seals = {sealA}
    Body <- ViewBody
    Retention = 3
    MaxInFlight = 1
    MaxCrashes = 1
    RedisMayBeLost = TRUE
    LedgerMayBeLost = FALSE
    flightOf <- MCflightOf
    locationOf <- MClocationOf
    teamOf <- MCteamOf
    handlerOf <- MChandlerOf
    LiveShipments = 1
    RecentEvents = 1
    MaxViews = 2
INVARIANTS
    AnsweredEventIsShown
    AlertedCargoIsListed
    TimelineCatchesUp
    OfferedReplayOpens
