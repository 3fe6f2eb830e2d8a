SPECIFICATION FairSpec
CONSTANTS
    r1 = r1
    r2 = r2
    r3 = r3
    awb1 = awb1
    awb2 = awb2
    sealA = sealA
    sealB = sealB
    Cargo = {awb1, awb2}
    Requests = {r1, r2, r3}
    Seals = {sealA, sealB}
    Body <- ConcurrentBody
    Retention = 2
    MaxInFlight = 2
    MaxCrashes = 1
    RedisMayBeLost = TRUE
    LedgerMayBeLost = FALSE
INVARIANTS
    ForkNeedsOverlap
    LostUpdateNeedsOverlap
    LatestEventRules
    GapNeedsCrash
    StateIsLedgered
    StaleReloadNeedsOverlap
    AnsweredIncidentHandled
