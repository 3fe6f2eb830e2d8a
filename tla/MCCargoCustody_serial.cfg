SPECIFICATION FairSpec
CONSTANTS
    r1 = r1
    r2 = r2
    r3 = r3
    awb1 = awb1
    awb2 = awb2
    sealA = sealA
    sealB = sealB
    Cargo = {awb1}
    Requests = {r1, r2, r3}
    Seals = {sealA, sealB}
    Body <- SerialBody
    Retention = 2
    MaxInFlight = 1
    MaxCrashes = 1
    RedisMayBeLost = FALSE
    LedgerMayBeLost = TRUE
INVARIANTS
    CriticalStopsLoad
PROPERTIES
    ImplementsChain
    EveryRequestEnds
