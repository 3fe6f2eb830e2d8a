SPECIFICATION FairSpec
CONSTANTS
    m1 = m1
    m2 = m2
    m3 = m3
    u1 = u1
    u2 = u2
    Ulds = {u1, u2}
    Allowable <- AllowableMinutes
    MaxGapMinutes = 30
    WarningPercent = 80
    TiesUp <- RoundedUp
    Readings = {m1, m2, m3}
    Body <- SentReadings
    MaxInFlight = 2
    MaxFailures = 1
    RedisMayBeLost = TRUE
INVARIANTS
    BreachIsAnnounced
    TimeIsCounted
    
PROPERTIES
    ExposureNeverFallsAlone
    EveryReadingEnds
