SPECIFICATION FairSpec
CONSTANTS
    m1 = m1
    m2 = m2
    u1 = u1
    Ulds = {u1}
    Allowable <- AllowableMinutes
    MaxGapMinutes = 30
    WarningPercent = 80
    TiesUp = {}
    Readings = {m1, m2}
    Body <- SentReadings
    Temperature <- Temperatures
    Deployments <- AllDeployments
    DriftMinutes = 2
    DriftCelsius = 0
    BatchSize = 2
    MaxAttempts = 3
    MaxRequests = 1
    MaxFailures = 1
    RedisMayBeLost = TRUE
CHECK_DEADLOCK FALSE
INVARIANTS
    VerificationConverges
    RemoteAgrees
    UndatedBreachWasRestored
PROPERTIES
    RepairKeepsMinutes
    BacklogClears
