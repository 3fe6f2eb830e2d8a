SPECIFICATION Spec
CONSTANTS
    m1 = m1
    m2 = m2
    u1 = u1
    Ulds = {u1}
    Allowable <- AllowableMinutes
    MaxGapMinutes = 30
    WarningPercent = 80
    TiesUp = {}
    Readings = {m1, m2}
    Body <- SentReadings
    Temperature <- Temperatures
    Deployments <- DemoDeployment
    DriftMinutes = 2
    DriftCelsius = 0
    BatchSize = 2
    MaxAttempts = 3
    MaxRequests = 1
    MaxFailures = 0
    RedisMayBeLost = TRUE
CHECK_DEADLOCK FALSE
INVARIANTS
    ResetClears
