SPECIFICATION Spec
CONSTANTS
    p1 = p1
    p2 = p2
    m1 = m1
    e1 = e1
    Posts = {p1, p2}
    Messages = {m1}
    Events = {e1}
    Freshness = 1
    WeatherTtl = 1
    ResetTimeout = 1
    TokenLife = 2
    Skew = 1
    Timestamps = {1, 2}
    MaxTime = 4
    MaxFailures = 2
SYMMETRY AnyPost
INVARIANTS
    
    RefusedRetryWasTaken
    ExpiredTokenNeedsLag
CHECK_DEADLOCK FALSE
