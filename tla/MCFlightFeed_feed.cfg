SPECIFICATION FeedSpec
CONSTANTS
    NoSocket = NoSocket
    s1 = s1
    s2 = s2
    u1 = u1
    f1 = f1
    f2 = f2
    a1 = a1
    Sockets = {s1, s2}
    Ulds = {u1}
    Flights = {f1, f2}
    InitialFlights = {f1}
    AlertIds = {a1}
    maxReconnectAttempts = 2
    MaxStarts = 2
INVARIANTS
    LoopPerStart
    PageShowsService
PROPERTIES
    ConnectsOrPolls
CHECK_DEADLOCK FALSE
