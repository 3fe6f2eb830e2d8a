SPECIFICATION Spec
CONSTANTS
    a1 = a1
    a2 = a2
    u1 = u1
    x1 = x1
    n1 = n1
    uld1 = uld1
    alert1 = alert1
    Actions = {a1, a2}
    Ulds = {u1}
    Alerts = {x1}
    Notices = {n1}
    SeedTasks = {}
    SeedUlds = {uld1}
    SeedAlerts = {alert1}
    Levels = {"LOW", "CRITICAL"}
    AlertLimit = 2
    ReconnectAttempts = 1
    MaxPolls = 1
    MaxFlushes = 2
    MaxChanges = 3
    MaxMarks = 1
SYMMETRY AnyAction
INVARIANTS
    StatusFollowsNetwork
    SyncedShowsServer
