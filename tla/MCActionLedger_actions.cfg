SPECIFICATION Spec
CONSTANTS
    r1 = r1
    r2 = r2
    r3 = r3
    target = target
    Targets = {target}
    ActionNames <- ResponseActions
    WorkflowNames <- ResponseWorkflows
    Requests = {r1, r2, r3}
    Body <- AnyRequests
    Builds = {TRUE, FALSE}
    MaxInFlight = 3
    MaxFailures = 1
INVARIANTS
    DuplicatesNeedOverlap
    PackageIsOpen
    ProgressIsAudited
PROPERTIES
    ProgressIsKept
