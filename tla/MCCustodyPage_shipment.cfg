SPECIFICATION PageSpec
CONSTANTS
    NoShipment = NoShipment
    c1 = c1
    c2 = c2
    Shipments = {c1, c2}
    First = c1
    Parts = {"custody", "video"}
    MaxEvents = 1
    MaxLoads = 2
    MaxBoots = 1
INVARIANTS
    ShownIsCurrent
PROPERTIES
    BusyEnds
