SPECIFICATION SeedingSpec
CONSTANTS
    c1 = c1
    c2 = c2
    start = start
    r1 = r1
    w1 = w1
    Cargo = {c1, c2}
    SeedEvents <- SeedsOfTwo
    Starter = start
    Readers = {r1}
    Writers = {w1}
    cargoOf <- OnTheFirst
    SeedDemo = TRUE
    MaxCrashes = 1
INVARIANTS
    SeedsComeOnceAndFirst
    ReaderSeesSeeds
CHECK_DEADLOCK FALSE
