SPECIFICATION FairSpec
CONSTANTS
    A = A
    B = B
    Lines = {A, B}
    MaxEdition = 3
    MaxStamp = 3
    Carries <- ThreeEditions
    None = None
    Checks = {tick}
    Users = {service}
    Flows = {}
    Prunes = {prune}
    NoOne = NoOne
    Mode = "auto"
    Validates = TRUE
    Whole = FALSE
    Recorded = TRUE
    FirstLines = {A, B}
    FirstReaders = {B}
    Happens = {"crash"}
    MaxFaults = 2
INVARIANTS
    OneWriter
PROPERTIES
    KeepsItsPromise
    CatchesUp
