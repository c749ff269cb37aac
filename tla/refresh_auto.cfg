SPECIFICATION Spec
CONSTANTS
    A = A
    B = B
    Lines = {A, B}
    MaxEdition = 3
    MaxStamp = 3
    Carries <- ThreeEditions
    None = None
    Checks = {tick, catchup}
    Users = {service}
    Flows = {}
    Prunes = {}
    NoOne = NoOne
    Mode = "auto"
    Validates = TRUE
    Whole = FALSE
    Recorded = TRUE
    FirstLines = {A, B}
    FirstReaders = {B}
    Happens = {"crash", "tear"}
    MaxFaults = 1
INVARIANTS
    TypeOK
    WholeEdition
    NeverOverstated
    BehindIsSeen
PROPERTIES
    ServedLinesStay
