SPECIFICATION FairSpec
CONSTANTS
    A = A
    B = B
    Lines = {A, B}
    MaxEdition = 3
    MaxStamp = 0
    Carries <- ThreeEditions
    None = None
    Checks = {tick}
    Users = {}
    Flows = {flow}
    Prunes = {}
    NoOne = NoOne
    Mode = "notify"
    Validates = FALSE
    Whole = FALSE
    Recorded = TRUE
    FirstLines = {A}
    FirstReaders = {A}
    Happens = {"crash", "sensors"}
    MaxFaults = 1
PROPERTIES
    NewsIsOffered
