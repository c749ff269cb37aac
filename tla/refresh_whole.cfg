SPECIFICATION FairSpec
CONSTANTS
    A = A
    B = B
    Lines = {A, B}
    MaxEdition = 3
    MaxStamp = 4
    Carries <- EmptyBetween
    None = None
    Checks = {tick}
    Users = {}
    Flows = {}
    Prunes = {}
    NoOne = NoOne
    Mode = "auto"
    Validates = TRUE
    Whole = TRUE
    Recorded = TRUE
    FirstLines = {A}
    FirstReaders = {A}
    Happens = {"restamp"}
    MaxFaults = 0
PROPERTIES
    RebuildOnlyForNews
