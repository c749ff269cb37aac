SPECIFICATION Spec
CONSTANTS
    A = A
    B = B
    Lines = {A, B}
    MaxEdition = 2
    MaxStamp = 2
    Carries <- BothCarryAll
    None = None
    Checks = {tick}
    Users = {service}
    Flows = {flow}
    Prunes = {}
    NoOne = NoOne
    Mode = "auto"
    Validates = TRUE
    Whole = FALSE
    Recorded = TRUE
    FirstLines = {A}
    FirstReaders = {A}
    Happens = {"lose"}
    MaxFaults = 2
PROPERTIES
    ImportSurvives
