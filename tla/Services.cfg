SPECIFICATION ServicesSpec
CONSTANTS
    Anchors = 7
    MaxRepairs = 3
    MaxRetries = 3
    Declared = {"txt", "docx", "legacy_doc", "unknown"}
    Magics = {"txt", "zip", "unknown"}
    MaxAttempts = 3
    ResearchModels = {"m", "n"}
CHECK_DEADLOCK FALSE
INVARIANTS
    ServicesTypeOK
    CallsBounded
    OutputOnlyForFaithful
    OnlyCheckedKept
PROPERTIES
    Terminates
    ImportEnds
    ResearchEnds
