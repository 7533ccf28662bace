SPECIFICATION FairSpec

CONSTANTS
    Ids = {a1}
    Editors = {e1}
    Cycles = {"daily"}
    Period <- Periods
    MaxCatchUp = 2
    Limits = {2}
    Edits = {"cycle"}
    StartRec <- Imported
    NoCycle = ""
    NoAnchor = NoAnchor
    NoRec = NoRec
    NoId = NoId
    Nobody = Nobody
    MaxBytes = 1
    MaxTime = 3
    MaxRequests = 1
    MaxCrashes = 0

PROPERTIES
    RolloverLands
    
