SPECIFICATION Spec

CONSTANTS
    Ids = {a1}
    Editors = {e1, e2}
    Cycles = {"daily"}
    Period <- Periods
    MaxCatchUp = 2
    Limits = {2}
    Edits = {"reset", "limit", "delete"}
    StartRec <- Daily
    NoCycle = ""
    NoAnchor = NoAnchor
    NoRec = NoRec
    NoId = NoId
    Nobody = Nobody
    MaxBytes = 2
    MaxTime = 1
    MaxRequests = 2
    MaxCrashes = 1

SYMMETRY Symmetric

PROPERTIES
    BytesConserved
    PeriodStartsClean
