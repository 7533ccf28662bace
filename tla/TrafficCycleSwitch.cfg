SPECIFICATION Spec

CONSTANTS
    Ids = {a1}
    Editors = {e1}
    Cycles = {"daily", "weekly"}
    Period <- Periods
    MaxCatchUp = 2
    Limits = {2}
    Edits = {"cycle"}
    StartRec <- Daily
    NoCycle = ""
    NoAnchor = NoAnchor
    NoRec = NoRec
    NoId = NoId
    Nobody = Nobody
    MaxBytes = 0
    MaxTime = 3
    MaxRequests = 2
    MaxCrashes = 0

PROPERTIES
    NoEarlyRollover
