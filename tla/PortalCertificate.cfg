\* Requests and issuances are bounded, and the daemon idles after them.
SPECIFICATION Spec

CONSTANTS
    p1 = p1
    p2 = p2
    n1 = n1
    Ports = {p1, p2}
    PanelPort = panelPort
    Names = {n1}
    Panel = panel
    Handlers = {h1}
    Issuer = issuer
    Starts <- OwnStart
    Ageing = {n1}
    NoSrv = NoSrv
    NoRec = NoRec
    Nobody = Nobody
    NoName = NoName
    NoPort = NoPort
    StoreFails = FALSE
    MaxRequests = 0
    MaxIssues = 1
    MaxForeign = 0

INVARIANTS
    IssuedServed

CHECK_DEADLOCK FALSE
