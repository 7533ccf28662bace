\* Requests and issuances are bounded, and the daemon idles after them.
SPECIFICATION Spec

CONSTANTS
    p1 = p1
    p2 = p2
    n1 = n1
    Ports = {p1, p2}
    PanelPort = panelPort
    Names = {n1}
    Panel = panel
    Handlers = {h1, h2}
    Issuer = issuer
    Starts <- AnyStart
    Ageing = {n1, panel}
    NoSrv = NoSrv
    NoRec = NoRec
    Nobody = Nobody
    NoName = NoName
    NoPort = NoPort
    StoreFails = TRUE
    MaxRequests = 2
    MaxIssues = 1
    MaxForeign = 1

SYMMETRY HandlersAlike

INVARIANTS
    TypeOK
    SocketsAccounted
    RecordServed

PROPERTIES
    KeepsListening

CHECK_DEADLOCK FALSE
