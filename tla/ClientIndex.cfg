\* Requests and visits are bounded, and the daemon idles after them.
SPECIFICATION Spec

CONSTANTS
    p1 = p1
    p2 = p2
    ip1 = ip1
    ip2 = ip2
    Accounts = 2
    Ips = {ip1, ip2}
    Operators = {e1}
    Portals = {p1, p2}
    Sweeper = sweeper
    Edits = {"provision", "toggle", "renew", "ip", "remove", "update", "domain", "secret", "delete"}
    Starts <- SharedOrAlone
    NoRec = NoRec
    NoId = NoId
    NoIp = NoIp
    Term = 1
    MaxTime = 2
    MaxRequests = 1
    MaxVisits = 2

INVARIANTS
    IndexAgrees
    ActiveServed
    QuietAgrees

PROPERTIES
    SweepExact

SYMMETRY PortalsAlike

CHECK_DEADLOCK FALSE
