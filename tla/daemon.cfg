SPECIFICATION MCSpec
CONSTANTS
    w1 = w1
    w2 = w2
    r1 = r1
    Ws = {w1, w2}
    Repos = {r1}
    Repo <- OneRepo
    MaxTree = 2
    MaxFaults = 1
    p1 = p1
    p2 = p2
    p3 = p3
    c1 = c1
    c2 = c2
    Procs = {p1, p2, p3}
    Clients = {c1, c2}
    None = None
    MaxStops = 1
INVARIANTS
    OneScan
    NothingDropped
    RailsFit
    PathIsServed
    QuietGetsIn
PROPERTIES
    
    AllShown
