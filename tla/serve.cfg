SPECIFICATION FairSpec
CONSTANTS
    c1 = c1
    p1 = p1
    p2 = p2
    Clients = {c1}
    Panes = {p1, p2}
    Writers = {p1}
    Kinds = {"draw"}
    Cap = 1
    Budget = 1
    Screens = 2
    MaxControl = 1
    MaxWire = 1
INVARIANTS
    ShownRight
    ForgottenIsTold
PROPERTIES
    ReasonIsTrue
    ControlIsServed
    EndIsHeard
CHECK_DEADLOCK FALSE
