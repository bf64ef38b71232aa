SPECIFICATION ViewsSpec
CONSTANTS
    Windows = {c1, c2}
    Keys = {k1, k2}
    Spaces = {"work", "git"}
    Elsewhere = "booth"
    OwedCap = 1
    ViewsCap = 2
    Unknown = Unknown
    Absent = Absent
    MaxFails = 0
    MaxQuits = 0
PROPERTY NeitherErases
