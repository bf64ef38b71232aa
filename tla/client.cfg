SPECIFICATION MCSpec
CONSTANTS
    here = here
    there = there
    far = far
    box = box
    s1 = s1
    s2 = s2
    s3 = s3
    None = None
    Given <- MCGiven
    Targets = {far}
    Badge <- MCBadge
    Configured = {far}
    Sockets = {s1, s2, s3}
    MayBeDown = FALSE
    MaxBreaks = 2
    MaxMute = 1
    Slots = 7
    Fixed <- MCFixed
    Spans <- MCSpans
    Text <- MCText
    Eol <- MCEol
    Committed <- MCCommitted
    MaxEdits = 1
    k1 = k1
    k2 = k2
    Projects = {k1, k2}
    Nobody = Nobody
    MaxVerbs = 2
    MaxShifts = 1
    MaxReads = 2
    c1 = c1
    Windows = {c1}
    Keys = {k1, k2}
    Spaces = {"work", "git"}
    Elsewhere = "booth"
    OwedCap = 1
    ViewsCap = 2
    Unknown = Unknown
    Absent = Absent
    MaxFails = 1
    MaxQuits = 1
INVARIANTS
    BarIsRight
    FreshIsDone
    OnlyWhatIsNamed
    
    GitIsFresh
    NothingIsForgotten
PROPERTIES
    KeepsPlace
    LinksReturn
