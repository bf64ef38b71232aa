SPECIFICATION MCSpec
CONSTANTS
    Tokens <- MCTokens
    MaxTokens = 3
    CarryMax = 4
    ApcMax = 4
    Ours <- MCOurs
    Keep = 3
    Rows = 3
    Band = 2
    MaxBack = 1
    N = 2
    v1 = v1
    v2 = v2
    Rails = {v1, v2}
    NoRail = NoRail
    MaxChanges = 1
    MaxDrops = 1
    MaxInbox = 1
    w1 = w1
    w2 = w2
    r1 = r1
    top = top
    sub = sub
    Ws = {w1, w2}
    Repos = {r1}
    Repo <- OneRepo
    Paths = {top, sub}
    Cwd <- AtTop
    Root <- AtTop
    MaxOps = 2
PROPERTY
    NothingHangs
CHECK_DEADLOCK FALSE
