SPECIFICATION MCSpec
CONSTANTS
    MaxPanes = 2
    MaxRail = 1
    Settle = 2
    MinTurn = 1
    CheckMax = 4
    History = 2
    Agents = {1, 2}
    Keep = 1
    Mine = 1
    Until = {"finished", "exited"}
INVARIANTS
    ExitIsLast
    AnswerIsNew
PROPERTIES
    EdgesAreAnnounced
    AskedIsShown
    FinishIsSettled
    ScreenIsFollowed
    TurnIsNotMissed
