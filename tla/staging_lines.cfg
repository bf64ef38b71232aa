SPECIFICATION StagingSpec
CONSTANTS
    Slots = 7
    Fixed <- MCFixed
    Spans <- MCSpans
    Text <- MCText
    Eol <- MCEol
    Committed <- MCCommitted
    MaxEdits = 1
INVARIANT PickIsUndone
