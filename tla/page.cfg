\* One thread at the start, two questions that may have the same text.
SPECIFICATION PageSpec
CONSTANTS
    x = x  y = y
    None = None
    Texts = {x, y}
    Known = 1
    MaxThreads = 2
    MaxAsks = 2
    MaxTasks = 4
SYMMETRY TextSymmetry
INVARIANTS
    PageTypeOK
    ForeignOnlyAfterSwitch
    ShownTwiceByOverlapOnly
    OneQuestionAtATime
CHECK_DEADLOCK FALSE
