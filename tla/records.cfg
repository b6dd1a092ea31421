\* Logs that keep two rows, pages of at most two rows, two requests beside the first page.
SPECIFICATION RecordsSpec
CONSTANTS
    None = None
    Threads = {"t", "u"}
    Mine = {"t"}
    Keep = 2
    MaxPage = 2
    PageSize = 1
    OldChats <- MCOldChats
    MaxReqs = 6
    MaxActive = 2
    MaxPages = 2
    Asked <- MCAsked
    Saved <- MCSaved
    MaxIncidents = 4
INVARIANTS
    RecordsTypeOK
    NewestKept
    PagingExact
    RecordedAsAnswered
CHECK_DEADLOCK FALSE
