\* Two users, two chats, one creating and one deleting worker, ids never reused.
SPECIFICATION Spec
CONSTANTS
    u1 = u1  u2 = u2  c1 = c1  c2 = c2  k1 = k1  d1 = d1
    None = None
    Users <- MCUsers
    Chats <- MCChats
    Creators <- MCCreators
    Deleters <- MCDeleters
    Legacy = {u1}
    ContextTurns = 1
    MaxThreads = 1
    MaxCreated = 4
    RowidReuse = FALSE
SYMMETRY ChatSymmetry
INVARIANTS
    TypeOK
    RecordsStayInConversation
    ContextIsolated
    ReplyTellsWhatIsStored
    OneDefaultPerUser
    DefaultAdoptsLegacy
    TitleFromOwnConversation
    CapExceededByOverlapOnly
PROPERTIES
    DefaultTitleFixed
    FollowUpKeepsTitle
    PromptHoldsWhatWasStored
CHECK_DEADLOCK FALSE
