\* SQLite gives the id of a deleted last thread to the next one.
SPECIFICATION Spec
CONSTANTS
    u1 = u1  u2 = u2  c1 = c1  c2 = c2  k1 = k1  d1 = d1
    None = None
    Users <- MCUsers
    Chats <- MCChats
    Creators <- MCCreators
    Deleters <- MCDeleters
    Legacy = {}
    ContextTurns = 1
    MaxThreads = 1
    MaxCreated = 4
    RowidReuse = TRUE
SYMMETRY ChatSymmetry
INVARIANT RecordsStayInConversation
CHECK_DEADLOCK FALSE
