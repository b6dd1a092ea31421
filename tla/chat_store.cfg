\* The refinement and the progress of chats: no symmetry, one user.
SPECIFICATION FairSpec
CONSTANTS
    u1 = u1  u2 = u2  c1 = c1  c2 = c2  k1 = k1  d1 = d1
    None = None
    Users = {u1}
    Chats <- MCChats
    Creators <- MCCreators
    Deleters <- MCDeleters
    Legacy = {u1}
    ContextTurns = 1
    MaxThreads = 1
    MaxCreated = 3
    RowidReuse = FALSE
INVARIANT ConversationInv
PROPERTIES
    ImplementsStore
    EveryChatEnds
CHECK_DEADLOCK FALSE
