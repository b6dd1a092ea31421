\* A thread is deleted while the AI is answering in it.
SPECIFICATION Spec
CONSTANTS
    u1 = u1  u2 = u2  c1 = c1  c2 = c2  k1 = k1  d1 = d1
    None = None
    Users <- MCUsers
    Chats <- MCChats
    Creators <- MCCreators
    Deleters <- MCDeleters
    Legacy = {}
    ContextTurns = 1
    MaxThreads = 1
    MaxCreated = 4
    RowidReuse = FALSE
SYMMETRY ChatSymmetry
PROPERTY UnstoredAnswerIsDelivered
CHECK_DEADLOCK FALSE
