\* A 200 whose message is no object; the constants of ai_call.cfg.
SPECIFICATION AiSpec
CONSTANTS
    MaxRetries = 2
    Budget = 4
    Limit = 2
    Pause = 1
    MaxTime = 6
INVARIANT MalformedReplyIsAnError
CHECK_DEADLOCK FALSE
