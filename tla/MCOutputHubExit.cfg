SPECIFICATION Spec
CONSTANTS
    Subscribers = {s1}
    HistoryLimit = 2
    MaxOffset = 4
    SubscriberLimit = 2
    MaxPayload = 1
    MaxPush = 2
    AnsiLens = {1}
CHECK_DEADLOCK FALSE
INVARIANT EndedAfterExit
