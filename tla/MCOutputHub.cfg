SPECIFICATION FairSpec
CONSTANTS
    Subscribers = {s1}
    HistoryLimit = 3
    MaxOffset = 7
    SubscriberLimit = 3
    MaxPayload = 2
    MaxPush = 4
    AnsiLens = {1, 3}
CHECK_DEADLOCK FALSE
INVARIANTS
    TypeOK
    NoSilentLoss
PROPERTIES
    ImplementsStream
    ConsumersEnd
