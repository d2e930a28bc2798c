SPECIFICATION FairSpec
CONSTANTS
    Faults = 2
    Crashes = 1
    Requests = 2
    None = None
INVARIANTS
    TypeOK
    StopAnswerHonoured
    AcknowledgedDurable
    MemoryFollowsStore
    JournalsLast
PROPERTIES
    IntentDecides
    OutcomeFinal
    RequestsAnswered
    EndedSettles
CHECK_DEADLOCK FALSE
