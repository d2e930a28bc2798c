SPECIFICATION FairSpec
CONSTANTS
    Observers = {o1}
    HistoryLimit = 3
    MaxOffset = 6
    MaxBytes = 2
    MaxPush = 4
    MaxEpoch = 2
CHECK_DEADLOCK FALSE
INVARIANTS
    TypeOK
    PageTruthful
    NoOutputAfterRelease
PROPERTIES
    WaitersAreAnswered
