SPECIFICATION FairSpec
CONSTANTS
    Transactions = {t1, t2}
    None = None
CHECK_DEADLOCK FALSE
INVARIANTS
    TypeOK
    TerminalTruthful
    StopAttributed
    AnswersDurable
PROPERTIES
    OutcomeFinal
    WorkerEnds
    StopAnswered
