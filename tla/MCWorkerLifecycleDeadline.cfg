SPECIFICATION Spec
CONSTANTS
    Transactions = {t1}
    None = None
INVARIANT JournalProvesEnded
CHECK_DEADLOCK FALSE
