SPECIFICATION Spec
CONSTANTS
    Connections = {c1, c2}
    Daemons = {d1}
    Streams = {}
    Ids = {1, 2}
    MaxFragments = 2
    FragmentBytes = 1
    Capacity = 1
    MaxRequests = 3
    MaxProbes = 0
SYMMETRY Symmetry
CHECK_DEADLOCK FALSE
INVARIANTS
    TypeOK
    TypedAtMostOnce
    AnswersTruthful
