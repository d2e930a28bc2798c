SPECIFICATION FairSpec
CONSTANTS
    Connections = {c1}
    Daemons = {d1}
    Streams = {s1}
    Ids = {1}
    MaxFragments = 2
    FragmentBytes = 2
    Capacity = 1
    MaxRequests = 2
    MaxProbes = 1
CHECK_DEADLOCK FALSE
INVARIANTS
    FragmentsWhole
PROPERTY ControlAnswered
