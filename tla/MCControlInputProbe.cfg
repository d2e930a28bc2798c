SPECIFICATION Spec
CONSTANTS
    Connections = {c1}
    Daemons = {d1}
    Streams = {s1}
    Ids = {1}
    MaxFragments = 1
    FragmentBytes = 2
    Capacity = 1
    MaxRequests = 1
    MaxProbes = 2
CHECK_DEADLOCK FALSE
INVARIANT ProbeNotForgotten
