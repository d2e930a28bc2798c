SPECIFICATION FairSpec
CONSTANTS
    Peers = {p1, p2}
    Controls = {c1, c2}
    Datas = {d1, d2}
    Tokens = {t1}
    VaultSize = 1
    TokenTtl = 1
    MaxTime = 1
CHECK_DEADLOCK FALSE
INVARIANTS
    TypeOK
    LeaseNotLeaked
    TokensOneUse
    RevocationPending
PROPERTIES
    TokensNotBurned
    StreamsRevoked
    DeadControllerReleased
