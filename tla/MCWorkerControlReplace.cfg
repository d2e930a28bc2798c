SPECIFICATION Spec
CONSTANTS
    Peers = {p1}
    Controls = {c1, c2}
    Datas = {d1}
    Tokens = {t1}
    VaultSize = 1
    TokenTtl = 1
    MaxTime = 1
CHECK_DEADLOCK FALSE
INVARIANT ReplacementNotRevoked
