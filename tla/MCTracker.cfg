SPECIFICATION FairSpec
CONSTANTS
    m1 = m1
    a = a
    r1 = r1
    r2 = r2
    s1 = s1
    b1 = b1
    b2 = b2
    Reqs = {r1, r2}
    Keys = {m1}
    Conns = {a}
    KeyOf <- OneKey
    ConnOf <- OneAccount
    Streams = {s1}
    Failing = {r2}
    Leavers = {s1}
    Callbacks = {b1, b2}
    ChanCap = 1
    RingCap = 1
    NoConn = NoConn
    None = None
CHECK_DEADLOCK FALSE
INVARIANTS CountsExact NoChangeForgotten
PROPERTY SettlesOrHasCause
