SPECIFICATION Spec
CONSTANTS
    BaseMs = 1000
    MaxMs = 2000
    MaxLevel = 2
    CooldownLong = 2000
    CooldownShort = 1000
    TransientMs = 1000
    a = a
    b = b
    c = c
    m1 = m1
    m2 = m2
    m3 = m3
    r1 = r1
    r2 = r2
    Conns = {a, b}
    Models = {m1, m2, m3}
    RefreshAhead = 1
    Reqs = {r1, r2}
    Accounts <- ThreeProviders
    Priority <- MCPriority
    Keyless = {}
    OAuth = {a}
    NoAuth = {m2}
    Failures <- MCFailures
    TokenLife = 1
    MaxTime = 1
    MaxTokens = 1
    Default = Default
    None = None
    NoLock = NoLock
    NoError = NoError
SYMMETRY Symmetry
INVARIANTS TypeOK PendingExact  LocksExpire 
