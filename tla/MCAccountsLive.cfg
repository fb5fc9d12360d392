SPECIFICATION FairSpec
CONSTANTS
    BaseMs = 1000
    MaxMs = 2000
    MaxLevel = 2
    CooldownLong = 2000
    CooldownShort = 1000
    TransientMs = 1000
    a = a
    b = b
    c = c
    m1 = m1
    m2 = m2
    m3 = m3
    r1 = r1
    r2 = r2
    Conns = {b, c}
    Models = {m1, m2}
    RefreshAhead = 1
    Reqs = {r1, r2}
    Accounts <- Shared
    Priority <- MCPriority
    Keyless = {b}
    OAuth = {c}
    NoAuth = {}
    Failures <- MCQuotaFailures
    TokenLife = 0
    MaxTime = 0
    MaxTokens = 1
    Default = Default
    None = None
    NoLock = NoLock
    NoError = NoError
PROPERTY Returns
