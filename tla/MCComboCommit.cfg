SPECIFICATION Spec
CONSTANTS
    BaseMs = 1000
    MaxMs = 2000
    MaxLevel = 1
    CooldownLong = 2000
    CooldownShort = 1000
    TransientMs = 2000
    a = a
    b = b
    m1 = m1
    m2 = m2
    r1 = r1
    r2 = r2
    Conns = {a, b}
    Models = {m1, m2}
    RefreshAhead = 0
    NoLock = NoLock
    Reqs = {r1}
    Impatient = {r1}
    Reused = {r1}
    Entries <- ListEntries
    Priority <- MCPriority
    Failures <- MCFailures
    MaxAttempts = 2
    RetryWaitCap = 2
    MaxTime = 1
    None = None
    NoConn = NoConn
PROPERTY NoRetryAfterCommit
