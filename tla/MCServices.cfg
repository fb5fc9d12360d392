SPECIFICATION AllSpec
CONSTANTS
    Requests = {r1, r2}
    MaxTokens = 3
    None = None
    PanelSize = 3
    MinPanel = 1
    Grace = 1
    Hard = 3
    ChanCap = 3
    PanelTime = 4
    Conns = {"s1", "s2", "s3"}
    MaxLeaves = 2
    MaxEnables = 3
    MaxPids = 3
    ProbeTTL = 1
    Attempts = 1
    ProbeTime = 1
    PoolSize = 2
    Shapes <- Used
    LogTime = 1
    DayLen = 1
    ConnRows = {1, 2}
    Models = {"m1"}
    Dotted = {}
    OpenConns = 3
    MaxLocks = 2
    Streams = {"s1", "s2"}
    Timeout = 1
    Updaters = {"u1"}
    MaxStarts = 2
    Loggers = {"l1", "l2"}
    Viewers = {"v1"}
    BufLines = 2
    ChanSize = 1
    MaxLines = 3
    MaxClears = 1
CHECK_DEADLOCK FALSE
INVARIANTS AllTypesOK RejectedTokenIsGone EndsOnTime CAPairMatches RunningIsManaged SkipsAreFounded
    ProxiesTakeTurns DaysCountEverything  NoLineTwice
PROPERTIES  StopReturns ResetsComplete ShutdownIsPrompt
