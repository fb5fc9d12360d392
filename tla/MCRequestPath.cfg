SPECIFICATION AllSpec
CONSTANTS
    x = x
    y = y
    z = z
    c1 = c1
    c2 = c2
    c3 = c3
    c4 = c4
    Combos = {x, y, z}
    Convs = {c1, c2, c3, c4}
    Size <- Three
    Strategy <- Kinds
    StickyLimit <- Twos
    Capable <- Seers
    ComboOf <- Users
    MaxTurns = 2
    None = None
    BaseMs = 2000
    MaxMs = 300000
    MaxLevel = 15
    CooldownLong = 120000
    CooldownShort = 5000
    TransientMs = 30000
    Statuses <- Codes
    Texts <- Errors
    Calls = {"k1", "k2"}
    Fabricated = {"f1", "f2"}
    GeminiCalls = 1
    ToolIndices = {0, 1}
    MaxPieces = 2
    ToolSets <- Declared
    Native <- NativeOnes
    Signatures = {"s"}
    MaxToolTurns = 2
    MaxToolCalls = 2
    Default = "default"
    Entries <- Named
    AliasTables <- Tables
    ComboTables <- Groups
    Nodes = {"node"}
    Common <- CommonOnes
    Layouts <- EventLengths
    Header = 2
    MaxRead = 9
    MaxFrames = 3
    ClaudeSide = {"claude"}
CHECK_DEADLOCK FALSE
INVARIANTS AllTypesOK    HistoryIsKept
    EventsArrive  CoversReachable FormatsMeet 
   
