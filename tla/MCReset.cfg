SPECIFICATION Spec
CONSTANTS
    r1 = r1
    gpt5 = gpt5
    gpt41 = gpt41
    Resets = {r1}
    Rows <- TwoRows
    Models = {gpt5, gpt41}
    Dotted = {gpt41}
    Pool = 3
    MaxLocks = 1
    None = None
CHECK_DEADLOCK FALSE
INVARIANT ResetClears
