SPECIFICATION Spec
CONSTANTS
    x = x
    y = y
    z = z
    c1 = c1
    c2 = c2
    c3 = c3
    c4 = c4
    Combos = {x, y, z}
    Convs = {c1, c2, c3, c4}
    Size <- Three
    Strategy <- Kinds
    StickyLimit <- Twos
    Capable <- Seers
    ComboOf <- Users
    MaxTurns = 3
    None = None
PROPERTY TurnKeepsModel
