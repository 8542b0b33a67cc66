SPECIFICATION TreeSpec
CONSTANTS
    c1 = c1
    c2 = c2
    Clients = {c1, c2}
    NoClient = NoClient
    MaxWid = 4
SYMMETRY ClientSymmetry
INVARIANTS
    StackingOrder
    Rooted
    RealizedIffViewable
    OwnersConnected
PROPERTIES
    OthersKeepOrder
