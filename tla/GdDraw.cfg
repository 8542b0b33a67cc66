SPECIFICATION Spec
CONSTANTS
    XVirtRes = 5
    YVirtRes = 4
    MinCoord <- NegativeOne
    MaxCoord = 7
    Regions <- SomeRegions
    CursorMasks <- SomeMasks
    CursorSize = 2
    Positions <- SomePositions
    Lines <- SomeLines
    Areas <- SomeAreas
    Blits <- SomeBlits
    MaxVisible = 1
INVARIANTS
    CacheSound
    ScreenIntact
    ReadsApp
    DrawsExactly
    BlitsUpOrLeft
PROPERTIES
    CursorComesBack
