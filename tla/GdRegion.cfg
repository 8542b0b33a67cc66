SPECIFICATION Spec
CONSTANTS
    Width = 3
    Height = 3
    AskedSize = 2
    MaxRects = 2
INVARIANTS
    AreaExact
    BandsKept
    AnswersExact
