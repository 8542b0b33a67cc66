SPECIFICATION ClipSpec
CONSTANTS
    c1 = c1
    Clients = {c1}
    NoClient = NoClient
    MaxWid = 3
    Cells = {0, 1}
    Sizes = {1, 2}
    Masks = {}
    Buttons = {}
    Scroll = {}
    PropsWids = {}
    InputWids = {2}
    PaintWids = {3}
    PaintChoices <- Choices
INVARIANTS
    DrawnWhereHit
    ClipLive
    StaleOnlyWhereSkipped
