SPECIFICATION Spec
CONSTANTS
    c1 = c1
    Clients = {c1}
    NoClient = NoClient
    MaxWid = 3
    Cells = {0, 1}
    Sizes = {1, 2}
    Masks <- KeyMasks
    Buttons = {}
    Scroll = {}
    PropsWids = {}
    InputWids = {}
PROPERTIES
    OnlyReparentHides
    FixedFocusStays
