SPECIFICATION Spec
CONSTANTS
    c1 = c1
    Clients = {c1}
    NoClient = NoClient
    MaxWid = 3
    Cells = {0}
    Sizes = {1}
    Masks <- AllMasks
    Buttons = {"left", "wheel"}
    Scroll = {"wheel"}
    PropsWids = {2}
    InputWids = {3}
INVARIANTS
    PointersLive
    SelectionsConnected
    GrabHasButton
PROPERTIES
    GrabHeld
