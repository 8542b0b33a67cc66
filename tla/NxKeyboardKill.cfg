SPECIFICATION KeySpec
CONSTANTS
    c1 = c1
    c2 = c2
    Clients = {c1, c2}
    NoClient = NoClient
    MaxWid = 2
    Cells = {0}
    Sizes = {1}
    Masks <- KeyMasks
    Buttons = {}
    Scroll = {}
    PropsWids = {}
    InputWids = {}
    Keys = {"k"}
    GrabTypes = {"HOTKEY"}
    GrabWids = {1, 2}
    MaxGrabs = 2
SYMMETRY ClientSymmetry
INVARIANT GrabOwnersConnected
