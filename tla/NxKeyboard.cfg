SPECIFICATION KeySpec
CONSTANTS
    c1 = c1
    c2 = c2
    Clients = {c1, c2}
    NoClient = NoClient
    MaxWid = 2
    Cells = {0, 1}
    Sizes = {1}
    Masks <- KeyMasks
    Buttons = {}
    Scroll = {}
    PropsWids = {}
    InputWids = {}
    Keys = {"k"}
    GrabTypes = {"HOTKEY_EXCLUSIVE", "HOTKEY", "EXCLUSIVE_MOUSE"}
    GrabWids = {1, 2}
    MaxGrabs = 2
SYMMETRY ClientSymmetry
INVARIANTS
    HotkeysListedLast
    OneExclusiveGrab
PROPERTIES
    ExclusiveSilencesHotkeys
    FocusHearsKeys
