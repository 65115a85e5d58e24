SPECIFICATION Spec
CONSTANTS
    Frame <- MCFrame
    Shape <- MCShape
    Cipher = {"none", "wep", "tkip", "ccmp"}
    NoEncrypt = TRUE
    KeyIdx = {idx0}
    MaxKey = 2
    MaxUrb = 3
    MaxOps = 4
INVARIANTS NoReplay JoinedIsClosed TkipKeyAgrees NoStrandedFrame
