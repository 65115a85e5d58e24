SPECIFICATION Spec
CONSTANTS
    Frame <- MCTwoFrames
    Shape <- MCShape
    Cipher = {"none"}
    NoEncrypt = TRUE
    KeyIdx = {idx0}
    MaxKey = 0
    MaxUrb = 2
    MaxOps = 2
INVARIANT JoinedFromOneFrame
