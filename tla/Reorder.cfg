SPECIFICATION FairSpec
CONSTANTS
    Modulus = 16
    Size = 4
    Timeout = 1
    Start = 13
    MaxSeq = 19
    Back = 3
    Ahead = 4
    NoFrame = NoFrame
    NoTimer = NoTimer
INVARIANTS WindowExact TimerGuardsBuffer NothingPurged
PROPERTIES ReleasedInOrder BufferedFrameLeaves
