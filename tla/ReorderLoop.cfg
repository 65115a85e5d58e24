SPECIFICATION LoopSpec
CONSTANTS
    Modulus = 16
    Size = 4
    Timeout = 1
    Ssn = 3
    NoFrame = NoFrame
    NoTimer = NoTimer
INVARIANTS LoopsAgree
PROPERTIES LoopsEnd
