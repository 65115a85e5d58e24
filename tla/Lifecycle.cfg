SPECIFICATION FairSpec
CONSTANTS
    Urb = {u1, u2, u3}
INVARIANTS RxAlive NoRxAfterFree UpMeansOpen
PROPERTIES DisconnectEnds
