SPECIFICATION Spec
CONSTANTS
    Sta = {s1, s2}
    Bss = {b1}
    NoSta = NoSta
    NoBss = NoBss
    Reader = {r1}
    MaxOff = 1
    MaxSta = 2
    BssId = 1
    Peer = {0, 1}
SYMMETRY Symmetry
INVARIANTS TableExact NoFreedInUse ConnectedStaListed StopQuiet
