SPECIFICATION Spec
CONSTANTS
    Bss = {b1, b2}
    NoBss = NoBss
    MaxConnect = 3
INVARIANTS LinkAgrees NoFreedResult ConnectedCanSend ConnectedIsReferenced
SYMMETRY Symmetry
