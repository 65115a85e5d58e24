SPECIFICATION Spec
CONSTANTS
    Bss = {b1, b2}
    NoBss = NoBss
    MaxConnect = 3
INVARIANT AssocIeValid
SYMMETRY Symmetry
