SPECIFICATION Spec
CONSTANTS
    Queue = {q1, q2}
    Key = {k1, k2}
    NoKey = NoKey
    Cipher = {"WEP"}
    Byte = 4
    KeyLen = 1
    MaxPn = 1
SYMMETRY Symmetry
INVARIANTS KeyAlive KeyedFindsKey PnUnique IvRoundTrip
