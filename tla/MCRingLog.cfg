SPECIFICATION Spec
CONSTANTS
    Char = {a, b}
    Nul = nul
    N = 4
    FullSize = 4
    MaxLog = 3
    MaxFmt = 4
INVARIANTS
    TypeOK
    RingConsistent
PROPERTY
    ShowsLastBytes
