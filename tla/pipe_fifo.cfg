CONSTANTS
    r1 = r1
    rw = rw
    b0 = b0
    b1 = b1
    Procs = {r1, rw}
    Readers = {r1, rw}
    Writers = {rw}
    NonBlock = {rw}
    Bytes = {b0, b1}
    Junk = junk
    MaxCount = 2
    DefaultSize = 3
    NewSizes = {2}
    None = none
SPECIFICATION Spec
SYMMETRY Symmetry
INVARIANTS
    TypeOK
    RingBounds
    BufferLifetime
    NoLostReader
PROPERTY FifoRefined
