CONSTANTS
    p1 = p1
    p2 = p2
    b0 = b0
    b1 = b1
    Procs = {p1, p2}
    WriteOnly = {p2}
    Bytes = {b0}
    Junk = junk
    MaxCount = 2
    MaxPos = 2
    Offsets <- SeekOffsets
    SCULL_QUANTUM = 1
    SCULL_QSET = 2
    NewQuanta = {2}
    NewQsets = {1}
    None = none
SPECIFICATION Spec
INVARIANT AccessInQuantum
