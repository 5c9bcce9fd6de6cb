CONSTANTS
    r1 = r1
    w1 = w1
    b0 = b0
    Procs = {r1, w1}
    Readers = {r1}
    Writers = {w1}
    NonBlock = {}
    Bytes = {b0}
    Junk = junk
    MaxCount = 1
    DefaultSize = 2
    NewSizes = {}
    None = none
SPECIFICATION Spec
INVARIANT WriteWaitsForSpace
