CONSTANTS
    rw = rw
    w1 = w1
    b0 = b0
    Procs = {rw, w1}
    Readers = {rw}
    Writers = {rw, w1}
    NonBlock = {}
    Bytes = {b0}
    Junk = junk
    MaxCount = 2
    DefaultSize = 3
    NewSizes = {}
    None = none
SPECIFICATION QuietFairSpec
INVARIANT NoLostWriter
PROPERTIES
    NoSleepWhenReady
    ReadMeetsWrite
