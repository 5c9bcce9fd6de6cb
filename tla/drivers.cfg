CONSTANTS
    p1 = p1
    p2 = p2
    p3 = p3
    w1 = w1
    w2 = w2
    r1 = r1
    o1 = o1
    o2 = o2
    t1 = t1
    t2 = t2
    ShortpProcs = {p1, p2}
    PageSize = 3
    Records = 2
    Counts = {1, 4}
    ShortpConfigs <- MCShortpConfigs
    LdtWriters = {w1, w2}
    LdtReaders = {r1}
    FIFO_SIZE = 2
    LdtUart = {TRUE, FALSE}
    LdtLoopback = {TRUE, FALSE}
    LdtMax = 3
    SbullMax = 3
    SkelProcs = {p1, p2}
    SkelDevs = {o1, o2}
    Lines = 4
    NR_TIMEVAL = 3
    ShortConfigs <- MCShortConfigs
    ShortMax = 4
    PrivProcs = {p1, p2, p3}
    Ttys = {t1, t2}
    NoTty = NoTty
    PrivMax = 2
    SetupDevs = 2
SPECIFICATION DriversSpec
INVARIANTS
    DriversTypeOK
    NoLostWakeup
    ShortReported
    SetupExact
    RingContents
    ReleaseDrained
    TimerDiscipline
    LdtInOrder
    SbullSane
    SkelNoStale
    SkelCountExact
    ShortRing
    PrivOwnDevice
PROPERTIES
    AllPrinted
    WriterWoken
    LdtSent
    SbullFresh
CHECK_DEADLOCK FALSE
