CONSTANTS
    p1 = p1
    p2 = p2
    Procs = {p1, p2}
    Capable = {p1, p2}
    Resetters = {}
    Args = {1, 2}
    Faults = {FALSE}
    SCULL_QUANTUM = 3
    SCULL_QSET = 2
    Unset = unset
SPECIFICATION Spec
PROPERTY SwitchAtomic
