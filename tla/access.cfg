CONSTANTS
    a1 = a1
    b1 = b1
    su = su
    cap = cap
    x1 = x1
    ann = ann
    bob = bob
    admin = admin
    UidProcs = {a1, b1, su, cap}
    Users = {ann, bob, admin}
    uid <- MCuid
    euid <- MCeuid
    Capable = {cap}
    UidNonBlock = {}
    UidWriters = {a1, cap}
    root = admin
    None = none
    SingleProcs = {a1, b1, su, cap, x1}
    SingleWriters = {a1, cap}
SPECIFICATION AccessSpec
INVARIANTS
    Accounting
    SingleOpen
    OneUser
    NoLostOpener
PROPERTY OpenerServed
