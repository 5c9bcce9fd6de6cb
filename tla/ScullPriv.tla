------------------------------ MODULE ScullPriv -----------------------------
(***************************************************************************)
(* scullpriv, src/ldd4/scull/access.c 225-322: a device for every terminal *)
(* that opens it, kept in a list under the spinlock scull_c_lock.  A       *)
(* process is on one terminal, or on none.  What a device holds is         *)
(* abstracted to the terminal that wrote it last: reads, writes and the    *)
(* trimming of the quanta are those of ScullMem.                           *)
(***************************************************************************)
EXTENDS Integers, Sequences

CONSTANTS
    PrivProcs,
    Ttys,
    NoTty,          \* in place of a terminal: the process has none
    PrivMax         \* bound: devices allocated

ASSUME PrivAssumption == NoTty \notin Ttys /\ PrivMax \in Nat /\ "none" \notin PrivProcs

VARIABLES
    tty,            \* the terminal of each process
    scull_c_list,   \* the items, newest first
    scull_c_lock,   \* its holder, or "none"
    ppc, pdev,      \* of each process: label, the device it found (0: none)
    allocated,      \* the devices so far, numbered
    content,        \* of each device: the terminal whose data it holds, or NoTty
    home            \* ghost: the device that a terminal was given first

privVars == <<tty, scull_c_list, scull_c_lock, ppc, pdev, allocated, content, home>>

PrivInit ==
    /\ tty \in [PrivProcs -> Ttys \cup {NoTty}]
    /\ scull_c_list = <<>> /\ scull_c_lock = "none"
    /\ ppc = [p \in PrivProcs |-> "closed"] /\ pdev = [p \in PrivProcs |-> 0]
    /\ allocated = 0 /\ content = [d \in 1..PrivMax |-> NoTty]
    /\ home = [k \in Ttys |-> 0]

PGoto(p, l) == ppc' = [ppc EXCEPT ![p] = l]

\* The places in the list of the items whose key is k.
Matching(k) == {i \in DOMAIN scull_c_list : scull_c_list[i].key = k}

\* scull_c_open takes the lock,
PrivLock(p) ==
    /\ ppc[p] = "closed" /\ tty[p] # NoTty /\ scull_c_lock = "none"
    /\ scull_c_lock' = p
    /\ PGoto(p, "look")
    /\ UNCHANGED <<tty, scull_c_list, pdev, allocated, content, home>>

\* Mistake: the lock is dropped for the allocation.
PrivLookUnlock(p) ==
    /\ ppc[p] = "look"
    /\ IF Matching(tty[p]) = {}
       THEN PGoto(p, "alloc") /\ scull_c_lock' = "none" /\ UNCHANGED pdev
       ELSE /\ \E i \in Matching(tty[p]) :
                /\ \A j \in Matching(tty[p]) : i <= j
                /\ pdev' = [pdev EXCEPT ![p] = scull_c_list[i].dev]
            /\ scull_c_lock' = "none" /\ PGoto(p, "trim")
    /\ UNCHANGED <<tty, scull_c_list, allocated, content, home>>

\* looks for the device of its terminal,
PrivLook(p) ==
    /\ ppc[p] = "look"
    /\ IF Matching(tty[p]) = {}
       THEN PGoto(p, "alloc") /\ UNCHANGED <<pdev, scull_c_lock>>
       ELSE /\ \E i \in Matching(tty[p]) :
                /\ \A j \in Matching(tty[p]) : i <= j
                /\ pdev' = [pdev EXCEPT ![p] = scull_c_list[i].dev]
            /\ scull_c_lock' = "none" /\ PGoto(p, "trim")
    /\ UNCHANGED <<tty, scull_c_list, allocated, content, home>>

\* Mistake: the lock is kept when there is no memory.
PrivAllocLocked(p) ==
    /\ ppc[p] = "alloc"
    /\ PGoto(p, "closed")
    /\ UNCHANGED <<tty, scull_c_list, scull_c_lock, pdev, allocated, content, home>>

\* allocates one if there is none, which may fail, and gives the lock back.
PrivAlloc(p) ==
    LET k == tty[p]
        n == allocated + 1 IN
    /\ ppc[p] = "alloc"
    /\ scull_c_lock' = "none"
    /\ \/ PGoto(p, "closed") /\ UNCHANGED <<scull_c_list, pdev, allocated, home>>
       \/ /\ n <= PrivMax /\ allocated' = n
          /\ scull_c_list' = <<[key |-> k, dev |-> n]>> \o scull_c_list
          /\ pdev' = [pdev EXCEPT ![p] = n]
          /\ home' = [home EXCEPT ![k] = IF @ = 0 THEN n ELSE @]
          /\ PGoto(p, "trim")
    /\ UNCHANGED <<tty, content>>

\* Then an open for writing only trims the device it found, without the device's
\* mutex.
PrivTrim(p) ==
    /\ ppc[p] = "trim"
    /\ PGoto(p, "open")
    /\ \E d \in {NoTty, content[pdev[p]]} : content' = [content EXCEPT ![pdev[p]] = d]
    /\ UNCHANGED <<tty, scull_c_list, scull_c_lock, pdev, allocated, home>>

\* scull_write, one of the operations that come from the bare device
PrivWrite(p) ==
    /\ ppc[p] = "open"
    /\ content' = [content EXCEPT ![pdev[p]] = tty[p]]
    /\ UNCHANGED <<tty, scull_c_list, scull_c_lock, ppc, pdev, allocated, home>>

\* scull_c_release: "Nothing to do, because the device is persistent."
PrivRelease(p) ==
    /\ ppc[p] = "open"
    /\ pdev' = [pdev EXCEPT ![p] = 0]
    /\ PGoto(p, "closed")
    /\ UNCHANGED <<tty, scull_c_list, scull_c_lock, allocated, content, home>>

\* scull_access_cleanup, when the module goes: all devices are freed.
PrivCleanup ==
    /\ \A p \in PrivProcs : ppc[p] = "closed"
    /\ scull_c_list' = <<>>
    /\ content' = [d \in 1..PrivMax |-> NoTty]
    /\ home' = [k \in Ttys |-> 0]
    /\ UNCHANGED <<tty, scull_c_lock, ppc, pdev, allocated>>

PrivNext ==
    \/ \E p \in PrivProcs :
          PrivLock(p) \/ PrivLook(p) \/ PrivAlloc(p) \/ PrivTrim(p) \/ PrivWrite(p) \/ PrivRelease(p)
    \/ PrivCleanup

-----------------------------------------------------------------------------
\* The variables keep their types, and the spinlock is not left behind: its holder is
\* between spin_lock and spin_unlock, on every path of scull_c_open (286-291).
PrivTypeOK ==
    /\ tty \in [PrivProcs -> Ttys \cup {NoTty}]
    /\ ppc \in [PrivProcs -> {"closed", "look", "alloc", "trim", "open"}]
    /\ pdev \in [PrivProcs -> 0..PrivMax]
    /\ content \in [1..PrivMax -> Ttys \cup {NoTty}]
    /\ scull_c_lock # "none" => ppc[scull_c_lock] \in {"look", "alloc"}

\* A terminal always gets the device it was given first, however its processes race
\* to be the first, and never sees data that another terminal wrote (247-296).
PrivOwnDevice ==
    \A p \in PrivProcs : ppc[p] \in {"trim", "open"} =>
        /\ pdev[p] = home[tty[p]]
        /\ content[pdev[p]] \in {NoTty, tty[p]}
=============================================================================
