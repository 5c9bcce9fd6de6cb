------------------------------ MODULE ScullMem ------------------------------
(***************************************************************************)
(* One bare scull device, src/ldd4/scull/main.c: a list of quantum sets,   *)
(* each an array of dev->qset pointers to areas of dev->quantum bytes.     *)
(*                                                                         *)
(* dev->mutex protects the list, but scull_read and scull_write copy       *)
(* dev->quantum and dev->qset into locals BEFORE they take it (lines 291   *)
(* and 335), and scull_llseek reads dev->size without it (line 533): these *)
(* reads, and the stores of scull_trim they can see, are separate steps.   *)
(*                                                                         *)
(* dev->data is the sequence of list items.  An item is the sequence of    *)
(* the areas its array points to (<<>>: the array is not allocated); an    *)
(* area is the sequence of its bytes (<<>>: a NULL pointer).  So the       *)
(* lengths are what kmalloc was asked for, whatever dev->quantum and       *)
(* dev->qset say now.                                                      *)
(***************************************************************************)
EXTENDS Integers, Sequences

CONSTANTS
    Procs,          \* the processes, one struct file each
    WriteOnly,      \* those that open with O_WRONLY: they trim the device
    Bytes,          \* the values of a byte
    Junk,           \* what kmalloc leaves in a byte nobody has written
    MaxCount,       \* bound: the largest count a read or a write asks for
    MaxPos,         \* bound: the largest file position
    Offsets,        \* the offsets given to scull_llseek
    SCULL_QUANTUM, SCULL_QSET,  \* the default parameters
    NewQuanta, NewQsets,        \* the values the ioctls may give them
    None            \* not a process and not bytes: no holder, no result

ASSUME ParamAssumption ==
    /\ {SCULL_QUANTUM, SCULL_QSET} \cup NewQuanta \cup NewQsets \subseteq Nat \ {0}
    /\ MaxCount \in Nat \ {0} /\ MaxPos \in Nat /\ Offsets \subseteq Int
    /\ None \notin Procs /\ WriteOnly \subseteq Procs

VARIABLES
    scull_quantum, scull_qset,  \* the parameters of the next trim
    quantum, qset,  \* the device's own
    size,           \* amount of data stored
    data,           \* the list of quantum sets
    mutex,          \* the process that holds dev->mutex, or None
    pc,             \* where each process is
    lquantum, lqset,\* the locals "quantum" and "qset" of read and write
    pos,            \* filp->f_pos
    xfer            \* what each process's call has moved, or None

params == <<scull_quantum, scull_qset>>
dev    == <<quantum, qset, size, data>>
locals == <<lquantum, lqset>>
vars   == <<params, dev, mutex, pc, locals, pos, xfer>>

OpenPC  == {"o_lock", "o_trim", "o_quantum", "o_qset"}
RwPC    == {"r_qset", "r_lock", "r_body", "w_qset", "w_lock", "w_body"}
PC      == {"closed", "idle", "ret"} \cup OpenPC \cup RwPC
HoldPC  == {"o_trim", "o_quantum", "o_qset", "r_body", "w_body"}

-----------------------------------------------------------------------------
(* Where a position is, computed with the locals of p.                     *)

min(a, b) == IF a <= b THEN a ELSE b
max(a, b) == IF a >= b THEN a ELSE b

itemsize(p) == lquantum[p] * lqset[p]
item(p)     == pos[p] \div itemsize(p)
\* Mistake: the rest is taken within a quantum, not within a list item.
restInQuantum(p) == pos[p] % lquantum[p]

rest(p)     == pos[p] % itemsize(p)
s_pos(p)    == rest(p) \div lquantum[p]
q_pos(p)    == rest(p) % lquantum[p]

\* n list items, the new ones without an array: what scull_follow(n - 1) leaves.
follow(d, n) == [i \in 1..max(Len(d), n) |-> IF i <= Len(d) THEN d[i] ELSE <<>>]

\* Mistake: the array is sized with the module's parameter, not the device's.
withSetGlobal(d, i, n) ==
    IF d[i + 1] # <<>> THEN d ELSE [d EXCEPT ![i + 1] = [k \in 1..scull_qset |-> <<>>]]

\* The array of item i (from 0) allocated if it was not, with n pointers.
withSet(d, i, n) ==
    IF d[i + 1] # <<>> THEN d ELSE [d EXCEPT ![i + 1] = [k \in 1..n |-> <<>>]]

\* The area s of item i allocated if it was not, with n bytes.
withArea(d, i, s, n) ==
    IF d[i + 1][s + 1] # <<>> THEN d
    ELSE [d EXCEPT ![i + 1][s + 1] = [k \in 1..n |-> Junk]]

\* The area s of item i, <<>> if there is none.
area(d, i, s) == IF d[i + 1] = <<>> THEN <<>> ELSE d[i + 1][s + 1]

\* The bytes b stored at offset q of area s of item i.
withBytes(d, i, s, q, b) ==
    [d EXCEPT ![i + 1][s + 1] =
        [k \in 1..Len(@) |-> IF k - q \in DOMAIN b THEN b[k - q] ELSE @[k]]]

\* The list as scull_write leaves it before the copy.
prepared(p) ==
    withArea(withSet(follow(data, item(p) + 1), item(p), lqset[p]),
             item(p), s_pos(p), lquantum[p])

\* The pointer dptr->data[s_pos] is inside its array, and the area it points to
\* reaches to the end of what the locals take for the quantum.  What a read or a
\* write does to memory that is not its own is not modelled: its steps require
\* both, and AccessInQuantum says whether that is all there is.
found(p) == follow(data, item(p) + 1)
ArrayFits(p) ==
    found(p)[item(p) + 1] # <<>> => s_pos(p) < Len(found(p)[item(p) + 1])
AreaFits(p) ==
    area(found(p), item(p), s_pos(p)) # <<>> =>
      lquantum[p] <= Len(area(found(p), item(p), s_pos(p)))
Fits(p) == ArrayFits(p) /\ AreaFits(p)

-----------------------------------------------------------------------------
Init ==
    /\ scull_quantum = SCULL_QUANTUM /\ scull_qset = SCULL_QSET
    /\ quantum = SCULL_QUANTUM /\ qset = SCULL_QSET
    /\ size = 0 /\ data = <<>>
    /\ mutex = None
    /\ pc = [p \in Procs |-> "closed"]
    /\ lquantum = [p \in Procs |-> SCULL_QUANTUM]
    /\ lqset = [p \in Procs |-> SCULL_QSET]
    /\ pos = [p \in Procs |-> 0]
    /\ xfer = [p \in Procs |-> None]

Goto(p, l) == pc' = [pc EXCEPT ![p] = l]

\* The locals of p are dead outside a call: they are given their initial values.
DropLocals(p) ==
    /\ lquantum' = [lquantum EXCEPT ![p] = SCULL_QUANTUM]
    /\ lqset' = [lqset EXCEPT ![p] = SCULL_QSET]

Lock(p, from, to) ==
    /\ pc[p] = from
    /\ mutex = None
    /\ mutex' = p
    /\ Goto(p, to)
    /\ UNCHANGED <<params, dev, locals, pos, xfer>>

\* mutex_lock_interruptible gives up because of a signal: -ERESTARTSYS.
LockInterrupted(p, from, ret) ==
    /\ pc[p] = from
    /\ Goto(p, ret)
    /\ DropLocals(p)
    /\ UNCHANGED <<params, dev, mutex, pos, xfer>>

-----------------------------------------------------------------------------
(* scull_open, scull_trim and scull_release                                *)

OpenStart(p) ==
    /\ pc[p] = "closed"
    /\ Goto(p, IF p \in WriteOnly THEN "o_lock" ELSE "idle")
    /\ UNCHANGED <<params, dev, mutex, locals, pos, xfer>>

\* scull_trim frees the list; the stores to size, quantum and qset follow.
Trim(p) ==
    /\ pc[p] = "o_trim"
    /\ data' = <<>>
    /\ size' = 0
    /\ Goto(p, "o_quantum")
    /\ UNCHANGED <<params, quantum, qset, mutex, locals, pos, xfer>>

TrimQuantum(p) ==
    /\ pc[p] = "o_quantum"
    /\ quantum' = scull_quantum
    /\ Goto(p, "o_qset")
    /\ UNCHANGED <<params, qset, size, data, mutex, locals, pos, xfer>>

TrimQset(p) ==
    /\ pc[p] = "o_qset"
    /\ qset' = scull_qset
    /\ mutex' = None
    /\ Goto(p, "idle")
    /\ UNCHANGED <<params, quantum, size, data, locals, pos, xfer>>

\* The struct file is freed; f_pos is 0 in the next one.
Release(p) ==
    /\ pc[p] = "idle"
    /\ pos' = [pos EXCEPT ![p] = 0]
    /\ Goto(p, "closed")
    /\ UNCHANGED <<params, dev, mutex, locals, xfer>>

Open(p) ==
    \/ OpenStart(p)
    \/ Lock(p, "o_lock", "o_trim")
    \/ LockInterrupted(p, "o_lock", "closed")
    \/ Trim(p)
    \/ TrimQuantum(p)
    \/ TrimQset(p)

-----------------------------------------------------------------------------
(* The common beginning of scull_read and scull_write: copy the parameters *)
(* of the device, then take the mutex.                                     *)

CopyQuantum(p, to) ==
    /\ pc[p] = "idle"
    /\ lquantum' = [lquantum EXCEPT ![p] = quantum]
    /\ Goto(p, to)
    /\ UNCHANGED <<params, dev, mutex, lqset, pos, xfer>>

CopyQset(p, from, to) ==
    /\ pc[p] = from
    /\ lqset' = [lqset EXCEPT ![p] = qset]
    /\ Goto(p, to)
    /\ UNCHANGED <<params, dev, mutex, lquantum, pos, xfer>>

\* The call unlocks the mutex and returns; b are the bytes it moved.
Finish(p, b) ==
    /\ xfer' = [xfer EXCEPT ![p] = b]
    /\ pos' = [pos EXCEPT ![p] = @ + Len(b)]
    /\ mutex' = None
    /\ Goto(p, "ret")
    /\ DropLocals(p)
    /\ UNCHANGED <<params, quantum, qset>>

\* The call unlocks the mutex and returns without having moved anything: -ENOMEM,
\* -EFAULT, or 0 because the caller asked for 0 bytes.
Leave(p) ==
    /\ mutex' = None
    /\ Goto(p, "idle")
    /\ DropLocals(p)
    /\ UNCHANGED <<params, quantum, qset, pos, xfer>>

Return(p) ==
    /\ pc[p] = "ret"
    /\ xfer' = [xfer EXCEPT ![p] = None]
    /\ Goto(p, "idle")
    /\ UNCHANGED <<params, dev, mutex, locals, pos>>

-----------------------------------------------------------------------------
(* scull_read                                                              *)

\* At the end of the device: return 0.
ReadEof(p) ==
    /\ pc[p] = "r_body"
    /\ pos[p] >= size
    /\ Finish(p, <<>>)
    /\ UNCHANGED <<size, data>>

\* scull_follow runs out of memory somewhere along the list: return 0.
ReadNoMemory(p) ==
    /\ pc[p] = "r_body"
    /\ pos[p] < size
    /\ \E n \in Len(data)..item(p) : data' = follow(data, n)
    /\ Finish(p, <<>>)
    /\ UNCHANGED size

\* "don't fill holes": return 0 where there is no area.
ReadHole(p) ==
    /\ pc[p] = "r_body"
    /\ pos[p] < size
    /\ Fits(p)
    /\ area(found(p), item(p), s_pos(p)) = <<>>
    /\ data' = found(p)
    /\ Finish(p, <<>>)
    /\ UNCHANGED size

\* Copy up to the end of the quantum, and never beyond the size.
ReadCopy(p) ==
    /\ pc[p] = "r_body"
    /\ pos[p] < size
    /\ Fits(p)
    /\ area(found(p), item(p), s_pos(p)) # <<>>
    /\ \E count \in 1..MaxCount :
          LET n == min(min(count, size - pos[p]), lquantum[p] - q_pos(p))
          IN  Finish(p, SubSeq(area(found(p), item(p), s_pos(p)),
                               q_pos(p) + 1, q_pos(p) + n))
    /\ UNCHANGED <<size, data>>

\* copy_to_user fails: -EFAULT; or count is 0, and so is the return value.
ReadNothing(p) ==
    /\ pc[p] = "r_body"
    /\ pos[p] < size
    /\ Fits(p)
    /\ area(found(p), item(p), s_pos(p)) # <<>>
    /\ Leave(p)
    /\ UNCHANGED <<size, data>>

\* Mistake: the quantum is that of the module, not of the device.
ReadStartGlobal(p) ==
    /\ p \notin WriteOnly
    /\ pc[p] = "idle"
    /\ lquantum' = [lquantum EXCEPT ![p] = scull_quantum]
    /\ Goto(p, "r_qset")
    /\ UNCHANGED <<params, dev, mutex, lqset, pos, xfer>>

ReadStart(p) ==
    /\ p \notin WriteOnly
    /\ CopyQuantum(p, "r_qset")

Read(p) ==
    \/ ReadStart(p)
    \/ CopyQset(p, "r_qset", "r_lock")
    \/ Lock(p, "r_lock", "r_body")
    \/ LockInterrupted(p, "r_lock", "idle")
    \/ ReadEof(p)
    \/ ReadNoMemory(p)
    \/ ReadHole(p)
    \/ ReadCopy(p)
    \/ ReadNothing(p)

-----------------------------------------------------------------------------
(* scull_write                                                             *)

WriteStart(p) ==
    /\ pos[p] < MaxPos
    /\ CopyQuantum(p, "w_qset")

\* kmalloc fails for a list item, for the array or for the area: -ENOMEM.  What
\* was allocated before stays in the list.
WriteNoMemory(p) ==
    /\ pc[p] = "w_body"
    /\ Fits(p)
    /\ area(found(p), item(p), s_pos(p)) = <<>>
    /\ \/ \E n \in Len(data)..item(p) : data' = follow(data, n)
       \/ found(p)[item(p) + 1] = <<>> /\ data' = found(p)
       \/ data' = withSet(found(p), item(p), lqset[p])
    /\ Leave(p)
    /\ UNCHANGED size

\* Copy the user's bytes, "only up to the end of this quantum", and update the
\* position and the size.
WriteCopy(p) ==
    /\ pc[p] = "w_body"
    /\ Fits(p)
    /\ \E count \in 1..min(MaxCount, MaxPos - pos[p]) :
       \E b \in [1..min(count, lquantum[p] - q_pos(p)) -> Bytes] :
          /\ data' = withBytes(prepared(p), item(p), s_pos(p), q_pos(p), b)
          /\ size' = max(size, pos[p] + Len(b))
          /\ Finish(p, b)

\* A count of 0 copies nothing and returns 0, but it allocates like any other, and
\* the size is raised to a position past the end.
WriteNothing(p) ==
    /\ pc[p] = "w_body"
    /\ Fits(p)
    /\ data' = prepared(p)
    /\ size' = max(size, pos[p])
    /\ Leave(p)

\* copy_from_user fails after some of the bytes were copied: -EFAULT.
WriteFault(p) ==
    /\ pc[p] = "w_body"
    /\ Fits(p)
    /\ \E n \in 0..min(MaxCount, lquantum[p] - q_pos(p)) - 1 : \E b \in [1..n -> Bytes] :
          data' = withBytes(prepared(p), item(p), s_pos(p), q_pos(p), b)
    /\ Leave(p)
    /\ UNCHANGED size

Write(p) ==
    \/ WriteStart(p)
    \/ CopyQset(p, "w_qset", "w_lock")
    \/ Lock(p, "w_lock", "w_body")
    \/ LockInterrupted(p, "w_lock", "idle")
    \/ WriteNoMemory(p)
    \/ WriteCopy(p)
    \/ WriteNothing(p)
    \/ WriteFault(p)

-----------------------------------------------------------------------------
(* scull_llseek: SEEK_SET, SEEK_CUR, SEEK_END; a negative position is      *)
(* refused and changes nothing.                                            *)

Llseek(p) ==
    /\ pc[p] = "idle"
    /\ \E off \in Offsets : \E base \in {0, pos[p], size} :
          /\ base + off \in 0..MaxPos
          /\ pos' = [pos EXCEPT ![p] = base + off]
    /\ UNCHANGED <<params, dev, mutex, pc, locals, xfer>>

\* The ioctl commands that change a parameter, and SCULL_IOCRESET.  They take no
\* lock and reach a device only through its next trim.
Ioctl ==
    /\ \/ scull_quantum' \in NewQuanta /\ UNCHANGED scull_qset
       \/ scull_qset' \in NewQsets /\ UNCHANGED scull_quantum
       \/ scull_quantum' = SCULL_QUANTUM /\ scull_qset' = SCULL_QSET
    /\ UNCHANGED <<dev, mutex, pc, locals, pos, xfer>>

Next ==
    \/ \E p \in Procs : Open(p) \/ Release(p) \/ Read(p) \/ Write(p) \/ Return(p) \/ Llseek(p)
    \/ Ioctl

Spec == Init /\ [][Next]_vars

-----------------------------------------------------------------------------
(* Properties.                                                             *)

\* scull_dev->data "points to an array of pointers, each pointer refers to a memory
\* area of SCULL_QUANTUM bytes" (scull.h 64-65): every array of the list has dev->qset
\* pointers and every area dev->quantum bytes, so that scull_trim, which counts
\* with dev->qset, frees all of them and nothing else.
SetsHaveShape ==
    \A i \in DOMAIN data :
      data[i] # <<>> =>
        /\ Len(data[i]) = qset
        /\ \A s \in DOMAIN data[i] : Len(data[i][s]) \in {0, quantum}

\* "Write only up to the end of this quantum" (main.c line 364) and "read only up
\* to the end of this quantum" (line 314): a call that has the mutex computes a
\* place inside the memory that is allocated.
AccessInQuantum ==
    \A p \in Procs : pc[p] = "w_body" \/ (pc[p] = "r_body" /\ pos[p] < size) => Fits(p)

\* The abstraction function: the byte at offset i is in the area that the
\* device's own quantum and qset select; an offset without an area was never
\* written.
byteAt(i) ==
    LET it == i \div (quantum * qset)
        s  == (i % (quantum * qset)) \div quantum
    IN  IF it < Len(data) /\ s < Len(data[it + 1]) /\ data[it + 1][s + 1] # <<>>
        THEN data[it + 1][s + 1][(i % quantum) + 1]
        ELSE Junk
File == INSTANCE ScullFile
          WITH file <- [i \in 1..size |-> byteAt(i - 1)],
               opening <- {p \in Procs : pc[p] \in OpenPC}

\* The quantum sets behave as one array of bytes: what is written at an offset is
\* what is read there, across the boundaries of areas, arrays and list items and
\* whatever fails on the way.
FileRefined == File!FileSpec
=============================================================================
