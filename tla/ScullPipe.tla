----------------------------- MODULE ScullPipe ------------------------------
(***************************************************************************)
(* One scullpipe device, src/ldd4/scull/pipe.c: a circular buffer under a  *)
(* mutex, with blocking readers (wait_event_interruptible), blocking       *)
(* writers (a hand written prepare_to_wait/schedule loop), select/poll,    *)
(* asynchronous notification, and a buffer that lives from the first open  *)
(* to the last release.                                                    *)
(*                                                                         *)
(* Each process has one open file at most and is at one point of one file  *)
(* operation: pc[p].  A step is the code between two points where another  *)
(* process can see or change something: the mutex protects the pointers,   *)
(* but the wait conditions read them WITHOUT the mutex, so every store to  *)
(* rp, wp and buffersize is a step of its own.                             *)
(*                                                                         *)
(* Pointers are offsets from dev->buffer, so dev->end is buffersize (both  *)
(* are only ever assigned together, lines 79-80).                          *)
(***************************************************************************)
EXTENDS Integers, Sequences, FiniteSets

CONSTANTS
    Procs,          \* the processes, one struct file each
    Readers,        \* those that open with FMODE_READ
    Writers,        \* those that open with FMODE_WRITE
    NonBlock,       \* those that set and clear O_NONBLOCK, with fcntl
    Bytes,          \* the values of a byte
    Junk,           \* what kmalloc leaves in a byte nobody has written
    MaxCount,       \* bound: the largest count a read or a write asks for
    DefaultSize,    \* scull_p_buffer when the module is loaded
    NewSizes,       \* the values SCULL_P_IOCTSIZE may give scull_p_buffer
    None            \* not a process: nobody holds the mutex

Sizes == {DefaultSize} \cup NewSizes
Slots == UNION {0..s - 1 : s \in Sizes}     \* the offsets of all buffers

\* A size of 0 or less is outside the model: kmalloc(0) and negative sizes are
\* a matter of the kernel's allocator.
ASSUME SizeAssumption == Sizes \subseteq Nat \ {0}
\* Sizes are C ints: there are finitely many.
ASSUME SlotAssumption == IsFiniteSet(Slots)
ASSUME CountAssumption == MaxCount \in Nat
ASSUME ProcAssumption ==
    /\ Readers \cup Writers = Procs
    /\ NonBlock \subseteq Procs
    /\ None \notin Procs
    /\ IsFiniteSet(Procs)

VARIABLES
    scull_p_buffer, \* the module parameter: size of the next buffer
    buffer,         \* bytes allocated at dev->buffer, 0 when it is NULL
    buffersize,     \* dev->buffersize, and the offset of dev->end
    rp, wp,         \* where to read, where to write
    mem,            \* the bytes at dev->buffer
    nreaders, nwriters,
    mutex,          \* the process that holds dev->mutex, or None
    inq, outq,      \* the processes on the two wait queues
    async_queue,    \* the processes registered for SIGIO
    pc,             \* where each process is
    xfer,           \* the bytes moved by each process's call in progress
    sig             \* the processes with a signal pending

ring  == <<buffer, buffersize, rp, wp, mem>>
count == <<nreaders, nwriters>>
vars  == <<scull_p_buffer, ring, count, mutex, inq, outq, async_queue, pc,
           xfer, sig>>

\* The points of scull_p_open and scull_p_release; of scull_p_read; of
\* scull_p_write and scull_getwritespace; of poll.
OpenPC  == {"o_lock", "o_alloc", "o_size", "o_wp", "o_rp"}
ReadPC  == {"r_lock", "r_test", "r_wrap", "r_wake", "r_prep", "r_check", "r_sleep"}
WritePC == {"w_lock", "w_test", "w_wrap", "w_wake", "w_sigio", "w_prep",
            "w_check", "w_sleep", "w_finish"}
PollPC  == {"p_lock", "p_test", "p_sleep"}
PC      == {"closed", "idle", "c_lock", "c_put"} \cup OpenPC \cup ReadPC
             \cup WritePC \cup PollPC

\* The points at which a process owns dev->mutex.
HoldPC == {"o_alloc", "o_size", "o_wp", "o_rp", "c_put", "r_test", "r_wrap",
           "w_test", "w_wrap", "p_test"}

\* The files that are open: scull_p_open has returned 0.
Opened == {p \in Procs : pc[p] \notin {"closed"} \cup OpenPC}
Resetting == \E p \in Procs : pc[p] \in {"o_size", "o_wp", "o_rp"}
InCall(p) == pc[p] \notin {"closed", "idle"}

-----------------------------------------------------------------------------
(* Arithmetic of the ring.                                                 *)

min(a, b) == IF a <= b THEN a ELSE b

\* C's remainder: it has the sign of the dividend.
rem(a, b) == IF a >= 0 THEN a % b ELSE -((-a) % b)

spacefree ==
    IF rp = wp THEN buffersize - 1
    ELSE rem(rp + buffersize - wp, buffersize) - 1

\* How many bytes a read of n bytes takes: up to wp, or up to the end.
readCount(n) ==
    IF wp > rp THEN min(n, wp - rp) ELSE min(n, buffersize - rp)

\* How many bytes a write of n bytes takes: up to the end, or up to rp - 1.
writeCount(n) ==
    LET c == min(n, spacefree)
    IN  IF wp >= rp THEN min(c, buffersize - wp) ELSE min(c, rp - wp - 1)

\* mem after copying the bytes s to wp.
stored(s) ==
    [i \in Slots |-> IF i - wp + 1 \in DOMAIN s THEN s[i - wp + 1] ELSE mem[i]]

\* The k bytes from rp on.
taken(k) == [i \in 1..k |-> mem[rp + i - 1]]

-----------------------------------------------------------------------------
Init ==
    /\ scull_p_buffer = DefaultSize
    /\ buffer = 0 /\ buffersize = 0 /\ rp = 0 /\ wp = 0
    /\ mem = [i \in Slots |-> Junk]
    /\ nreaders = 0 /\ nwriters = 0
    /\ mutex = None
    /\ inq = {} /\ outq = {} /\ async_queue = {}
    /\ pc = [p \in Procs |-> "closed"]
    /\ xfer = [p \in Procs |-> <<>>]
    /\ sig = {}

Goto(p, l) == pc' = [pc EXCEPT ![p] = l]

\* The call returns to user mode, where a pending signal is handled.
Return(p, l) ==
    /\ Goto(p, l)
    /\ xfer' = [xfer EXCEPT ![p] = <<>>]
    /\ sig' = sig \ {p}

\* mutex_lock: wait for the mutex and take it.
Lock(p, from, to) ==
    /\ pc[p] = from
    /\ mutex = None
    /\ mutex' = p
    /\ Goto(p, to)
    /\ UNCHANGED <<scull_p_buffer, ring, count, inq, outq, async_queue, xfer, sig>>

\* mutex_lock_interruptible gives up because of a signal: -ERESTARTSYS.
LockInterrupted(p, from, ret) ==
    /\ pc[p] = from
    /\ p \in sig
    /\ Return(p, ret)
    /\ UNCHANGED <<scull_p_buffer, ring, count, mutex, inq, outq, async_queue>>
-----------------------------------------------------------------------------
(* scull_p_open                                                            *)

OpenStart(p) ==
    /\ pc[p] = "closed"
    /\ Goto(p, "o_lock")
    /\ UNCHANGED <<scull_p_buffer, ring, count, mutex, inq, outq, async_queue, xfer, sig>>

\* The buffer is allocated only if there is none,
OpenAlloc(p) ==
    /\ pc[p] = "o_alloc"
    /\ IF buffer = 0
       THEN buffer' = scull_p_buffer /\ mem' = [i \in Slots |-> Junk]
       ELSE UNCHANGED <<buffer, mem>>
    /\ Goto(p, "o_size")
    /\ UNCHANGED <<scull_p_buffer, buffersize, rp, wp, count, mutex, inq, outq, async_queue, xfer, sig>>

\* kmalloc fails: -ENOMEM, the file is not opened.
OpenNoMemory(p) ==
    /\ pc[p] = "o_alloc"
    /\ buffer = 0
    /\ mutex' = None
    /\ Return(p, "closed")
    /\ UNCHANGED <<scull_p_buffer, ring, count, inq, outq, async_queue>>

\* but its size and its end are set by every open, from what scull_p_buffer is by then.
OpenSize(p) ==
    /\ pc[p] = "o_size"
    /\ buffersize' = scull_p_buffer
    /\ Goto(p, "o_wp")
    /\ UNCHANGED <<scull_p_buffer, buffer, rp, wp, mem, count, mutex, inq, outq, async_queue, xfer, sig>>

\* dev->rp = dev->wp = dev->buffer: wp is stored first.
OpenWp(p) ==
    /\ pc[p] = "o_wp"
    /\ wp' = 0
    /\ Goto(p, "o_rp")
    /\ UNCHANGED <<scull_p_buffer, buffer, buffersize, rp, mem, count, mutex, inq, outq, async_queue, xfer, sig>>

OpenRp(p) ==
    /\ pc[p] = "o_rp"
    /\ rp' = 0
    /\ nreaders' = IF p \in Readers THEN nreaders + 1 ELSE nreaders
    /\ nwriters' = IF p \in Writers THEN nwriters + 1 ELSE nwriters
    /\ mutex' = None
    /\ Return(p, "idle")
    /\ UNCHANGED <<scull_p_buffer, buffer, buffersize, wp, mem, inq, outq, async_queue>>

Open(p) ==
    \/ OpenStart(p)
    \/ Lock(p, "o_lock", "o_alloc")
    \/ LockInterrupted(p, "o_lock", "closed")
    \/ OpenAlloc(p)
    \/ OpenNoMemory(p)
    \/ OpenSize(p)
    \/ OpenWp(p)
    \/ OpenRp(p)

-----------------------------------------------------------------------------
(* scull_p_release                                                         *)

ReleaseStart(p) ==
    /\ pc[p] = "idle"
    /\ async_queue' = async_queue \ {p}
    /\ Goto(p, "c_lock")
    /\ UNCHANGED <<scull_p_buffer, ring, count, mutex, inq, outq, xfer, sig>>

\* Mistake: the last writer frees the buffer under the readers.
ReleasePutEarly(p) ==
    /\ pc[p] = "c_put"
    /\ nreaders' = IF p \in Readers THEN nreaders - 1 ELSE nreaders
    /\ nwriters' = IF p \in Writers THEN nwriters - 1 ELSE nwriters
    /\ buffer' = IF nwriters' = 0 THEN 0 ELSE buffer
    /\ mutex' = None
    /\ Return(p, "closed")
    /\ UNCHANGED <<scull_p_buffer, buffersize, rp, wp, mem, inq, outq, async_queue>>

ReleasePut(p) ==
    /\ pc[p] = "c_put"
    /\ nreaders' = IF p \in Readers THEN nreaders - 1 ELSE nreaders
    /\ nwriters' = IF p \in Writers THEN nwriters - 1 ELSE nwriters
    /\ buffer' = IF nreaders' + nwriters' = 0 THEN 0 ELSE buffer
    /\ mutex' = None
    /\ Return(p, "closed")
    /\ UNCHANGED <<scull_p_buffer, buffersize, rp, wp, mem, inq, outq, async_queue>>

Release(p) ==
    \/ ReleaseStart(p)
    \/ Lock(p, "c_lock", "c_put")
    \/ ReleasePut(p)

-----------------------------------------------------------------------------
(* scull_p_read                                                            *)

ReadStart(p) ==
    /\ pc[p] = "idle" /\ p \in Readers
    /\ Goto(p, "r_lock")
    /\ UNCHANGED <<scull_p_buffer, ring, count, mutex, inq, outq, async_queue, xfer, sig>>

\* Nothing to read: release the mutex, then return -EAGAIN or go to sleep.
ReadEmpty(p) ==
    /\ pc[p] = "r_test"
    /\ rp = wp
    /\ mutex' = None
    /\ \/ p \in NonBlock /\ Return(p, "idle")
       \/ Goto(p, "r_prep") /\ UNCHANGED <<xfer, sig>>
    /\ UNCHANGED <<scull_p_buffer, ring, count, inq, outq, async_queue>>

\* wait_event_interruptible: join inq, then look at the condition.
ReadPrepare(p) ==
    /\ pc[p] = "r_prep"
    /\ inq' = inq \cup {p}
    /\ Goto(p, "r_check")
    /\ UNCHANGED <<scull_p_buffer, ring, count, mutex, outq, async_queue, xfer, sig>>

\* The condition holds (read without the mutex): leave inq, take the mutex again.
ReadReady(p) ==
    /\ pc[p] = "r_check"
    /\ rp # wp
    /\ inq' = inq \ {p}
    /\ Goto(p, "r_lock")
    /\ UNCHANGED <<scull_p_buffer, ring, count, mutex, outq, async_queue, xfer, sig>>

\* Mistake: the reader sleeps without looking again (interruptible_sleep_on).
ReadSleepBlindly(p) ==
    /\ pc[p] = "r_check"
    /\ IF p \in sig
       THEN inq' = inq \ {p} /\ Return(p, "idle")
       ELSE Goto(p, "r_sleep") /\ UNCHANGED <<inq, xfer, sig>>
    /\ UNCHANGED <<scull_p_buffer, ring, count, mutex, outq, async_queue>>

\* It does not hold: a signal ends the call, otherwise the process sleeps.
ReadSleep(p) ==
    /\ pc[p] = "r_check"
    /\ rp = wp
    /\ IF p \in sig
       THEN inq' = inq \ {p} /\ Return(p, "idle")
       ELSE Goto(p, "r_sleep") /\ UNCHANGED <<inq, xfer, sig>>
    /\ UNCHANGED <<scull_p_buffer, ring, count, mutex, outq, async_queue>>

\* A wake-up took the process off inq, or a signal came: look again.
ReadWoken(p) ==
    /\ pc[p] = "r_sleep"
    /\ p \notin inq \/ p \in sig
    /\ Goto(p, "r_prep")
    /\ UNCHANGED <<scull_p_buffer, ring, count, mutex, inq, outq, async_queue, xfer, sig>>

\* There is data: copy it to the user and advance rp.
ReadCopy(p) ==
    /\ pc[p] = "r_test"
    /\ rp # wp
    /\ \E n \in 0..MaxCount :
          /\ xfer' = [xfer EXCEPT ![p] = taken(readCount(n))]
          /\ rp' = rp + readCount(n)
    /\ Goto(p, "r_wrap")
    /\ UNCHANGED <<scull_p_buffer, buffer, buffersize, wp, mem, count, mutex, inq, outq, async_queue, sig>>

\* Mistakes: rp is advanced before the result of the copy is known; the mutex is
\* not released.
ReadFaultConsumes(p) ==
    /\ pc[p] = "r_test"
    /\ rp # wp
    /\ \E n \in 0..MaxCount : rp' = rp + readCount(n)
    /\ mutex' = None
    /\ Return(p, "idle")
    /\ UNCHANGED <<scull_p_buffer, buffer, buffersize, wp, mem, count, inq, outq, async_queue>>
ReadFaultLocked(p) ==
    /\ pc[p] = "r_test"
    /\ rp # wp
    /\ Return(p, "idle")
    /\ UNCHANGED <<scull_p_buffer, ring, count, mutex, inq, outq, async_queue>>

\* copy_to_user fails: -EFAULT.
ReadFault(p) ==
    /\ pc[p] = "r_test"
    /\ rp # wp
    /\ mutex' = None
    /\ Return(p, "idle")
    /\ UNCHANGED <<scull_p_buffer, ring, count, inq, outq, async_queue>>

\* Mistake: the read pointer does not wrap.
ReadWrapNever(p) ==
    /\ pc[p] = "r_wrap"
    /\ mutex' = None
    /\ Goto(p, "r_wake")
    /\ UNCHANGED <<scull_p_buffer, ring, count, inq, outq, async_queue, xfer, sig>>

ReadWrap(p) ==
    /\ pc[p] = "r_wrap"
    /\ rp' = IF rp = buffersize THEN 0 ELSE rp
    /\ mutex' = None
    /\ Goto(p, "r_wake")
    /\ UNCHANGED <<scull_p_buffer, buffer, buffersize, wp, mem, count, inq, outq, async_queue, xfer, sig>>

\* wake_up_interruptible(&dev->outq) wakes, and takes off, every waiter.
ReadWake(p) ==
    /\ pc[p] = "r_wake"
    /\ outq' = {}
    /\ Return(p, "idle")
    /\ UNCHANGED <<scull_p_buffer, ring, count, mutex, inq, async_queue>>

Read(p) ==
    \/ ReadStart(p)
    \/ Lock(p, "r_lock", "r_test")
    \/ LockInterrupted(p, "r_lock", "idle")
    \/ ReadEmpty(p)
    \/ ReadPrepare(p)
    \/ ReadReady(p)
    \/ ReadSleep(p)
    \/ ReadWoken(p)
    \/ ReadCopy(p)
    \/ ReadFault(p)
    \/ ReadWrap(p)
    \/ ReadWake(p)

-----------------------------------------------------------------------------
(* scull_p_write and scull_getwritespace                                   *)

WriteStart(p) ==
    /\ pc[p] = "idle" /\ p \in Writers
    /\ Goto(p, "w_lock")
    /\ UNCHANGED <<scull_p_buffer, ring, count, mutex, inq, outq, async_queue, xfer, sig>>

\* No space: release the mutex, then return -EAGAIN or go to sleep.
WriteFull(p) ==
    /\ pc[p] = "w_test"
    /\ spacefree = 0
    /\ mutex' = None
    /\ \/ p \in NonBlock /\ Return(p, "idle")
       \/ Goto(p, "w_prep") /\ UNCHANGED <<xfer, sig>>
    /\ UNCHANGED <<scull_p_buffer, ring, count, inq, outq, async_queue>>

WritePrepare(p) ==
    /\ pc[p] = "w_prep"
    /\ outq' = outq \cup {p}
    /\ Goto(p, "w_check")
    /\ UNCHANGED <<scull_p_buffer, ring, count, mutex, inq, async_queue, xfer, sig>>

\* Mistake: the writer sleeps without looking again.
WriteCheckBlindly(p) ==
    /\ pc[p] = "w_check"
    /\ Goto(p, "w_sleep")
    /\ UNCHANGED <<scull_p_buffer, ring, count, mutex, inq, outq, async_queue, xfer, sig>>

\* The second look at the space, without the mutex, decides whether to sleep.
WriteCheck(p) ==
    /\ pc[p] = "w_check"
    /\ Goto(p, IF spacefree = 0 THEN "w_sleep" ELSE "w_finish")
    /\ UNCHANGED <<scull_p_buffer, ring, count, mutex, inq, outq, async_queue, xfer, sig>>

WriteWoken(p) ==
    /\ pc[p] = "w_sleep"
    /\ p \notin outq \/ p \in sig
    /\ Goto(p, "w_finish")
    /\ UNCHANGED <<scull_p_buffer, ring, count, mutex, inq, outq, async_queue, xfer, sig>>

\* Mistake: after a wake-up the writer waits again instead of taking the mutex.
WriteFinishAgain(p) ==
    /\ pc[p] = "w_finish"
    /\ outq' = outq \ {p}
    /\ IF p \in sig
       THEN Return(p, "idle")
       ELSE Goto(p, "w_prep") /\ UNCHANGED <<xfer, sig>>
    /\ UNCHANGED <<scull_p_buffer, ring, count, mutex, inq, async_queue>>

\* finish_wait; a signal ends the call, otherwise take the mutex again.
WriteFinish(p) ==
    /\ pc[p] = "w_finish"
    /\ outq' = outq \ {p}
    /\ IF p \in sig
       THEN Return(p, "idle")
       ELSE Goto(p, "w_lock") /\ UNCHANGED <<xfer, sig>>
    /\ UNCHANGED <<scull_p_buffer, ring, count, mutex, inq, async_queue>>

\* There is space: copy the user's bytes to wp and advance it.
WriteCopy(p) ==
    /\ pc[p] = "w_test"
    /\ spacefree # 0
    /\ \E n \in 0..MaxCount : \E s \in [1..writeCount(n) -> Bytes] :
          /\ mem' = stored(s)
          /\ wp' = wp + writeCount(n)
          /\ xfer' = [xfer EXCEPT ![p] = s]
    /\ Goto(p, "w_wrap")
    /\ UNCHANGED <<scull_p_buffer, buffer, buffersize, rp, count, mutex, inq, outq, async_queue, sig>>

\* copy_from_user fails: -EFAULT, after some of the bytes were copied.
WriteFault(p) ==
    /\ pc[p] = "w_test"
    /\ spacefree # 0
    /\ \E k \in 0..writeCount(MaxCount) - 1 : \E s \in [1..k -> Bytes] :
          mem' = stored(s)
    /\ mutex' = None
    /\ Return(p, "idle")
    /\ UNCHANGED <<scull_p_buffer, buffer, buffersize, rp, wp, count, inq, outq, async_queue>>

WriteWrap(p) ==
    /\ pc[p] = "w_wrap"
    /\ wp' = IF wp = buffersize THEN 0 ELSE wp
    /\ mutex' = None
    /\ Goto(p, "w_wake")
    /\ UNCHANGED <<scull_p_buffer, buffer, buffersize, rp, mem, count, inq, outq, async_queue, xfer, sig>>

\* Mistake: a write wakes nobody.
WriteWakeNobody(p) ==
    /\ pc[p] = "w_wake"
    /\ Goto(p, "w_sigio")
    /\ UNCHANGED <<scull_p_buffer, ring, count, mutex, inq, outq, async_queue, xfer, sig>>

WriteWake(p) ==
    /\ pc[p] = "w_wake"
    /\ inq' = {}
    /\ Goto(p, "w_sigio")
    /\ UNCHANGED <<scull_p_buffer, ring, count, mutex, outq, async_queue, xfer, sig>>

\* kill_fasync: SIGIO to every asynchronous reader.  One that is not in a call
\* handles the signal at once.
WriteSigio(p) ==
    /\ pc[p] = "w_sigio"
    /\ Goto(p, "idle")
    /\ xfer' = [xfer EXCEPT ![p] = <<>>]
    /\ sig' = (sig \cup {q \in async_queue : InCall(q)}) \ {p}
    /\ UNCHANGED <<scull_p_buffer, ring, count, mutex, inq, outq, async_queue>>

Write(p) ==
    \/ WriteStart(p)
    \/ Lock(p, "w_lock", "w_test")
    \/ LockInterrupted(p, "w_lock", "idle")
    \/ WriteFull(p)
    \/ WritePrepare(p)
    \/ WriteCheck(p)
    \/ WriteWoken(p)
    \/ WriteFinish(p)
    \/ WriteCopy(p)
    \/ WriteFault(p)
    \/ WriteWrap(p)
    \/ WriteWake(p)
    \/ WriteSigio(p)

-----------------------------------------------------------------------------
(* scull_p_poll, called by a select that waits for POLLIN on a file open   *)
(* for reading and for POLLOUT on one open for writing.                    *)

\* scull_p_poll's mask has an event that p waits for.
Polled(p) ==
    \/ p \in Readers /\ rp # wp
    \/ p \in Writers /\ spacefree # 0

PollStart(p) ==
    /\ pc[p] = "idle"
    /\ Goto(p, "p_lock")
    /\ UNCHANGED <<scull_p_buffer, ring, count, mutex, inq, outq, async_queue, xfer, sig>>

\* poll_wait joins both queues; select returns on an event or a signal, and
\* sleeps otherwise.
PollTest(p) ==
    /\ pc[p] = "p_test"
    /\ mutex' = None
    /\ IF Polled(p) \/ p \in sig
       THEN /\ inq' = inq \ {p} /\ outq' = outq \ {p}
            /\ Return(p, "idle")
       ELSE /\ inq' = inq \cup {p} /\ outq' = outq \cup {p}
            /\ Goto(p, "p_sleep") /\ UNCHANGED <<xfer, sig>>
    /\ UNCHANGED <<scull_p_buffer, ring, count, async_queue>>

\* Either queue's wake-up, or a signal, makes select poll again.
PollWoken(p) ==
    /\ pc[p] = "p_sleep"
    /\ p \notin inq \/ p \notin outq \/ p \in sig
    /\ Goto(p, "p_lock")
    /\ UNCHANGED <<scull_p_buffer, ring, count, mutex, inq, outq, async_queue, xfer, sig>>

Poll(p) ==
    \/ PollStart(p)
    \/ Lock(p, "p_lock", "p_test")
    \/ PollTest(p)
    \/ PollWoken(p)

-----------------------------------------------------------------------------
(* The operations that take no lock, and the environment.                  *)

\* scull_p_fasync, from fcntl(F_SETFL) with or without FASYNC.
Fasync(p) ==
    /\ pc[p] = "idle"
    /\ async_queue' \in {async_queue \cup {p}, async_queue \ {p}}
    /\ UNCHANGED <<scull_p_buffer, ring, count, mutex, inq, outq, pc, xfer, sig>>

\* scull_ioctl, SCULL_P_IOCTSIZE.
Ioctsize(n) ==
    /\ scull_p_buffer' = n
    /\ UNCHANGED <<ring, count, mutex, inq, outq, async_queue, pc, xfer, sig>>

\* A signal is sent to a process that is in a system call.
Signal(p) ==
    /\ InCall(p) /\ p \notin sig
    /\ sig' = sig \cup {p}
    /\ UNCHANGED <<scull_p_buffer, ring, count, mutex, inq, outq, async_queue, pc, xfer>>

Next ==
    \/ \E p \in Procs :
          Open(p) \/ Release(p) \/ Read(p) \/ Write(p) \/ Poll(p) \/ Fasync(p) \/ Signal(p)
    \/ \E n \in NewSizes : Ioctsize(n)

Spec == Init /\ [][Next]_vars

-----------------------------------------------------------------------------
(* Fairness: the scheduler runs every process that can run, and a process  *)
(* waiting for the mutex gets it if it is released again and again (struct *)
(* mutex serves its waiters in order).  Nothing is assumed of the users: a *)
(* call need not be made, and no signal need come.                         *)

\* The steps p takes by itself inside a call, other than taking the mutex.
Step(p) ==
    \/ OpenAlloc(p) \/ OpenNoMemory(p) \/ OpenSize(p) \/ OpenWp(p) \/ OpenRp(p) \/ ReleasePut(p)
    \/ ReadEmpty(p) \/ ReadPrepare(p) \/ ReadReady(p) \/ ReadSleep(p) \/ ReadWoken(p)
    \/ ReadCopy(p) \/ ReadFault(p) \/ ReadWrap(p) \/ ReadWake(p)
    \/ WriteFull(p) \/ WritePrepare(p) \/ WriteCheck(p) \/ WriteWoken(p) \/ WriteFinish(p)
    \/ WriteCopy(p) \/ WriteFault(p) \/ WriteWrap(p) \/ WriteWake(p) \/ WriteSigio(p)
    \/ PollTest(p) \/ PollWoken(p)

TakeMutex(p) ==
    \/ Lock(p, "o_lock", "o_alloc") \/ Lock(p, "c_lock", "c_put")
    \/ Lock(p, "r_lock", "r_test") \/ Lock(p, "w_lock", "w_test")
    \/ Lock(p, "p_lock", "p_test")

Fairness == \A p \in Procs : WF_vars(Step(p)) /\ SF_vars(TakeMutex(p))

-----------------------------------------------------------------------------
(* Properties.                                                             *)

\* The mutex is held by the process that is between a lock and an unlock.
MutexInv == \A p \in Procs : (mutex = p) <=> (pc[p] \in HoldPC)

\* The variables keep their types, and the owner of the mutex is where it says.
TypeOK ==
    /\ scull_p_buffer \in Sizes
    /\ buffer \in Sizes \cup {0}
    /\ buffersize \in Sizes \cup {0}
    /\ rp \in Nat /\ wp \in Nat
    /\ mem \in [Slots -> Bytes \cup {Junk}]
    /\ nreaders \in Int /\ nwriters \in Int
    /\ mutex \in Procs \cup {None}
    /\ inq \subseteq Procs /\ outq \subseteq Procs /\ async_queue \subseteq Procs
    /\ pc \in [Procs -> PC]
    /\ xfer \in [Procs -> Seq(Bytes \cup {Junk})]
    /\ sig \subseteq Procs
    /\ MutexInv

\* nreaders and nwriters count the open files exactly, and the buffer is
\* allocated exactly while a file is open: no call ever finds dev->buffer NULL,
\* and the last release leaks nothing (scull_p_open against scull_p_release).
BufferLifetime ==
    mutex = None =>
      /\ nreaders = Cardinality(Opened \cap Readers)
      /\ nwriters = Cardinality(Opened \cap Writers)
      /\ (buffer = 0) <=> (Opened = {})

\* dev->buffer and dev->end are the "begin of buf, end of buf" (line 36): the
\* end is never beyond the memory that was allocated.
EndInBuffer == buffer # 0 => buffersize <= buffer

\* While the mutex is free the two pointers are inside the ring, and one byte
\* of it always stays free, so that a full ring is never taken for an empty one.
\* Together with EndInBuffer: no copy of scull_p_read or scull_p_write leaves
\* the buffer.
RingBounds ==
    mutex = None /\ Opened # {} =>
      /\ rp < buffersize /\ wp < buffersize
      /\ spacefree \in 0..buffersize - 1

\* The strengthening of RingBounds that every step preserves.  Only the process
\* that is about to wrap a pointer leaves it at dev->end, and a writer does not
\* reach the end while rp is at the beginning: that would look like an empty
\* ring.  While an open resets the pointers they may be out of the new ring.
RingInv ==
    /\ \A p \in Procs : pc[p] \notin {"closed", "o_lock", "o_alloc", "o_size"} => buffersize # 0
    /\ \A p \in Procs : pc[p] = "o_rp" => wp = 0
    /\ buffersize # 0 /\ ~Resetting =>
         /\ rp <= buffersize /\ wp <= buffersize
         /\ rp = buffersize => \E p \in Procs : pc[p] = "r_wrap"
         /\ wp = buffersize => rp # 0 /\ \E p \in Procs : pc[p] = "w_wrap"

\* A process asleep until there is data, or until there is space: in read,
\* in write or in select, on the queues and not yet woken.
ReaderAsleep(p) ==
    \/ pc[p] = "r_sleep" /\ p \in inq
    \/ pc[p] = "p_sleep" /\ p \in Readers /\ p \in inq /\ p \in outq
WriterAsleep(p) ==
    \/ pc[p] = "w_sleep" /\ p \in outq
    \/ pc[p] = "p_sleep" /\ p \in Writers /\ p \in inq /\ p \in outq

\* No lost wake-up for readers: with the mutex free, a reader sleeps on a
\* non-empty pipe only while a writer is about to wake it (line 226).
NoLostReader ==
    mutex = None /\ rp # wp =>
      \A p \in Procs : ReaderAsleep(p) => \E q \in Procs : pc[q] = "w_wake"

\* No lost wake-up for writers, "Wait for space for writing" (line 161): with
\* the mutex free, a writer sleeps on a pipe with space only while a reader is
\* about to wake it (line 156).
NoLostWriter ==
    mutex = None /\ buffer # 0 /\ spacefree # 0 =>
      \A p \in Procs : WriterAsleep(p) => \E q \in Procs : pc[q] = "r_wake"

\* The same for scull_getwritespace alone.
WriteWaitsForSpace ==
    mutex = None /\ buffer # 0 /\ spacefree # 0 =>
      \A p \in Procs : pc[p] = "w_sleep" /\ p \in outq => \E q \in Procs : pc[q] = "r_wake"

\* Only open files are on the asynchronous queue: "remove this filp from the
\* asynchronously notified filp's" (line 99).
AsyncOpen == async_queue \subseteq Opened

\* The abstraction function: the unread bytes, oldest first.  A pointer that
\* has reached dev->end and is about to wrap counts as wrapped; an open that
\* has begun to reset the pointers has emptied the ring.
wrapped(i) == IF i >= buffersize THEN i - buffersize ELSE i
Stored ==
    IF wrapped(wp) >= wrapped(rp) THEN wrapped(wp) - wrapped(rp)
    ELSE wrapped(wp) - wrapped(rp) + buffersize
Unread ==
    IF Resetting THEN <<>>
    ELSE [i \in 1..Stored |-> mem[wrapped(wrapped(rp) + i - 1)]]

\* Reads deliver the bytes of the writes, in order, each once, none of them
\* made up; a failed call moves nothing; only an open drops bytes.
Fifo == INSTANCE PipeFifo
          WITH queue <- Unread, Capacity <- Cardinality(Slots) - 1,
               opening <- {p \in Procs : pc[p] \in OpenPC}
FifoRefined == Fifo!FifoSpec

\* Liveness: nobody stays asleep for ever although what it waits for is there.
NoSleepWhenReady ==
    \A p \in Procs :
      []<>~(\/ ReaderAsleep(p) /\ rp # wp
            \/ WriterAsleep(p) /\ spacefree # 0)

\* Liveness: with one reader and one writer, a read and a write that are both in
\* progress do not wait for each other for ever.
ReadMeetsWrite ==
    \A r \in Readers, w \in Writers :
      (pc[r] \in ReadPC /\ pc[w] \in WritePC)
        ~> (pc[r] \notin ReadPC \/ pc[w] \notin WritePC)
=============================================================================
