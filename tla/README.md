# The drivers of ldd4 and ldt in TLA+

The repository collects kernel programming material. Its own logic worth a
model is in `src/ldd4/`, the drivers of *Linux Device Drivers* ported to later
kernels: first of all `src/ldd4/scull/`, the character devices whose locking,
waiting and sharing all the others imitate, then the drivers that meet interrupts,
timers, work items, tasklets and unplugging; and `src/ldt/`, a driver template.
`PROJECT.json` lists all the parts of the repository, with the reason where one is
left out. By far the largest part of the repository is a vendored boot loader and
examples of other books, which are no part of a system.

## Inventory

| part | state | operations | shared with | hard to test |
|---|---|---|---|---|
| scullpipe, `pipe.c` | ring buffer, `rp`, `wp`, two counts, mutex, two wait queues, async queue | open, release, read, write, poll, fasync, `SCULL_P_IOCTSIZE` | `scull_p_buffer` of all pipes | wait conditions read without the mutex; a size that changes; wrap-around; failing copies |
| bare scull, `main.c` | list of quantum sets, `size`, `quantum`, `qset`, mutex | open (trims when write-only), read, write, llseek | `scull_quantum`, `scull_qset` | parameters copied before the lock; allocation that fails half-way; boundaries |
| ioctl, `main.c` | `scull_quantum`, `scull_qset` | reset, Set, Tell, Get, Query, eXchange, sHift | all devices | no lock at all |
| scullsingle, `access.c` | an atomic counter | open, release | the bare device's methods | the decrement that is undone later; trim without the mutex |
| sculluid, scullwuid, `access.c` | count, owner, spinlock, wait queue | open (refuse or wait), release | the bare device's methods | condition read without the lock; wake-up after unlock; trim without the mutex |
| scullpriv, `access.c` | list of devices by terminal, spinlock | open, release | the bare device's methods | lookup and creation as one section; allocation under a spinlock; trim without the mutex |
| setup and cleanup, all three files | device numbers, cdevs, memory | init, cleanup | each calls the next | failure at every step |
| sculld/c/p/v | as bare scull, plus a count of mappings | as bare scull, mmap, aio | the page cache | trim refused while mapped |
| short | text ring, array of time stamps, count | read, interrupt, tasklet or work item | the hardware | no lock: each side moves its own index; a count reset in two steps; a loop that prints before it tests |
| shortprint | output ring, input ring, active flag, timer | write, read, release, interrupt, work item, timeout, unload | the printer | lost interrupts; timeout against a late interrupt; wake-ups above a threshold |
| snull | packet pool, receive queue, status, remembered skb | transmit, interrupt, NAPI poll, timeout, open, stop | its twin interface | an empty pool; dropped and simulated interrupts; status changed without the lock |
| sbull | users, media flag, timer | open, release, media change, invalidate, requests | the block layer | timer against open |
| usb-skeleton | reference count, interface data | probe, open, release, disconnect | USB core | unplugging during an open |
| ldt | two kfifos, UART, tasklet, timer | read, write, tasklet, interrupt, timer | the UART | tests before the lock; restart of a tasklet that stopped |
| tiny_tty, misc-modules | counts, timers, flags | open, close, callbacks | their subsystems | a timer that arms itself |

What makes each part correct:

- **scullpipe**: bytes come out in the order they went in, each once; no access
  leaves the buffer; the buffer lives exactly as long as a file is open; nobody
  sleeps on what is already there; no path leaves the mutex locked.
- **bare scull**: the device is one array of bytes, whatever its blocks are and
  whatever fails; every access stays inside the memory that was allocated.
- **ioctl**: an exchange returns what it replaced; the values make sense.
- **scullsingle, sculluid, scullwuid**: one user at a time, an exact count, no
  lost wake-up, and a trim that runs alone.
- **scullpriv**: a terminal has one device, its own, whoever races to create it.
- **setup**: what was acquired is released, once, whatever failed.
- **short, shortprint, ldt**: what goes in comes out, in order and once; nobody
  sleeps on what is there; what was accepted is sent although interrupts get lost.
- **snull**: buffers are neither lost nor doubled; a stopped queue is woken.
- **sbull, usb-skeleton**: the timer never meets a user; nobody holds a structure
  that was freed.

## Plan

1. Done: all of scull; `ShortPrint`, `Snull`, `Short`, `Sbull`, `UsbSkel`, `Ldt`.
2. Done: proofs of the safety invariants and action properties of the passing runs, and
   of the refinements of `PipeFifo` and `ScullFile`.
3. Liveness stays with TLC.

## Modules

| module | models |
|---|---|
| `PipeFifo` | abstract: a bounded FIFO queue shared by processes |
| `ScullPipe` | `pipe.c`, and `SCULL_P_IOCTSIZE` of `main.c` |
| `MCScullPipe` | instances: symmetry of the bytes, users that open only when it is quiet |
| `ScullPipeProofs` | proofs about types, mutex and ring, wake-ups, the asynchronous queue and the buffer's life, and that it implements `PipeFifo` |
| `ScullFile` | abstract: an array of bytes with positions |
| `ScullMem` | the bare device of `main.c` |
| `MCScullMem` | instances: seek offsets, users that change the shape only when it is quiet |
| `ScullMemProofs` | proofs about its shape and accesses, and that it implements `ScullFile` |
| `ScullIoctl` | `scull_ioctl` on the two parameters |
| `ScullSingle`, `ScullSingleProofs` | scullsingle of `access.c`, and the proofs about it |
| `ScullUid`, `ScullUidProofs` | sculluid and scullwuid of `access.c`, and the proofs about them |
| `ScullAccess`, `MCScullAccess` | scullsingle and scullwuid side by side, one of them used, and their instance |
| `ScullPriv` | scullpriv of `access.c` |
| `ScullSetup` | loading and unloading of scull |
| `Snull`, `MCSnull`, `SnullProofs` | the two interfaces of `snull.c`, the kernels and parameters they are checked with, and proofs |
| `ShortPrint` | `shortprint.c` |
| `Short` | the interrupt-driven node of `short.c` |
| `ShortProofs` | proofs about these two |
| `Sbull` | open, release and the timer of `sbull.c` |
| `UsbSkel` | the life of a device of `usb-skeleton.c` |
| `DriverLifeProofs` | proofs about these two, scullpriv and the setup |
| `Ldt` | the data path of `ldt.c` |
| `Drivers`, `MCDrivers` | shortprint, short, sbull, usb-skeleton, ldt, scullpriv and the setup of scull side by side, one of them loaded, and its instance |
| `DriversProofs` | proofs about ldt and of all seven side by side |

### How state and steps correspond to the code

Each process has at most one open file, and `pc[p]` is its place in one file
operation (`"o_..."` open, `"c_..."` close, `"r_..."` read, `"w_..."` write,
`"p_..."` poll). A step is the code between two places where another process can
see or change something. The mutex makes most of a call one step, but only for
those who take it: the wait conditions (`pipe.c` 135 and 176, `access.c` 181) and
the copies of `quantum` and `qset` (`main.c` 291 and 335) read without it, so the
stores they can see are steps of their own.

- **Pointers** of the pipe are offsets from `dev->buffer`; `dev->end` is
  `buffersize`, as both are assigned together. `buffer` is the number of bytes that
  were allocated, 0 for NULL: it is what `buffersize` is compared with.
- **Memory** of the bare device keeps its allocated lengths: an item of `data` is the
  sequence of its areas and an area the sequence of its bytes. `Fits` says that the
  place a call computes is inside them. What an access outside does is not modelled:
  the steps stop there, and the invariants report it.
- **kmalloc** may fail wherever the code tests it; fresh memory holds `Junk`.
- **copy_to_user** and **copy_from_user** may fail; the latter may have copied some
  bytes. A fault of `__get_user` stores 0.
- **Wait queues** are sets of processes; a wake-up empties the queue (all waiters are
  non-exclusive). Joining the queue, testing and sleeping are three steps.
- **Signals** come at any time to a process inside a call. They interrupt
  `mutex_lock_interruptible` and the waits, and are handled at the return to user
  mode. In `ScullMem` an interrupted lock is simply a possible outcome.
- **Select** is a process that polls, sleeps on both queues and polls again. It waits
  for input on a file open for reading and for output on a file open for writing.
- **An open of a pipe** reads `scull_p_buffer` twice, for the allocation (73) and for the
  size (79); the command that changes it takes no lock and may fall in between, so these are
  two steps (`OpenAlloc`, `OpenSize`).
- **A count of 0** is a call as any other: a read of nothing delivers nothing
  (`ReadNothing`, also the outcome of a fault), a write of nothing allocates its area and
  raises `dev->size` to a position beyond the end (376-377: `WriteNothing`, and
  `PutNothing` of `ScullFile`).
- **sculluid** is `ScullUid` with every process in `UidNonBlock`; the code is the same
  except for the error number.
- **Configuration** ioctls reach a bare device only through its next trim, so
  `ScullMem` has one action for them; `ScullIoctl` has them in detail. All scull devices
  share `scull_ioctl`, its parameters and the absence of a lock: having one of them
  exclusively protects nothing, so `ScullIoctl` knows no devices.
- **Interrupts, tasklets, work items, timers** are contexts with a label of their own.
  A critical section of a spinlock is one step; an unlocked read-modify-write is two.
- **snull** runs on a uniprocessor or a multiprocessor (`cf.smp`). All its code is
  bottom-half code: on a uniprocessor a call runs to its end before another begins,
  except that the stack may transmit from inside `netif_receive_skb` (309), while the poll
  still has the buffer (`Nests`); on a multiprocessor every step interleaves.
  `netif_rx_schedule` (406) does nothing for an interface that is down. The linked lists are sequences, and
  `bottom` remembers whether `pkt->next` was NULL, which is what
  `snull_release_buffer` asks after it has dropped the lock.
- **shortprint** has a printer that may lose interrupts (`lose`), signals that cut
  calls short (`signals`), a reader (`reads`), and a timer that either goes off only
  when nothing else is under way and has the lock at once, as a timeout much longer than a
  byte does (`calm`), or races everything. The call of `shortp_interrupt` that the handler
  makes after its unlock (398-399) is a step of its own (`ShortpTimeoutInterrupt`), in a
  calm machine too.
- **short** takes the 16 bytes of a text as one line. `overlap` says whether interrupts
  may fall into the running bottom half. One process reads.
- **ldt** numbers its bytes in the order they are written; the port is wired to echo.
  `uart_detected` and `loopback` take all four values. The theorems are about any number of
  readers; the run has one, as two exceed a reasonable time.
- **usb-skeleton** opens under the big kernel lock, which the code relies on (310).
- **Drivers** is a sum and not a product: the drivers share nothing, so one of them is
  loaded and the others do not move.

Left out: debug output, `/proc` files, the decoding of ioctl numbers, llseek on
pipes (refused by the kernel), 64-bit positions (the models stay far below any
overflow), and a `quantum` or `qset` of 0 or less in `ScullMem` (`scull_ioctl` accepts
them, and `ScullIoctl` has them; the division they lead to is not modelled). Of the
other drivers: poll, mmap, port and device registration, statistics, packet headers,
geometry, and the bulk transfers of usb-skeleton.

## Runs

| run | instance | checks |
|---|---|---|
| `pipe_fifo` | a reader and a read-write process that may set `O_NONBLOCK`, ring of 3 bytes that may shrink to 2, two byte values, up to 2 bytes a call; 1 166 000 states | `TypeOK`, `RingBounds`, `BufferLifetime`, `NoLostReader`, and that it implements `PipeFifo` |
| `pipe_live` | a read-write process and a writer, ring of 3, fair, opens that do not overlap other calls | `NoLostWriter`, `NoSleepWhenReady`, `ReadMeetsWrite` |
| `pipe_stranded` | opens at any time | **violated**: `WriteWaitsForSpace` |
| `pipe_resize` | a size that grows from 2 to 3 | **violated**: `EndInBuffer` |
| `mem_file` | two processes (one truncates), sets of 2 areas of 1 byte that may become 2x2, 1x1 or 1 area of 2 bytes, positions up to 3, counts from 0; truncation at any time, reshaping when it is quiet; 565 000 states | `SetsHaveShape`, `AccessInQuantum`, and that it implements `ScullFile` |
| `mem_stale` | reshaping at any time | **violated**: `AccessInQuantum` |
| `access` | scullsingle: three processes; scullwuid: four processes, of two users, with an effective uid and a capability, fair; 18 000 states | `Accounting`, `SingleOpen`, `OneUser`, `NoLostOpener`, `OpenerServed` |
| `uid_trim` | the same, non-blocking | **violated**: `TrimAlone` |
| `ioctl_shift` | two administrators | **violated**: `SwitchAtomic` |
| `access_cleanup` | scull loaded, with any step failing | **violated**: `CleanupOwned` |
| `snull` | two interfaces with pools of 2; uniprocessor: 4 packets, an interface brought down once, `lockup` 0 and 2, with and without NAPI; multiprocessor: 4 packets, or 2 with NAPI; 135 000 states | `Conserved`, `NoOops`, `SkbOnce`, `HomeAgain`, `Moving` |
| `drivers` | seven drivers, 326 000 states: see below | `DriversTypeOK` (all types), `NoLostWakeup` (short, shortprint and ldt), and those below |

The instances of `drivers`:

| driver | instance | checks |
|---|---|---|
| shortprint | two writers, ring of 3 bytes, writes of 1 and 4 bytes; four configurations of losses, signals, reader and timer with up to 3 bytes | `RingContents`, `ReleaseDrained`, `TimerDiscipline`, `AllPrinted`, `WriterWoken` |
| ldt | two writers, a reader, fifos of 2, 3 bytes, with and without UART and loopback | `LdtInOrder`, `LdtSent` |
| sbull | 3 users | `SbullSane`, `SbullFresh` |
| usb-skeleton | two processes, plugged in twice | `SkelNoStale`, `SkelCountExact` |
| short | ring of 4 lines, array of 3, 4 interrupts; direct, and with a bottom half that interrupts may fall into or not | `ShortRing`, `ShortReported` |
| scullpriv | three processes on any of two terminals or none, two devices | `PrivOwnDevice` |
| scull setup | three groups of two devices | `SetupExact` |

**Bounds.** Three slots are the smallest ring in which the unread bytes can wrap
and be partly read; two byte values tell order from content, and are
interchangeable (`SYMMETRY`), as the driver never looks at them. Calls of up to two
bytes give partial reads and writes. A read-write process is what makes the two
counts differ from the number of files. In `mem_file` the positions reach the
second list item of sets of 2 bytes, and the third of sets of one, so reads and
writes cross areas, arrays and items; one byte value and `Junk` tell a byte that
was stored from one that was not. The behaviours per process are finite state, so
no bound on the number of calls is needed in these runs. The other drivers count what
passes through them, and the counts are bounded by constants: 3 bytes go once around a
ring of 3 and overflow a fifo of 2, 4 interrupts go around an array of 3, 4 packets
empty a pool of 2, with a lockup at every second, and three processes suffice for two
that race on one terminal beside one on another.

**Quiet users.** Two passing runs restrict the users, because the code is wrong
without it, as the runs marked *violated* show: an open of a pipe while a writer
sleeps strands it (`pipe_stranded`), and a truncation that changes the shape
between the copy of the parameters and the lock makes a call use a stale shape
(`mem_stale`). `pipe_live` and `mem_file` show that these are the only ways. The
restriction is on the environment (when an open or a call may begin), never on a
step of the driver; `mem_file` still truncates at any time when the shape stays
the same.

**Fairness.** The scheduler runs every process that can run: weak fairness of each
process's own steps. A process waiting for a mutex gets it if it is released again
and again, because `struct mutex` queues its waiters: strong fairness of taking it.
Nothing is assumed of the users: no call need be made, no file be closed and no
signal be sent. In `snull` the softirqs and the transmit watchdog run (weak fairness of
each context and of the timeout); in shortprint the work queue, a pending timer and the
printer go on; in ldt a scheduled tasklet, the UART, its interrupt and the periodic
timer, which arms itself again. `short`, `sbull` and the others need none.

**Conditions.** Some properties hold only in a part of the configurations, and say so:
`NoOops`, `SkbOnce` and `HomeAgain` on a uniprocessor where, with NAPI, no interface was
brought down (`Steady`), `SkbOnce` without simulated lockups, `TimerDiscipline` with a timer that does not race the interrupt it stands in
for, and `ShortReported` promises a single report when no interrupt falls into the
bottom half, and a complete one until its loop has passed the head. TLC finds counterexamples to each
without its condition; what they show is listed next.

## Disagreements between the code and what it says

Each is a run that TLC finds violated; `PROJECT.json` quotes the line.

1. An open of a pipe that is full empties it and wakes nobody (`pipe_stranded`).
2. An open after a larger `SCULL_P_IOCTSIZE` puts `end` beyond the buffer
   (`pipe_resize`).
3. `scull_write` and `scull_read` compute with a quantum read before the lock
   (`mem_stale`).
4. `scull_trim` runs without the mutex beside reads and writes (`uid_trim`).
5. "atomically" switched parameters can lose an update (`ioctl_shift`).
6. `scull_access_cleanup`, "required to never fail, even if nothing was initialized first",
   deletes cdevs and releases numbers that were never set up if `scull_access_init` or a step
   before it failed, and drops twice the reference of a cdev that could not be added
   (`access_cleanup`). `SetupExact` shows that the harm is confined to this group.

## What the conditions hide

Behaviours of the code that the models have, and that the conditions of the
properties above exclude:

- **snull, multiprocessor**: `priv->status |= ...` (488, 495) is done without the lock that
  `snull_interrupt` takes; updates get lost, an skb is freed twice or never, and a
  stopped queue woken by the timeout can find the pool empty (139-140).
  With NAPI, a packet queued between the test of the queue (320) and the store that turns
  receive interrupts on again (322) raises none and stays there until the next one.
- **snull, uniprocessor with `lockup`**: the receive interrupt of the twin's next packet also
  sees the transmit bit whose interrupt was dropped and frees the skb; the timeout
  frees it again (544-545).
- **snull with NAPI and an interface brought down**: the interrupt of a packet sent to it turns
  its receive interrupts off (405) and schedules no poll (406), and `snull_open` does not turn
  them on again. The twin's buffers stay in the queue; when the pool is empty the queue stops,
  the watchdog's simulated interrupt frees the last skb again (544-545) and wakes the queue,
  and the next transmission finds no buffer (139-140).
- **shortprint**: a timeout that races the interrupt calls `shortp_interrupt` after it has
  dropped the lock, and `add_timer` can then meet a pending timer. A close cut short by
  a signal lets the module go while the timer is pending but output is not marked active.
- **short**: the bottom half's loop (387-393) prints at least one stamp. When an interrupt
  fell into the running bottom half, its stamp is printed by that run and the next one,
  queued by it, finds tail at head: it prints a stale stamp, runs through the whole array
  until it meets the head again, and skips a stamp stored behind it meanwhile. The count of line 370
  misses an interrupt that falls between 370 and 371.
- **scullpriv**: an open for writing trims the device without its mutex (294), as in `uid_trim`.
- **ldt**: a full `in_fifo` drops bytes (115); a read that another reader overtakes between
  the test and the mutex returns 0.

## Proofs

The theorems hold for every value of the constants that satisfies the assumptions beside
their declarations: processes are a finite set where they are counted, sizes, quanta and
quantum sets are positive, the sizes of a pipe's buffer are finitely many (they are C ints), rings have two places at least, the bounds TLC needs (packets,
bytes, interrupts, pluggings) are any numbers. Nothing else is assumed. Every proof rests
on an inductive invariant, which TLC checked on the runs' instances first.

**The pipe** (`ScullPipeProofs`). *`PipeTypeOK`, `PipeRingBounds`*: the invariant is
`TypeOK /\ RingInv`. `TypeOK` contains who owns the mutex; without it two processes
could be between the advance of a pointer and its wrap. `RingInv` says what the
pointers are while somebody is in the middle of a change: a pointer may be *at*
`dev->end` only while its owner is about to wrap it, a writer never gets there
while `rp` is at the beginning (the ring would look empty), and while an open
resets the pointers they may be outside a ring that has just become smaller.
`SpaceFree` removes the remainder from the code's `spacefree`, and `CountBounds`
bounds what a call moves; then each of the seven actions that store a pointer has
its case, and all others are quiet (`QuietSteps`).
*`PipeNoLostReader`, `PipeAsyncOpen`, `PipeBufferLifetime`*:
a reader that sleeps on a non-empty ring implies that an open is resetting the
pointers or that a writer has advanced `wp` and not yet called the wake-up
(`WakeInv`). The case that needs the ring is the wrap of `rp`, which must not make
two equal pointers different. The lifetime of the buffer rests on the counts being
exact in every state, and on the buffer being there while an open is half done
(`UseInv`); a file leaves the asynchronous queue when its release begins,
which is before it stops counting as open.
*`PipeNoLostWriter`*, of `QuietSpec`, as with opens at any time it fails (`pipe_stranded`): while
somebody is in an open nobody is in another call, so a sleeping writer meets no reset, and
space implies a reader that has advanced `rp` and not yet called the wake-up (`SpaceInv`). The
case that needs the ring is the wrap of `wp`, which must not change the space.
*`PipeFifoRefined`*: `View` is the abstraction function `Unread` with memory, pointers and size
as parameters. `ViewTake` says that advancing `rp` by what `readCount` allows splits the
view into what the call delivers and the rest, across the end of the buffer or not; `ViewPut`
that bytes stored from `wp` on do not disturb the view (the case of a write that fails halfway)
and are appended to it once `wp` moves. An open drops the queue when it sets the size,
wraps and all steps that store no pointer keep it (`UnreadKept`), and a call has moved bytes
only between its copy and its return (`XferInv`). There is room in the abstract queue because
the free space of the ring is what its size leaves (`StoredFits`, `RoomInQueue`).

**The bare device** (`ScullMemProofs`), of `QuietSpec`, as without it the properties fail
(`mem_stale`). *`MemShape`, `MemAccess`*: `MemInv` says that whoever is in the critical
section holds the mutex, that between the stores of `scull_trim` the device is already
empty (`Trimmed`), that no call is under way while an open is about to change the shape
(`Reserved`), hence that what the calls copied without the mutex is still true when they
have it (`LocalsCurrent`), and that list, arrays and areas have the lengths that `quantum`
and `qset` say (`Shape`). *`MemFile`* proves the refinement of `ScullFile`, step by step:
`byteAt` reads the file from the quantum sets, `Address` and `AddressUnique` say that item,
area and offset and the position determine each other for any quantum and qset, `SameArea` and
`AreaDistance` that a call limited to the rest of its area moves within it. So a write
changes the bytes of its own range and no other; reads, seeks, calls that move nothing, failed
allocations and failed copies are the abstract step they should be, or change nothing.

**scullsingle** (`ScullSingleProofs`): the counter accounts
for the holder and for the openers that were refused; a successful decrement finds it
at 1, hence finds no holder.

**sculluid, scullwuid** (`ScullUidProofs`): `UidOneUser` is inductive with the types, as the
test and the increment are one critical section. `UidNoLostOpener` needs `TestedWaiters`: a
waiter that has seen a count other than 0 and is about to test the owner, both without the
lock, is still on the queue, and if the count has become 0 meanwhile the release that
brought it there has its wake-up before it.

**sbull, usb-skeleton, scullpriv, setup** (`DriverLifeProofs`). In *sbull* the timer is not off
only while there are no users and no open is between its
`del_timer_sync` and its count (`TimerOwned`): this is what makes the check in
`sbull_invalidate` (271) and `add_timer` in `sbull_release` safe, and it needs the block
layer to serialise the open and close of a device. `RemovalNoted` carries the fact that
an invalidation sets the media flag until the next first open, from which the action
property follows. In *usb-skeleton* `SkelCountExact` is inductive together
with `SkelShape`: an open that has looked the structure up and not yet taken its
reference holds the big kernel lock, so the interface still refers to what it found.
Each action then changes the set of referring files by one element or none. That nobody refers
to a freed structure follows from the exact count. In *scullpriv* a terminal that was
given a device is in the list, so whoever finds none under the lock allocates for a terminal
without one (`ListExact`), and no two terminals share (`HomesApart`). In the *setup* the
memory of a group is the witness that its numbers and cdevs are held (`GroupHeld`), which is
what the two cleanups test; only the access devices have no such witness.

**short, shortprint** (`ShortProofs`). *short*: as long as nothing was overwritten or printed
again the slots between tail and head are those still to be printed, where equal indices mean
none or all of them (`PendingExact`); when no interrupt falls into the bottom half this
holds of every batch, and the counts add up (`BatchFresh`). *shortprint*: the ring holds the
next bytes in order behind the tail (`RingExact`); a writer has the mutex and the space it
found is still free when it copies, since the worker only frees more (`WriterHolds`); in a
calm machine the next step of the output is exactly one of printer, interrupt, queued and
running work and the timeout's own unlocked call of the handler (`OneStepAhead`), from which
the discipline of the timer follows.

**ldt and the machine** (`DriversProofs`). A byte on its way through fifo, tasklet, transmit
and receive register and fifo is numbered higher than all in front of it, part by part
(`PartsInOrder`), and all are accounted for (`PartsCounted`). The theorems about the seven
drivers are stated of `DriversSpec`: a step of the machine is a step of one driver and
stutters for the others (`DriverSteps`), so the seven invariants hold together.

**snull** (`SnullProofs`). *`SnullConserved`*, on any kernel: the lists and hands are balanced
(`Buffers`), where `Handling` says at which labels a context has a buffer out. Every action
is one of four moves (keep, take the head of a list, put in front of a list, let go of a buffer
that is back), and each move keeps the balance. *`SnullNoOops`, `SnullHomeAgain`*, in a
`Steady` machine, where with NAPI every interface is up (`PollUp`), so an interrupt
that turns receive interrupts off does schedule a poll: one call runs at a time, or a
transmission inside a poll that is delivering and that keeps its buffer in hand, so the
invariant `Uni` is what the running context sees of it (`TxView`, `PollView`). A queue that is not stopped has a buffer, and so has one that
is about to be woken (`PoolReady`); a queued packet is about to be announced or its
interface is going to be polled (`Announced`), and receive interrupts are off only until then
(`IntsOff`). Hence when the watchdog or ifconfig runs every pool is full, and starting the
queue is safe. *`SnullSkbOnce`*, without lockups: a queue is stopped only while its pool is
empty or its waker is under way (`StoppedEmpty`), so the watchdog never acts; then the skb is
held, and the transmit bit set, exactly during the transmission (`SkbHeld`).

**Only model-checked**: all liveness properties (`NoSleepWhenReady`, `ReadMeetsWrite`,
`OpenerServed`, `Moving`, `AllPrinted`, `WriterWoken`, `LdtSent`), which need fairness and
`ENABLED` and are outside the prover's reach.

## Not modelled

- **tiny_tty, tiny_serial**: the timer is allocated with `kmalloc` and armed without having
  been initialised (`tiny_tty.c` 128-138), so what follows the first open depends on the
  contents of fresh memory.
- **sculld, scullc, scullp, scullv**: copies of the bare device over other allocators, with
  mmap handled by the memory manager.
- **misc-modules, misc-progs, lddbus, pci, simple, skull**: demonstrations of one kernel call
  each, or registration with the kernel's driver core.
- **bbb-sysplay** (a vendored boot loader and board exercises), the exercises of other books,
  the language examples and the books.
