--------------------------------- MODULE Ldt --------------------------------
(***************************************************************************)
(* The Linux driver template, src/ldt/ldt.c (misc_loop_drv.c is the same   *)
(* machine over an emulated port): writers fill out_fifo, a tasklet sends  *)
(* its bytes to the UART, or in loopback mode back to the driver when      *)
(* there is none, and what is received goes into in_fifo for the readers.  *)
(* The fifos have one producer and one consumer at a time: the mutexes and *)
(* the tasklet see to that, and publish an insertion or a removal in one   *)
(* step.  Outside loopback mode the port is wired to echo what it sends.   *)
(* Bytes are numbered in the order they are written.                       *)
(***************************************************************************)
EXTENDS Integers, Sequences

CONSTANTS
    LdtWriters, LdtReaders,
    FIFO_SIZE,
    LdtUart,        \* whether a UART was detected, a set of BOOLEANs
    LdtLoopback,    \* the module's parameter loopback, a set of BOOLEANs
    LdtMax          \* bound: bytes written in all

ASSUME LdtAssumption ==
    /\ FIFO_SIZE \in Nat \ {0} /\ LdtMax \in Nat
    /\ LdtUart \subseteq BOOLEAN /\ LdtLoopback \subseteq BOOLEAN
    /\ LdtWriters \cap LdtReaders = {}

VARIABLES
    out_fifo, in_fifo,
    uart_detected, loopback,
    thr, rbr,               \* the UART's transmit and receive registers; 0: empty
    ldt_irq, ldt_tasklet,   \* raised, scheduled
    tasklet_pc, data_out,   \* the tasklet: label, byte in hand or 0
    lpc, write_lock, read_lock,     \* label of each process, holders of the mutexes
    wrote, got, read, lost  \* bytes written, last byte read, how many read, how many lost

fifos == <<out_fifo, in_fifo>>
uart == <<uart_detected, loopback, thr, rbr, ldt_irq>>
locks == <<write_lock, read_lock>>
counts == <<wrote, got, read, lost>>
ldtVars == <<fifos, uart, ldt_tasklet, tasklet_pc, data_out, lpc, locks, counts>>

LdtProcs == LdtWriters \cup LdtReaders
Lesser(a, b) == IF a < b THEN a ELSE b

LdtInit ==
    /\ out_fifo = <<>> /\ in_fifo = <<>>
    /\ uart_detected \in LdtUart /\ loopback \in LdtLoopback /\ thr = 0 /\ rbr = 0 /\ ldt_irq = FALSE
    /\ ldt_tasklet = FALSE /\ tasklet_pc = "idle" /\ data_out = 0
    /\ lpc = [p \in LdtProcs |-> "user"]
    /\ write_lock = "none" /\ read_lock = "none"
    /\ wrote = 0 /\ got = 0 /\ read = 0 /\ lost = 0

LGoto(p, l) == lpc' = [lpc EXCEPT ![p] = l]
\* wake_up_interruptible on the queue of the processes in S
Woken(S) == [p \in LdtProcs |-> IF p \in S /\ lpc[p] = "sleep" THEN "test" ELSE lpc[p]]

-----------------------------------------------------------------------------
\* The test of ldt_write and ldt_read.  A non-blocking call gives up; a blocking one
\* sleeps and, when woken, tests again; a signal ends the wait, for the condition or
\* then for the mutex, with -EINTR.
LdtCall(p, blocked) ==
    /\ \/ lpc[p] \in {"user", "test"} /\ LGoto(p, IF blocked THEN "sleep" ELSE "lock")
       \/ lpc[p] \in {"sleep", "lock"} /\ LGoto(p, "user")
    /\ UNCHANGED <<fifos, uart, ldt_tasklet, tasklet_pc, data_out, locks, counts>>

LdtTest(p) ==
    \/ p \in LdtWriters /\ wrote < LdtMax /\ LdtCall(p, Len(out_fifo) = FIFO_SIZE)
    \/ p \in LdtReaders /\ LdtCall(p, in_fifo = <<>>)

LdtLock(p) ==
    /\ lpc[p] = "lock"
    /\ \/ p \in LdtWriters /\ write_lock = "none" /\ write_lock' = p /\ UNCHANGED read_lock
       \/ p \in LdtReaders /\ read_lock = "none" /\ read_lock' = p /\ UNCHANGED write_lock
    /\ LGoto(p, "copy")
    /\ UNCHANGED <<fifos, uart, ldt_tasklet, tasklet_pc, data_out, counts>>

\* kfifo_from_user: as much as there is room for, less if the copy faults.
LdtWriteCopy(p) ==
    /\ p \in LdtWriters /\ lpc[p] = "copy"
    /\ \E n \in 0..Lesser(LdtMax - wrote, FIFO_SIZE - Len(out_fifo)) :
          /\ out_fifo' = out_fifo \o [i \in 1..n |-> wrote + i]
          /\ wrote' = wrote + n
    /\ write_lock' = "none"
    /\ LGoto(p, "schedule")
    /\ UNCHANGED <<in_fifo, uart, ldt_tasklet, tasklet_pc, data_out, read_lock, got, read, lost>>

LdtWriteSchedule(p) ==
    /\ lpc[p] = "schedule"
    /\ ldt_tasklet' = TRUE
    /\ LGoto(p, "user")
    /\ UNCHANGED <<fifos, uart, tasklet_pc, data_out, locks, counts>>

\* Mistake: the bytes are copied and stay in the fifo.
LdtReadPeek(p) ==
    /\ p \in LdtReaders /\ lpc[p] = "copy"
    /\ \E n \in 0..Len(in_fifo) :
          /\ got' = IF n = 0 THEN got ELSE in_fifo[n]
          /\ read' = read + n
    /\ read_lock' = "none"
    /\ LGoto(p, "user")
    /\ UNCHANGED <<fifos, uart, ldt_tasklet, tasklet_pc, data_out, write_lock, wrote, lost>>

\* kfifo_to_user
LdtReadCopy(p) ==
    /\ p \in LdtReaders /\ lpc[p] = "copy"
    /\ \E n \in 0..Len(in_fifo) :
          /\ in_fifo' = SubSeq(in_fifo, n + 1, Len(in_fifo))
          /\ got' = IF n = 0 THEN got ELSE in_fifo[n]
          /\ read' = read + n
    /\ read_lock' = "none"
    /\ LGoto(p, "user")
    /\ UNCHANGED <<out_fifo, uart, ldt_tasklet, tasklet_pc, data_out, write_lock, wrote, lost>>

-----------------------------------------------------------------------------
TaskletRun ==
    /\ ldt_tasklet /\ tasklet_pc = "idle"
    /\ ldt_tasklet' = FALSE /\ tasklet_pc' = "out"
    /\ UNCHANGED <<fifos, uart, data_out, lpc, locks, counts>>

\* Mistake: a writer is woken only when the fifo was full to the last byte before.
TaskletOutQuiet ==
    /\ tasklet_pc = "out"
    /\ IF out_fifo # <<>> /\ (uart_detected => thr = 0)
       THEN /\ data_out' = Head(out_fifo) /\ out_fifo' = Tail(out_fifo)
            /\ lpc' = IF Len(out_fifo) = 1 THEN Woken(LdtWriters) ELSE lpc
            /\ tasklet_pc' = "send"
       ELSE /\ tasklet_pc' = "in"
            /\ UNCHANGED <<out_fifo, data_out, lpc>>
    /\ UNCHANGED <<in_fifo, uart, ldt_tasklet, locks, counts>>

\* kfifo_out_spinlocked while the UART has room, and the writers are woken
TaskletOut ==
    /\ tasklet_pc = "out"
    /\ IF out_fifo # <<>> /\ (uart_detected => thr = 0)
       THEN /\ data_out' = Head(out_fifo) /\ out_fifo' = Tail(out_fifo)
            /\ lpc' = Woken(LdtWriters)
            /\ tasklet_pc' = "send"
       ELSE /\ tasklet_pc' = "in"
            /\ UNCHANGED <<out_fifo, data_out, lpc>>
    /\ UNCHANGED <<in_fifo, uart, ldt_tasklet, locks, counts>>

\* ldt_received: a byte that finds in_fifo full is dropped.
ldt_received(b) ==
    /\ IF Len(in_fifo) < FIFO_SIZE
       THEN in_fifo' = Append(in_fifo, b) /\ UNCHANGED lost
       ELSE lost' = lost + 1 /\ UNCHANGED in_fifo
    /\ lpc' = Woken(LdtReaders)

\* ldt_send: with neither a UART nor loopback the byte goes nowhere.
TaskletSend ==
    /\ tasklet_pc = "send"
    /\ \/ uart_detected /\ thr' = data_out /\ UNCHANGED <<in_fifo, lost, lpc>>
       \/ ~uart_detected /\ loopback /\ ldt_received(data_out) /\ UNCHANGED thr
       \/ ~uart_detected /\ ~loopback /\ lost' = lost + 1 /\ UNCHANGED <<in_fifo, lpc, thr>>
    /\ data_out' = 0 /\ tasklet_pc' = "out"
    /\ UNCHANGED <<out_fifo, uart_detected, loopback, rbr, ldt_irq, ldt_tasklet, locks, wrote, got, read>>

TaskletIn ==
    /\ tasklet_pc = "in"
    /\ IF rbr = 0 THEN tasklet_pc' = "idle" /\ UNCHANGED <<rbr, in_fifo, lost, lpc>>
       ELSE ldt_received(rbr) /\ rbr' = 0 /\ UNCHANGED tasklet_pc
    /\ UNCHANGED <<out_fifo, uart_detected, loopback, thr, ldt_irq, ldt_tasklet, data_out, locks,
                   wrote, got, read>>

\* The UART receives what it sent; an overrun loses the older byte.  "UART interrupt
\* is not fired in loopback mode" (190).
UartShift ==
    /\ thr # 0
    /\ rbr' = thr /\ thr' = 0 /\ ldt_irq' = ~loopback
    /\ lost' = IF rbr = 0 THEN lost ELSE lost + 1
    /\ UNCHANGED <<fifos, uart_detected, loopback, ldt_tasklet, tasklet_pc, data_out, lpc, locks,
                   wrote, got, read>>

LdtIsr ==
    /\ ldt_irq
    /\ ldt_irq' = FALSE /\ ldt_tasklet' = TRUE
    /\ UNCHANGED <<fifos, uart_detected, loopback, thr, rbr, tasklet_pc, data_out, lpc, locks, counts>>

\* Mistake: the timer fires the tasklet when it is not needed.
LdtTimerInverted ==
    /\ ldt_tasklet' = (ldt_tasklet \/ ~loopback)
    /\ UNCHANGED <<fifos, uart, tasklet_pc, data_out, lpc, locks, counts>>

\* ldt_timer_func, every HZ / 100
LdtTimer ==
    /\ ldt_tasklet' = (ldt_tasklet \/ loopback)
    /\ UNCHANGED <<fifos, uart, tasklet_pc, data_out, lpc, locks, counts>>

Tasklet == TaskletRun \/ TaskletOut \/ TaskletSend \/ TaskletIn
LdtFile(p) == LdtLock(p) \/ LdtWriteCopy(p) \/ LdtWriteSchedule(p) \/ LdtReadCopy(p)

LdtNext ==
    \/ \E p \in LdtProcs : LdtTest(p) \/ LdtFile(p)
    \/ Tasklet \/ UartShift \/ LdtIsr \/ LdtTimer

\* The tasklet, once scheduled, the UART, its interrupt and the timer, which arms
\* itself again, go on, and so does a call that does not sleep.
LdtFairness ==
    /\ WF_ldtVars(Tasklet) /\ WF_ldtVars(UartShift) /\ WF_ldtVars(LdtIsr)
    /\ WF_ldtVars(LdtTimer)
    /\ \A p \in LdtProcs : WF_ldtVars(LdtFile(p))

-----------------------------------------------------------------------------
\* The bytes on their way, oldest first, after the last one that was read.
Pipeline ==
    LET reg(b) == IF b = 0 THEN <<>> ELSE <<b>> IN
    <<got>> \o in_fifo \o reg(rbr) \o reg(thr) \o reg(data_out) \o out_fifo

\* The variables keep their types.
LdtTypeOK ==
    /\ Len(out_fifo) \in 0..FIFO_SIZE /\ Len(in_fifo) \in 0..FIFO_SIZE
    /\ {ldt_irq, ldt_tasklet, uart_detected, loopback} \subseteq BOOLEAN
    /\ {thr, rbr, data_out, wrote, got} \subseteq 0..LdtMax
    /\ write_lock \in LdtWriters \cup {"none"} /\ read_lock \in LdtReaders \cup {"none"}

\* Bytes are read in the order they were written, none twice (113-177, 258-310), and
\* each one written is read, on its way, or was dropped at a full in_fifo, by an
\* overrun of the UART or for want of a port: none gets lost between the two fifos and
\* their users.
LdtInOrder ==
    /\ \A i \in 1..Len(Pipeline) - 1 : Pipeline[i] < Pipeline[i + 1]
    /\ wrote = read + lost + Len(Pipeline) - 1

\* Nobody sleeps on a condition that holds (270-271, 296-297): wake-ups are not lost.
LdtNoLostWakeup ==
    /\ \A p \in LdtReaders : lpc[p] = "sleep" => in_fifo = <<>>
    /\ \A p \in LdtWriters : lpc[p] = "sleep" => Len(out_fifo) = FIFO_SIZE

\* What a writer put into out_fifo is sent: the tasklet, which stops when the UART is
\* busy, is started again by the interrupt or, where there is none, by the timer
\* (189-196, 208-214).
LdtSent == (out_fifo # <<>>) ~> (out_fifo = <<>>)
=============================================================================
