----------------------------- MODULE ShortPrint -----------------------------
(***************************************************************************)
(* The parallel-port printer driver, src/ldd4/shortprint/shortprint.c.     *)
(* Writers fill a ring of PageSize bytes under a mutex; a work item writes *)
(* one byte at a time and is queued again by the printer's interrupt, or   *)
(* by a timer when the interrupt was lost.  A critical section of          *)
(* shortp_out_lock is one step.                                            *)
(*                                                                         *)
(* Bytes are numbered in the order they are copied into the ring.  A       *)
(* record of the read side (a time stamp) is one unit of its ring, which   *)
(* has Records of them.  The two reads of the tail in shortp_out_space are *)
(* one step: a tail that wraps between them gives a space <= 0, on which   *)
(* the writer tests again.                                                 *)
(***************************************************************************)
EXTENDS Integers

CONSTANTS
    ShortpProcs,        \* the processes that write
    PageSize, Records,
    Counts,             \* the sizes of a write
    ShortpConfigs       \* what may happen: interrupts get lost (lose), processes get
                        \* signals (signals), somebody reads (reads), and the timer goes
                        \* off only when nothing else is under way and then has the lock
                        \* at once (calm); the bound on the bytes written (maxBytes)

\* Mistake: more than the whole ring has to be free.
MinSpaceWhole == PageSize

SP_MIN_SPACE == PageSize \div 2

ASSUME ShortpAssumption ==
    /\ PageSize \in Nat /\ PageSize > 2 /\ Records \in Nat \ {0}
    /\ Counts \subseteq Nat \ {0} /\ "none" \notin ShortpProcs
    /\ ShortpConfigs \subseteq [lose : BOOLEAN, signals : BOOLEAN, calm : BOOLEAN,
                               reads : BOOLEAN, maxBytes : Nat]

VARIABLES
    shortp_out_head, shortp_out_tail, shortp_out_buffer,
    accepted, printed,  \* how many bytes went into the ring, and to the printer
    shortp_output_active, shortp_timer, shortp_work,  \* the last two: pending or not
    shortp_in_head, shortp_in_tail,
    mutex,              \* the holder of shortp_out_mutex, or "none"
    wpc, left, space, mine,     \* of a process: label, bytes to go, its local space,
                                \* the last byte it wrote
    rpc, kpc, tpc, module,      \* labels of the reader, work item, timer and module
    line, irq,          \* the printer: "ready", "busy" or "ack" (acknowledging), its interrupt
    bug,                \* add_timer met a pending timer: the kernel's BUG_ON
    spcf                \* the configuration

ring == <<shortp_out_head, shortp_out_tail, shortp_out_buffer, accepted, printed>>
writers == <<mutex, wpc, left, space, mine>>
reader == <<shortp_in_head, shortp_in_tail, rpc>>
printer == <<line, irq>>
shortpVars == <<ring, shortp_output_active, shortp_timer, shortp_work, writers, reader,
                kpc, tpc, module, printer, bug, spcf>>

ShortpInit ==
    /\ shortp_out_head = 0 /\ shortp_out_tail = 0
    /\ shortp_out_buffer = [i \in 0..PageSize - 1 |-> 0]
    /\ accepted = 0 /\ printed = 0
    /\ shortp_output_active = FALSE /\ shortp_timer = FALSE /\ shortp_work = FALSE
    /\ shortp_in_head = 0 /\ shortp_in_tail = 0
    /\ mutex = "none" /\ wpc = [p \in ShortpProcs |-> "closed"]
    /\ left = [p \in ShortpProcs |-> 0] /\ space = [p \in ShortpProcs |-> 0]
    /\ mine = [p \in ShortpProcs |-> 0]
    /\ rpc = "user" /\ kpc = "idle" /\ tpc = "idle" /\ module = "loaded"
    /\ line = "ready" /\ irq = FALSE /\ bug = FALSE
    /\ spcf \in ShortpConfigs

WGoto(p, l) == wpc' = [wpc EXCEPT ![p] = l]
SetMin(a, b) == IF a < b THEN a ELSE b

\* Mistake: no byte is left free before a tail at the start of the page.
SpaceNoGap ==
    IF shortp_out_head >= shortp_out_tail
    THEN PageSize - shortp_out_head
    ELSE shortp_out_tail - shortp_out_head - 1

shortp_out_space ==
    IF shortp_out_head >= shortp_out_tail
    THEN PageSize - shortp_out_head - (IF shortp_out_tail = 0 THEN 1 ELSE 0)
    ELSE shortp_out_tail - shortp_out_head - 1

-----------------------------------------------------------------------------
ShortpOpen(p) ==
    /\ module = "loaded" /\ wpc[p] = "closed"
    /\ WGoto(p, "open")
    /\ UNCHANGED <<ring, shortp_output_active, shortp_timer, shortp_work, mutex, left, space,
                   mine, reader, kpc, tpc, module, printer, bug, spcf>>

\* shortp_write takes the mutex for the whole call.
ShortpWrite(p) ==
    /\ wpc[p] = "open" /\ mutex = "none" /\ accepted < spcf.maxBytes
    /\ \E n \in Counts : left' = [left EXCEPT ![p] = SetMin(n, spcf.maxBytes - accepted)]
    /\ mutex' = p
    /\ WGoto(p, "space")
    /\ UNCHANGED <<ring, shortp_output_active, shortp_timer, shortp_work, space, mine, reader,
                   kpc, tpc, module, printer, bug, spcf>>

\* The loop's test, and the wait for space.
ShortpSpace(p) ==
    /\ wpc[p] = "space"
    /\ space' = [space EXCEPT ![p] = SetMin(shortp_out_space, left[p])]
    /\ mutex' = IF left[p] = 0 THEN "none" ELSE mutex
    /\ WGoto(p, IF left[p] = 0 THEN "open" ELSE IF shortp_out_space > 0 THEN "copy" ELSE "sleep")
    /\ UNCHANGED <<ring, shortp_output_active, shortp_timer, shortp_work, left, mine, reader,
                   kpc, tpc, module, printer, bug, spcf>>

\* copy_from_user, and the head moves on.
ShortpCopy(p) ==
    /\ wpc[p] = "copy"
    /\ shortp_out_buffer' =
         [i \in 0..PageSize - 1 |->
            IF i \in shortp_out_head..shortp_out_head + space[p] - 1
            THEN accepted + 1 + i - shortp_out_head ELSE shortp_out_buffer[i]]
    /\ shortp_out_head' = (shortp_out_head + space[p]) % PageSize
    /\ accepted' = accepted + space[p]
    /\ mine' = [mine EXCEPT ![p] = accepted']
    /\ left' = [left EXCEPT ![p] = @ - space[p]]
    /\ WGoto(p, "start")
    /\ UNCHANGED <<shortp_out_tail, printed, shortp_output_active, shortp_timer, shortp_work,
                   mutex, space, reader, kpc, tpc, module, printer, bug, spcf>>

\* copy_from_user fails, or a signal ends the wait: the mutex is released.
ShortpGiveUp(p) ==
    /\ wpc[p] = "copy" \/ (wpc[p] = "sleep" /\ spcf.signals)
    /\ left' = [left EXCEPT ![p] = 0]
    /\ mutex' = "none"
    /\ WGoto(p, "open")
    /\ UNCHANGED <<ring, shortp_output_active, shortp_timer, shortp_work, space, mine, reader,
                   kpc, tpc, module, printer, bug, spcf>>

\* "If no output is active, make it active", under the lock: shortp_start_output
ShortpStart(p) ==
    /\ wpc[p] = "start"
    /\ shortp_output_active' = TRUE
    /\ IF shortp_output_active
       THEN UNCHANGED <<shortp_timer, shortp_work, bug>>
       ELSE /\ bug' = shortp_timer
            /\ shortp_timer' = TRUE
            /\ shortp_work' = TRUE
    /\ WGoto(p, "space")
    /\ UNCHANGED <<ring, mutex, left, space, mine, reader, kpc, tpc, module, printer, spcf>>

\* Mistake: the close does not wait.
ShortpReleaseNoWait(p) ==
    /\ wpc[p] = "open"
    /\ WGoto(p, "closed")
    /\ UNCHANGED <<ring, shortp_output_active, shortp_timer, shortp_work, mutex, left, space,
                   mine, reader, kpc, tpc, module, printer, bug, spcf>>

\* shortp_release waits for the end of the output; a signal ends the wait.
ShortpRelease(p) ==
    /\ wpc[p] = "open"
    /\ \/ ~shortp_output_active /\ WGoto(p, "closed")
       \/ spcf.signals /\ shortp_output_active /\ WGoto(p, "killed")
    /\ UNCHANGED <<ring, shortp_output_active, shortp_timer, shortp_work, mutex, left, space,
                   mine, reader, kpc, tpc, module, printer, bug, spcf>>

-----------------------------------------------------------------------------
\* The work item starts, and waits for the printer (shortp_wait).
ShortpWorkRun ==
    /\ kpc = "idle" /\ shortp_work
    /\ shortp_work' = FALSE /\ kpc' = "wait"
    /\ UNCHANGED <<ring, shortp_output_active, shortp_timer, writers, reader, tpc, module,
                   printer, bug, spcf>>

\* Mistake: the timer is left pending when the output ends.
ShortpDoWorkKeepTimer ==
    LET empty == shortp_out_head = shortp_out_tail
        tail  == IF empty THEN shortp_out_tail ELSE (shortp_out_tail + 1) % PageSize
        wake  == (PageSize + tail - shortp_out_head) % PageSize > SP_MIN_SPACE IN
    /\ kpc = "wait" /\ line # "busy"
    /\ shortp_output_active' = (shortp_output_active /\ ~empty)
    /\ shortp_timer' = (shortp_timer \/ ~empty)
    /\ shortp_out_tail' = tail
    /\ printed' = IF empty THEN printed ELSE shortp_out_buffer[shortp_out_tail]
    /\ line' = IF empty THEN line ELSE "busy"
    /\ wpc' = [p \in ShortpProcs |-> IF wake /\ wpc[p] = "sleep" THEN "space" ELSE wpc[p]]
    /\ kpc' = "record"
    /\ UNCHANGED <<shortp_out_head, shortp_out_buffer, accepted, shortp_work, mutex, left,
                   space, mine, reader, tpc, module, irq, bug, spcf>>

\* Under the lock: the output ends, or one more byte is written (shortp_do_write),
\* and writers are woken when more than SP_MIN_SPACE is free.
ShortpDoWork ==
    LET empty == shortp_out_head = shortp_out_tail
        tail  == IF empty THEN shortp_out_tail ELSE (shortp_out_tail + 1) % PageSize
        wake  == (PageSize + tail - shortp_out_head) % PageSize > SP_MIN_SPACE IN
    /\ kpc = "wait" /\ line # "busy"
    /\ shortp_output_active' = (shortp_output_active /\ ~empty)
    /\ shortp_timer' = ~empty
    /\ shortp_out_tail' = tail
    /\ printed' = IF empty THEN printed ELSE shortp_out_buffer[shortp_out_tail]
    /\ line' = IF empty THEN line ELSE "busy"
    /\ wpc' = [p \in ShortpProcs |-> IF wake /\ wpc[p] = "sleep" THEN "space" ELSE wpc[p]]
    /\ kpc' = "record"
    /\ UNCHANGED <<shortp_out_head, shortp_out_buffer, accepted, shortp_work, mutex, left,
                   space, mine, reader, tpc, module, irq, bug, spcf>>

\* The read side: a time stamp goes into its ring, which may overrun.
ShortpRecord ==
    /\ kpc = "record"
    /\ shortp_in_head' = (shortp_in_head + 1) % Records
    /\ rpc' = IF rpc = "sleep" THEN "user" ELSE rpc
    /\ kpc' = "idle"
    /\ UNCHANGED <<ring, shortp_output_active, shortp_timer, shortp_work, writers,
                   shortp_in_tail, tpc, module, printer, bug, spcf>>

\* shortp_read by the one reader: it sleeps while the ring looks empty, then takes
\* what lies before the head, or before the end of the page.
ShortpRead ==
    /\ module = "loaded" /\ spcf.reads
    /\ \/ /\ rpc = "user"
          /\ rpc' = IF shortp_in_head = shortp_in_tail THEN "sleep" ELSE "copy"
          /\ UNCHANGED shortp_in_tail
       \/ /\ rpc = "copy"
          /\ LET n == IF shortp_in_head >= shortp_in_tail THEN shortp_in_head - shortp_in_tail
                      ELSE Records - shortp_in_tail IN
             \E k \in 0..n : shortp_in_tail' = (shortp_in_tail + k) % Records
          /\ rpc' = "user"
       \/ spcf.signals /\ rpc = "sleep" /\ rpc' = "user" /\ UNCHANGED shortp_in_tail
    /\ UNCHANGED <<ring, shortp_output_active, shortp_timer, shortp_work, writers,
                   shortp_in_head, kpc, tpc, module, printer, bug, spcf>>

-----------------------------------------------------------------------------
\* The printer has done the byte and acknowledges it; its interrupt may get lost.
PrinterDone ==
    /\ \/ line = "busy" /\ line' = "ack" /\ (irq' = TRUE \/ (spcf.lose /\ irq' = irq))
       \/ line = "ack" /\ line' = "ready" /\ UNCHANGED irq
    /\ UNCHANGED <<ring, shortp_output_active, shortp_timer, shortp_work, writers, reader,
                   kpc, tpc, module, bug, spcf>>

\* What shortp_interrupt does to the work item: queue_work of a pending item is void.
shortp_interrupt == shortp_work' = (shortp_work \/ shortp_output_active)

ShortpInterrupt ==
    /\ irq /\ module = "loaded"
    /\ irq' = FALSE
    /\ shortp_interrupt
    /\ UNCHANGED <<ring, shortp_output_active, shortp_timer, writers, reader, kpc, tpc,
                   module, line, bug, spcf>>

\* Mistake: the timer is only ever set again.
TimeoutLockedWait(pending) ==
    /\ bug' = pending
    /\ shortp_timer' = TRUE
    /\ tpc' = "idle"

\* shortp_timeout under the lock: add_timer while the printer is busy or acknowledges,
\* else an interrupt must have been dropped.
TimeoutLocked(pending) ==
    \/ /\ line # "ready"
       /\ bug' = pending
       /\ shortp_timer' = TRUE
       /\ tpc' = "idle"
    \/ /\ line = "ready"
       /\ shortp_timer' = pending
       /\ tpc' = "intr"
       /\ UNCHANGED bug

\* The timer goes off.
ShortpTimeout ==
    /\ shortp_timer /\ tpc = "idle"
    /\ spcf.calm => ~irq /\ ~shortp_work /\ kpc = "idle"
    /\ IF spcf.calm /\ shortp_output_active
       THEN TimeoutLocked(FALSE)
       ELSE /\ shortp_timer' = FALSE
            /\ tpc' = IF shortp_output_active THEN "lock" ELSE "idle"
            /\ UNCHANGED bug
    /\ UNCHANGED <<ring, shortp_output_active, shortp_work, writers, reader, kpc, module,
                   printer, spcf>>

\* and its handler gets the lock, at a later time than its first test.
ShortpTimeoutLock ==
    /\ tpc = "lock"
    /\ TimeoutLocked(shortp_timer)
    /\ UNCHANGED <<ring, shortp_output_active, shortp_work, writers, reader, kpc, module,
                   printer, spcf>>

\* Without the lock, the handler calls shortp_interrupt for the dropped one.
ShortpTimeoutInterrupt ==
    /\ tpc = "intr"
    /\ shortp_interrupt
    /\ tpc' = "idle"
    /\ UNCHANGED <<ring, shortp_output_active, shortp_timer, writers, reader, kpc, module,
                   printer, bug, spcf>>

\* shortp_cleanup, when no file is open: the interrupt is freed and the timer deleted
\* if output is active; then the work queue is flushed.
ShortpCleanup ==
    /\ \/ /\ module = "loaded" /\ rpc = "user"
          /\ \A p \in ShortpProcs : wpc[p] \in {"closed", "killed"}
          /\ shortp_output_active => tpc = "idle"
          /\ shortp_timer' = (shortp_timer /\ ~shortp_output_active)
          /\ module' = "flush"
       \/ /\ module = "flush" /\ ~shortp_work /\ kpc = "idle"
          /\ module' = "gone"
          /\ UNCHANGED shortp_timer
    /\ UNCHANGED <<ring, shortp_output_active, shortp_work, writers, reader, kpc, tpc,
                   printer, bug, spcf>>

\* The steps of the kernel that go on by themselves, and the printer.
ShortpDriver == ShortpWorkRun \/ ShortpDoWork \/ ShortpRecord \/ ShortpInterrupt
ShortpTimer  == ShortpTimeout \/ ShortpTimeoutLock \/ ShortpTimeoutInterrupt
ShortpWriter(p) == ShortpSpace(p) \/ ShortpCopy(p) \/ ShortpStart(p)

ShortpNext ==
    /\ ~bug /\ module # "gone"
    /\ \/ \E p \in ShortpProcs :
            \/ ShortpOpen(p) \/ ShortpWrite(p) \/ ShortpWriter(p) \/ ShortpGiveUp(p)
            \/ ShortpRelease(p)
       \/ ShortpDriver \/ ShortpTimer \/ PrinterDone \/ ShortpRead \/ ShortpCleanup

ShortpFairness ==
    /\ WF_shortpVars(ShortpDriver /\ ~bug) /\ WF_shortpVars(ShortpTimer /\ ~bug)
    /\ WF_shortpVars(PrinterDone /\ ~bug)
    /\ \A p \in ShortpProcs : WF_shortpVars(ShortpWriter(p) /\ ~bug)

ShortpSpec == ShortpInit /\ [][ShortpNext]_shortpVars /\ ShortpFairness

-----------------------------------------------------------------------------
\* The variables keep their types.
ShortpTypeOK ==
    /\ shortp_out_head \in 0..PageSize - 1 /\ shortp_out_tail \in 0..PageSize - 1
    /\ accepted \in 0..spcf.maxBytes /\ printed \in 0..accepted
    /\ {shortp_output_active, shortp_timer, shortp_work, irq, bug} \subseteq BOOLEAN
    /\ shortp_in_head \in 0..Records - 1 /\ shortp_in_tail \in 0..Records - 1
    /\ mutex \in ShortpProcs \cup {"none"}
    /\ left \in [ShortpProcs -> Nat] /\ space \in [ShortpProcs -> Int]
    /\ module \in {"loaded", "flush", "gone"}

\* The ring holds exactly the accepted bytes not printed yet, in their order, though
\* writers read the tail and the worker reads the head without the other's lock: no
\* byte is overwritten, skipped or printed twice (119-134, 231-247).
RingContents ==
    /\ (shortp_out_head - shortp_out_tail) % PageSize = accepted - printed
    /\ \A i \in 1..accepted - printed :
         shortp_out_buffer[(shortp_out_tail + i - 1) % PageSize] = printed + i

\* "Wait for any pending output to complete" (164): a close that no signal cut short
\* returns when the printer has got everything its process wrote.
ReleaseDrained == \A p \in ShortpProcs : wpc[p] = "closed" => mine[p] <= printed

\* "When output is active, the timer is too, in case we miss interrupts" (146): or the
\* work item that sets it again is on its way.  As long as the timer does not race the
\* interrupt it stands in for, add_timer never meets a pending timer (255-261, 391-392),
\* and "Don't leave any timers floating around" (507) holds of the unloaded module if
\* every close waited for the output.
TimerDiscipline ==
    /\ shortp_output_active /\ module = "loaded" /\ ~bug =>
           shortp_timer \/ tpc # "idle" \/ shortp_work \/ kpc = "wait"
    /\ spcf.calm => /\ ~bug
                    /\ module = "gone" /\ ~spcf.signals => ~shortp_timer /\ tpc = "idle"

\* No wake-up of the reader is lost: it sleeps only while its ring looks empty (188-195).
ReaderWoken == rpc = "sleep" => shortp_in_head = shortp_in_tail

\* What was accepted gets printed, though interrupts get lost: the timer makes up for
\* them (374-400).
AllPrinted == (printed < accepted) ~> (printed = accepted \/ bug \/ module # "loaded")

\* A writer that waits for any space is woken in the end, though the worker wakes it
\* only above a threshold (346).
WriterWoken == \A p \in ShortpProcs : (wpc[p] = "sleep") ~> (wpc[p] # "sleep" \/ bug)
=============================================================================
