-------------------------------- MODULE Short -------------------------------
(***************************************************************************)
(* The interrupt-driven node of src/ldd4/short/short.c.  An interrupt      *)
(* leaves a time stamp in the text ring that a process reads: directly, or *)
(* through the array tv_data and a bottom half (a tasklet or a work item,  *)
(* the same function).  Nothing is locked: the handler moves the heads,    *)
(* the other side the tails.                                               *)
(*                                                                         *)
(* Every text is 16 bytes, one of the Lines of the ring.  Stamps are       *)
(* numbered.  A handler runs in one step; the bottom half is interrupted   *)
(* between any two of its steps.                                           *)
(***************************************************************************)
EXTENDS Integers

CONSTANTS
    Lines, NR_TIMEVAL,
    ShortConfigs,   \* whether there is a bottom half (bh), and whether interrupts may
                    \* arrive while it runs (overlap)
    ShortMax        \* bound: interrupts

ASSUME ShortAssumption ==
    /\ Lines \in Nat \ {0, 1} /\ NR_TIMEVAL \in Nat \ {0, 1} /\ ShortMax \in Nat
    /\ ShortConfigs \subseteq [bh : BOOLEAN, overlap : BOOLEAN]

VARIABLES
    short_head, short_tail,
    tv_data, tv_head, tv_tail,
    short_wq_count, savecount,
    short_bh, bhpc,         \* the bottom half: scheduled, and its label
    shortpc,                \* the reader: "user", "sleep" or "copy"
    handled, stamped,       \* interrupts so far, the stamps that are in the text
    told,                   \* the sum of the "bh after" counts
    unread, overrun,        \* lines not read yet; more of them than the ring holds
    again, overwritten,     \* a stamp was printed twice, or lost in tv_data
    shcf

text == <<short_head, short_tail, unread, overrun>>
shortVars == <<text, tv_data, tv_head, tv_tail, short_wq_count, savecount, short_bh, bhpc,
               shortpc, handled, stamped, told, again, overwritten, shcf>>

ShortInit ==
    /\ short_head = 0 /\ short_tail = 0 /\ unread = 0 /\ overrun = FALSE
    /\ tv_data = [i \in 0..NR_TIMEVAL - 1 |-> 0] /\ tv_head = 0 /\ tv_tail = 0
    /\ short_wq_count = 0 /\ savecount = 0 /\ short_bh = FALSE /\ bhpc = "idle"
    /\ shortpc = "user" /\ handled = 0 /\ stamped = {} /\ told = 0
    /\ again = FALSE /\ overwritten = FALSE
    /\ shcf \in ShortConfigs

\* Mistake: the pointer wraps one line early.
short_incr_bpEarly(i, delta) == IF i + delta >= Lines - 1 THEN 0 ELSE i + delta

short_incr_bp(i, delta) == IF i + delta >= Lines THEN 0 ELSE i + delta

short_incr_tv(i) == IF i = NR_TIMEVAL - 1 THEN 0 ELSE i + 1

\* sprintf at the head: nothing compares it with the tail.
PutLine ==
    /\ short_head' = short_incr_bp(short_head, 1)
    /\ overrun' = (overrun \/ unread + 1 = Lines)
    /\ unread' = IF unread + 1 = Lines THEN 0 ELSE unread + 1
    /\ UNCHANGED short_tail

Stamp(n) == stamped' = stamped \cup {n} /\ again' = (again \/ n = 0 \/ n \in stamped)
WakeReader == shortpc' = IF shortpc = "sleep" THEN "user" ELSE shortpc

-----------------------------------------------------------------------------
\* short_interrupt and, when the interrupt is its own, short_sh_interrupt
Interrupt16 ==
    /\ ~shcf.bh /\ handled < ShortMax
    /\ handled' = handled + 1
    /\ PutLine /\ Stamp(handled + 1) /\ WakeReader
    /\ UNCHANGED <<tv_data, tv_head, tv_tail, short_wq_count, savecount, short_bh, bhpc, told,
                   overwritten, shcf>>

\* Mistake: the bottom half is not queued while it runs.
TopHalfNoQueue ==
    /\ shcf.bh /\ handled < ShortMax /\ (shcf.overlap \/ bhpc = "idle")
    /\ handled' = handled + 1
    /\ overwritten' = (overwritten \/ tv_data[tv_head] \notin stamped \cup {0})
    /\ tv_data' = [tv_data EXCEPT ![tv_head] = handled + 1]
    /\ tv_head' = short_incr_tv(tv_head)
    /\ short_bh' = (short_bh \/ bhpc = "idle")
    /\ short_wq_count' = short_wq_count + 1
    /\ UNCHANGED <<text, tv_tail, savecount, bhpc, shortpc, stamped, told, again, shcf>>

\* short_wq_interrupt and short_tl_interrupt
TopHalf ==
    /\ shcf.bh /\ handled < ShortMax /\ (shcf.overlap \/ bhpc = "idle")
    /\ handled' = handled + 1
    /\ overwritten' = (overwritten \/ tv_data[tv_head] \notin stamped \cup {0})
    /\ tv_data' = [tv_data EXCEPT ![tv_head] = handled + 1]
    /\ tv_head' = short_incr_tv(tv_head)
    /\ short_bh' = TRUE
    /\ short_wq_count' = short_wq_count + 1
    /\ UNCHANGED <<text, tv_tail, savecount, bhpc, shortpc, stamped, told, again, shcf>>

\* short_do_tasklet: read the count,
BhSave ==
    /\ bhpc = "idle" /\ short_bh
    /\ short_bh' = FALSE /\ bhpc' = "clear"
    /\ savecount' = short_wq_count
    /\ UNCHANGED <<text, tv_data, tv_head, tv_tail, short_wq_count, shortpc, handled, stamped,
                   told, again, overwritten, shcf>>

\* clear it and print what was read,
BhClear ==
    /\ bhpc = "clear"
    /\ short_wq_count' = 0 /\ savecount' = 0 /\ told' = told + savecount
    /\ PutLine
    /\ bhpc' = "print"
    /\ UNCHANGED <<tv_data, tv_head, tv_tail, short_bh, shortpc, handled, stamped, again,
                   overwritten, shcf>>

\* then a stamp, at least one,
BhPrint ==
    /\ bhpc = "print"
    /\ PutLine /\ Stamp(tv_data[tv_tail])
    /\ tv_tail' = short_incr_tv(tv_tail)
    /\ bhpc' = "test"
    /\ UNCHANGED <<tv_data, tv_head, short_wq_count, savecount, short_bh, shortpc, handled,
                   told, overwritten, shcf>>

\* until the tail is at the head;
BhTest ==
    /\ bhpc = "test"
    /\ bhpc' = IF tv_tail # tv_head THEN "print" ELSE "wake"
    /\ UNCHANGED <<text, tv_data, tv_head, tv_tail, short_wq_count, savecount, short_bh,
                   shortpc, handled, stamped, told, again, overwritten, shcf>>

\* and wake the reader.
BhWake ==
    /\ bhpc = "wake" /\ bhpc' = "idle"
    /\ WakeReader
    /\ UNCHANGED <<text, tv_data, tv_head, tv_tail, short_wq_count, savecount, short_bh,
                   handled, stamped, told, again, overwritten, shcf>>

\* short_i_read: it sleeps while the ring looks empty, then takes what lies before
\* the head, or before the end of the page.
ShortRead ==
    /\ \/ /\ shortpc = "user"
          /\ shortpc' = IF short_head = short_tail THEN "sleep" ELSE "copy"
          /\ UNCHANGED <<short_tail, unread>>
       \/ /\ shortpc = "copy"
          /\ LET n == IF short_head >= short_tail THEN short_head - short_tail
                      ELSE Lines - short_tail IN
             \E k \in 0..n : /\ short_tail' = short_incr_bp(short_tail, k)
                             /\ unread' = IF overrun THEN unread ELSE unread - k
          /\ shortpc' = "user"
    /\ UNCHANGED <<short_head, overrun, tv_data, tv_head, tv_tail, short_wq_count, savecount,
                   short_bh, bhpc, handled, stamped, told, again, overwritten, shcf>>

ShortNext == Interrupt16 \/ TopHalf \/ BhSave \/ BhClear \/ BhPrint \/ BhTest \/ BhWake \/ ShortRead

-----------------------------------------------------------------------------
BhIdle == bhpc = "idle" /\ ~short_bh

\* The variables keep their types.
ShortTypeOK ==
    /\ short_head \in 0..Lines - 1 /\ short_tail \in 0..Lines - 1
    /\ tv_head \in 0..NR_TIMEVAL - 1 /\ tv_tail \in 0..NR_TIMEVAL - 1
    /\ tv_data \in [0..NR_TIMEVAL - 1 -> 0..ShortMax]
    /\ stamped \subseteq 0..ShortMax /\ unread \in 0..Lines - 1
    /\ bhpc \in {"idle", "clear", "print", "test", "wake"}
    /\ shortpc \in {"user", "sleep", "copy"}

\* Between tail and head lie the lines that were written and not read, as long as
\* the handler, which never looks at the tail, has not lapped the reader (92-100).
ShortRing == ~overrun => (short_head - short_tail) % Lines = unread

\* The reader does not sleep on a line, but while the bottom half that wrote it is
\* still at work (272-279, 334, 395).
ShortReaderWoken == shortpc = "sleep" /\ short_head # short_tail => bhpc # "idle"

\* Every interrupt is reported once.  When the bottom half has nothing to do, each stamp
\* has been printed, wherever interrupts fell between its steps (387-393, 399-410),
\* unless the array was too short for them or the loop, which prints before it
\* tests, has already passed the head once.  When no interrupt falls into the bottom
\* half, no stamp is printed twice and the "number of interrupts that occurred before
\* this bh" (378) adds up.
ShortReported ==
    /\ BhIdle /\ ~overwritten /\ ~again => stamped = 1..handled
    /\ ~shcf.overlap => ~again /\ (BhIdle /\ shcf.bh => told = handled)
=============================================================================
