------------------------------ MODULE PipeFifo ------------------------------
(***************************************************************************)
(* What a scullpipe device promises its users: a bounded first-in          *)
(* first-out queue of bytes that several processes share.  A write appends *)
(* the bytes it accepted, a read removes the bytes it delivers from the    *)
(* head, a call that fails moves nothing, and an open empties the queue.   *)
(* There is no lock, no buffer and no wait queue here: ScullPipe has them  *)
(* and is shown to implement this module.                                  *)
(***************************************************************************)
EXTENDS Naturals, Sequences

CONSTANTS
    Procs,      \* the processes using the device
    Bytes,      \* the values of a byte
    Capacity    \* how many bytes the queue may hold

VARIABLES
    queue,      \* the bytes written and not yet read, oldest first
    opening,    \* the processes inside an open
    xfer        \* xfer[p]: the bytes moved by p's call in progress

fifoVars == <<queue, opening, xfer>>

\* Every message of at most n bytes.
Messages(n) == UNION {[1..k -> Bytes] : k \in 0..n}

FifoInit ==
    /\ queue = <<>>
    /\ opening = {}
    /\ xfer = [p \in Procs |-> <<>>]

\* p's write appends s, all of it or none, and will return Len(s).
Put(p) ==
    /\ xfer[p] = <<>>
    /\ \E s \in Messages(Capacity - Len(queue)) :
          /\ queue' = queue \o s
          /\ xfer' = [xfer EXCEPT ![p] = s]
    /\ UNCHANGED opening

\* p's read removes the n oldest bytes and will deliver exactly those.
Get(p) ==
    /\ xfer[p] = <<>>
    /\ \E n \in 0..Len(queue) :
          /\ xfer' = [xfer EXCEPT ![p] = SubSeq(queue, 1, n)]
          /\ queue' = SubSeq(queue, n + 1, Len(queue))
    /\ UNCHANGED opening

\* p's call returns what it moved.
Return(p) ==
    /\ xfer' = [xfer EXCEPT ![p] = <<>>]
    /\ UNCHANGED <<queue, opening>>

\* p enters or leaves an open.
Open(p) ==
    /\ opening' \in {opening \cup {p}, opening \ {p}}
    /\ UNCHANGED <<queue, xfer>>

\* A process that opens the device drops the unread bytes; nobody else does.
Reset ==
    /\ opening # {}
    /\ queue' = <<>>
    /\ UNCHANGED <<opening, xfer>>

FifoNext ==
    \/ Reset
    \/ \E p \in Procs : Put(p) \/ Get(p) \/ Return(p) \/ Open(p)

FifoSpec == FifoInit /\ [][FifoNext]_fifoVars
=============================================================================
