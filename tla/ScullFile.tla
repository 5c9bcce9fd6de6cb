----------------------------- MODULE ScullFile ------------------------------
(***************************************************************************)
(* What a bare scull device promises: "a variable-length region of memory" *)
(* (src/ldd4/scull/scull.h).  There is one array of bytes; each open file  *)
(* has a position in it; a write stores a run of bytes at its position, a  *)
(* read delivers the run of bytes at its position, and both advance it by  *)
(* what they moved.  There are no quanta, no lists and no mutex here:      *)
(* ScullMem has them and is shown to implement this module.                *)
(***************************************************************************)
EXTENDS Integers, Sequences

CONSTANTS
    Procs,      \* the processes, one open file each
    Bytes,      \* the values of a byte
    Junk,       \* the value of a byte nobody has written
    None,       \* no result yet
    MaxCount    \* bound: the largest count a read or a write asks for

VARIABLES
    file,       \* the bytes of the device; its size is Len(file)
    pos,        \* pos[p]: the position of p's file
    opening,    \* the processes inside a write-only open
    xfer        \* xfer[p]: the bytes moved by p's call in progress, or None

fileVars == <<file, pos, opening, xfer>>

FileInit ==
    /\ file = <<>>
    /\ pos = [p \in Procs |-> 0]
    /\ opening = {}
    /\ xfer = [p \in Procs |-> None]

\* The bytes of s stored at offset o of f, which grows by arbitrary bytes if it
\* ends before o.
Overwrites(f, s, o, g) ==
    /\ Len(g) = IF Len(f) >= o + Len(s) THEN Len(f) ELSE o + Len(s)
    /\ \A i \in 1..Len(g) :
          IF i \in o + 1..o + Len(s) THEN g[i] = s[i - o]
          ELSE i <= Len(f) => g[i] = f[i]

\* p's write of at least one byte stores at least one and will return how many.
Put(p) ==
    /\ xfer[p] = None
    /\ \E n \in 1..MaxCount : \E s \in [1..n -> Bytes] :
          /\ Overwrites(file, s, pos[p], file')
          /\ xfer' = [xfer EXCEPT ![p] = s]
          /\ pos' = [pos EXCEPT ![p] = @ + n]
    /\ UNCHANGED opening

\* p's write of 0 bytes raises the size to its position if that is past the end.
PutNothing(p) ==
    /\ Overwrites(file, <<>>, pos[p], file')
    /\ UNCHANGED <<pos, opening, xfer>>

\* p's write fails after storing some bytes: neither the size nor the position
\* shows it.
PutFault(p) ==
    /\ \E n \in 0..MaxCount : \E s \in [1..n -> Bytes] :
          /\ Len(file') = Len(file)
          /\ \A i \in 1..Len(file) :
               file'[i] = IF i \in pos[p] + 1..pos[p] + n THEN s[i - pos[p]] ELSE file[i]
    /\ UNCHANGED <<pos, opening, xfer>>

\* p's read of at least one byte delivers a run of bytes from its position.  It may deliver nothing
\* only at the end of the file or where nobody has written.
Get(p) ==
    /\ xfer[p] = None
    /\ \E n \in 0..MaxCount :
          /\ pos[p] + n <= Len(file) \/ n = 0
          /\ n = 0 => \/ pos[p] >= Len(file)
                      \/ file[pos[p] + 1] = Junk
          /\ xfer' = [xfer EXCEPT ![p] = SubSeq(file, pos[p] + 1, pos[p] + n)]
          /\ pos' = [pos EXCEPT ![p] = @ + n]
    /\ UNCHANGED <<file, opening>>

Return(p) ==
    /\ xfer' = [xfer EXCEPT ![p] = None]
    /\ UNCHANGED <<file, opening, pos>>

Seek(p) ==
    /\ pos'[p] \in Nat
    /\ pos' = [pos EXCEPT ![p] = pos'[p]]
    /\ UNCHANGED <<file, opening, xfer>>

\* p enters an open, which puts its position at 0, or leaves one.
Open(p) ==
    /\ opening' \in {opening \cup {p}, opening \ {p}}
    /\ pos' \in {pos, [pos EXCEPT ![p] = 0]}
    /\ UNCHANGED <<file, xfer>>

\* A process that opens the device for writing only truncates it; nobody else
\* does.
Truncate ==
    /\ opening # {}
    /\ file' = <<>>
    /\ UNCHANGED <<pos, opening, xfer>>

FileNext ==
    \/ Truncate
    \/ \E p \in Procs : Put(p) \/ PutNothing(p) \/ PutFault(p) \/ Get(p) \/ Return(p) \/ Seek(p) \/ Open(p)

FileSpec == FileInit /\ [][FileNext]_fileVars
=============================================================================
