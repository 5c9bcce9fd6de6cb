--------------------------- MODULE ScullPipeProofs --------------------------
(***************************************************************************)
(* Proofs about ScullPipe, for any number of processes and any buffer      *)
(* sizes: types, mutex and ring; then how processes use the device:        *)
(* readers and writers are woken, only open files are signalled, and the   *)
(* buffer is there while a file is open; then that the device is a queue.  *)
(***************************************************************************)
EXTENDS MCScullPipe, FiniteSetTheorems, SequenceTheorems, TLAPS

-----------------------------------------------------------------------------
(* The arithmetic of the ring.                                             *)

\* The remainder of a number less than twice the modulus.
LEMMA ModSmall ==
    ASSUME NEW a \in Nat, NEW b \in Nat \ {0}, a < b + b
    PROVE  a % b = IF a < b THEN a ELSE a - b
  OBVIOUS

\* spacefree (pipe.c 188-193) without the remainder, for pointers in the ring.
LEMMA SpaceFree ==
    ASSUME buffersize \in Nat \ {0},
           rp \in 0..buffersize - 1, wp \in 0..buffersize - 1
    PROVE  spacefree = IF rp = wp THEN buffersize - 1
                       ELSE IF rp > wp THEN rp - wp - 1
                       ELSE rp + buffersize - wp - 1
  <1>. DEFINE a == rp + buffersize - wp
  <1>1. a \in Nat /\ a < buffersize + buffersize
    OBVIOUS
  <1>2. a % buffersize = IF a < buffersize THEN a ELSE a - buffersize
    <2>. HIDE DEF a
    <2>. QED  BY <1>1, ModSmall
  <1>3. spacefree = IF rp = wp THEN buffersize - 1 ELSE (a % buffersize) - 1
    BY <1>1 DEF spacefree, rem
  <1>. HIDE DEF a
  <1>4. rp # wp => a - 1 = IF rp > wp THEN rp - wp - 1 + buffersize ELSE rp + buffersize - wp - 1
    BY DEF a
  <1>5. a < buffersize <=> rp < wp
    BY DEF a
  <1>. QED
    BY <1>1, <1>2, <1>3, <1>4, <1>5

\* Every offset below a size is a slot, and sizes are positive.
LEMMA SlotOfSize ==
    ASSUME NEW s \in Sizes
    PROVE  s \in Nat \ {0} /\ \A i \in 0..s - 1 : i \in Slots
  BY SizeAssumption DEF Slots

-----------------------------------------------------------------------------
(* How each action moves its process and the mutex.  The lemmas after this *)
(* one no longer look into the actions that leave the pointers alone.      *)

\* p goes from one of the points F to one of the points L.
Moves(p, F, L) == pc[p] \in F /\ \E l \in L : pc' = [pc EXCEPT ![p] = l]

\* The points where a pointer is about to be stored, and those of a process that
\* has no open file and has not found the buffer.
WrapPC    == {"r_wrap", "w_wrap", "o_size", "o_wp", "o_rp"}
OutsidePC == {"closed", "o_lock", "o_alloc"}

\* The step stores no pointer, begins or ends no store and opens no file.
QuietMove(p) ==
    /\ UNCHANGED <<buffersize, rp, wp>>
    /\ \/ Moves(p, OutsidePC, OutsidePC)
       \/ Moves(p, PC \ (OutsidePC \cup WrapPC), PC \ WrapPC)

\* The step respects the ownership of the mutex.
MutexMove(p) ==
    \/ UNCHANGED mutex /\ Moves(p, PC \ HoldPC, PC \ HoldPC)
    \/ UNCHANGED mutex /\ Moves(p, HoldPC, HoldPC)
    \/ mutex = None /\ mutex' = p /\ Moves(p, PC \ HoldPC, HoldPC)
    \/ mutex' = None /\ Moves(p, HoldPC, PC \ HoldPC)

LEMMA Points ==
    /\ PC = {"closed", "idle", "c_lock", "c_put", "o_lock", "o_alloc", "o_size", "o_wp", "o_rp",
             "r_lock", "r_test", "r_wrap", "r_wake", "r_prep", "r_check", "r_sleep",
             "w_lock", "w_test", "w_wrap", "w_wake", "w_sigio", "w_prep", "w_check",
             "w_sleep", "w_finish", "p_lock", "p_test", "p_sleep"}
    /\ HoldPC \subseteq PC
  BY DEF PC, OpenPC, ReadPC, WritePC, PollPC, HoldPC

\* Taking the mutex, or giving up, is such a step.
LEMMA LockMoves ==
    ASSUME NEW p \in Procs
    PROVE  /\ \A from \in PC \ HoldPC, to \in HoldPC :
                Lock(p, from, to) => MutexMove(p) /\ UNCHANGED ring
           /\ \A from \in PC \ HoldPC, to \in PC \ HoldPC :
                LockInterrupted(p, from, to) => MutexMove(p) /\ UNCHANGED ring
           /\ TakeMutex(p) => QuietMove(p)
           /\ LockInterrupted(p, "o_lock", "closed") => QuietMove(p)
           /\ LockInterrupted(p, "r_lock", "idle") => QuietMove(p)
           /\ LockInterrupted(p, "w_lock", "idle") => QuietMove(p)
  BY Points DEF Lock, LockInterrupted, TakeMutex, MutexMove, QuietMove, Moves, Return, Goto, ring,
                OutsidePC, WrapPC

\* The actions that store, or begin to store, a pointer; all others are quiet.
Stores(p) ==
    \/ OpenAlloc(p) \/ OpenSize(p) \/ OpenWp(p) \/ OpenRp(p)
    \/ ReadCopy(p) \/ ReadWrap(p) \/ WriteCopy(p) \/ WriteWrap(p)
Starts(p) ==
    OpenStart(p) \/ ReleaseStart(p) \/ ReadStart(p) \/ WriteStart(p) \/ PollStart(p)
Interrupted(p) ==
    \/ LockInterrupted(p, "o_lock", "closed")
    \/ LockInterrupted(p, "r_lock", "idle")
    \/ LockInterrupted(p, "w_lock", "idle")
\* The steps that leave the program points alone.
Elsewhere(p) == Fasync(p) \/ Signal(p)

\* Next, regrouped.
LEMMA NextSteps ==
    ASSUME Next
    PROVE  \/ \E n \in NewSizes : Ioctsize(n)
           \/ \E p \in Procs : Starts(p) \/ TakeMutex(p) \/ Interrupted(p) \/ Step(p) \/ Elsewhere(p)
  BY DEF Next, Open, Release, Read, Write, Poll, Starts, TakeMutex, Interrupted, Step, Elsewhere

\* Every action but the eight stores is quiet.
LEMMA QuietSteps ==
    ASSUME NEW p \in Procs, Starts(p) \/ TakeMutex(p) \/ Interrupted(p) \/ Step(p), ~Stores(p)
    PROVE  QuietMove(p)
  <1>. USE Points DEF QuietMove, Moves, OutsidePC, WrapPC, Goto, Return, ring
  <1>1. CASE Starts(p)
    BY <1>1 DEF Starts, OpenStart, ReleaseStart, ReadStart, WriteStart, PollStart
  <1>2. CASE TakeMutex(p) \/ Interrupted(p)
    BY <1>2, LockMoves DEF Interrupted
  <1>3. CASE OpenNoMemory(p) \/ ReleasePut(p) \/ PollTest(p) \/ PollWoken(p)
    BY <1>3 DEF OpenNoMemory, ReleasePut, PollTest, PollWoken
  <1>4. CASE ReadEmpty(p) \/ ReadPrepare(p) \/ ReadReady(p) \/ ReadSleep(p)
    BY <1>4 DEF ReadEmpty, ReadPrepare, ReadReady, ReadSleep
  <1>5. CASE ReadWoken(p) \/ ReadFault(p) \/ ReadWake(p)
    BY <1>5 DEF ReadWoken, ReadFault, ReadWake
  <1>6. CASE WriteFull(p) \/ WritePrepare(p) \/ WriteCheck(p) \/ WriteWoken(p)
    BY <1>6 DEF WriteFull, WritePrepare, WriteCheck, WriteWoken
  <1>7. CASE WriteFinish(p) \/ WriteFault(p) \/ WriteWake(p) \/ WriteSigio(p)
    BY <1>7 DEF WriteFinish, WriteFault, WriteWake, WriteSigio
  <1>. QED
    BY <1>1, <1>2, <1>3, <1>4, <1>5, <1>6, <1>7 DEF Step, Stores

\* Every action respects the ownership of the mutex.
LEMMA MutexSteps ==
    ASSUME NEW p \in Procs, Starts(p) \/ TakeMutex(p) \/ Interrupted(p) \/ Step(p)
    PROVE  MutexMove(p)
  <1>. USE Points DEF MutexMove, Moves, HoldPC, Goto, Return
  <1>1. CASE Starts(p)
    BY <1>1 DEF Starts, OpenStart, ReleaseStart, ReadStart, WriteStart, PollStart
  <1>2. CASE TakeMutex(p)
    BY <1>2 DEF TakeMutex, Lock
  <1>3. CASE Interrupted(p)
    BY <1>3 DEF Interrupted, LockInterrupted
  <1>4. CASE OpenAlloc(p) \/ OpenSize(p) \/ OpenNoMemory(p) \/ OpenWp(p) \/ OpenRp(p) \/ ReleasePut(p)
    BY <1>4 DEF OpenAlloc, OpenSize, OpenNoMemory, OpenWp, OpenRp, ReleasePut
  <1>5. CASE ReadEmpty(p) \/ ReadPrepare(p) \/ ReadReady(p) \/ ReadSleep(p) \/ ReadWoken(p)
    BY <1>5 DEF ReadEmpty, ReadPrepare, ReadReady, ReadSleep, ReadWoken
  <1>6. CASE ReadCopy(p) \/ ReadFault(p) \/ ReadWrap(p) \/ ReadWake(p)
    BY <1>6 DEF ReadCopy, ReadFault, ReadWrap, ReadWake
  <1>7. CASE WriteFull(p) \/ WritePrepare(p) \/ WriteCheck(p) \/ WriteWoken(p) \/ WriteFinish(p)
    BY <1>7 DEF WriteFull, WritePrepare, WriteCheck, WriteWoken, WriteFinish
  <1>8. CASE WriteCopy(p) \/ WriteFault(p) \/ WriteWrap(p) \/ WriteWake(p) \/ WriteSigio(p)
    BY <1>8 DEF WriteCopy, WriteFault, WriteWrap, WriteWake, WriteSigio
  <1>9. CASE PollTest(p) \/ PollWoken(p)
    BY <1>9 DEF PollTest, PollWoken
  <1>. QED
    BY <1>1, <1>2, <1>3, <1>4, <1>5, <1>6, <1>7, <1>8, <1>9 DEF Step

LEMMA MutexPreserved ==
    ASSUME TypeOK, NEW p \in Procs, MutexMove(p)
    PROVE  MutexInv' /\ mutex' \in Procs \cup {None} /\ pc' \in [Procs -> PC]
  <1>1. HoldPC \subseteq PC
    BY Points
  <1>2. PICK l \in PC : pc' = [pc EXCEPT ![p] = l]
    BY <1>1 DEF MutexMove, Moves
  <1>3. pc' \in [Procs -> PC] /\ mutex' \in Procs \cup {None}
    BY <1>2 DEF TypeOK, MutexMove
  <1>4. CASE UNCHANGED mutex /\ (pc[p] \in HoldPC <=> l \in HoldPC)
    BY <1>2, <1>3, <1>4 DEF TypeOK, MutexInv
  <1>5. CASE mutex = None /\ mutex' = p /\ l \in HoldPC
    BY <1>2, <1>3, <1>5, ProcAssumption DEF TypeOK, MutexInv
  <1>6. CASE mutex' = None /\ pc[p] \in HoldPC /\ l \notin HoldPC
    BY <1>2, <1>3, <1>6, ProcAssumption DEF TypeOK, MutexInv
  <1>7. \A m \in PC : pc' = [pc EXCEPT ![p] = m] => m = l
    BY <1>2 DEF TypeOK
  <1>8. \/ UNCHANGED mutex /\ (pc[p] \in HoldPC <=> l \in HoldPC)
        \/ mutex = None /\ mutex' = p /\ l \in HoldPC
        \/ mutex' = None /\ pc[p] \in HoldPC /\ l \notin HoldPC
    BY <1>1, <1>7 DEF MutexMove, Moves
  <1>. QED
    BY <1>3, <1>4, <1>5, <1>6, <1>8

-----------------------------------------------------------------------------
(* The inductive invariant.                                                *)

\* The types, with the ownership of the mutex, and the ring.
IInv == TypeOK /\ RingInv

\* Two processes do not own the mutex.
LEMMA Exclusion ==
    ASSUME TypeOK, NEW p \in Procs, NEW q \in Procs, pc[p] \in HoldPC, pc[q] \in HoldPC
    PROVE  p = q
  BY DEF TypeOK, MutexInv

\* A process that owns the mutex and is not storing a pointer finds both inside
\* the ring.
LEMMA RingOwned ==
    ASSUME IInv, NEW p \in Procs, pc[p] \in {"r_test", "w_test", "p_test", "c_put"}
    PROVE  /\ ~Resetting
           /\ buffersize \in Sizes /\ buffersize \in Nat \ {0}
           /\ rp \in 0..buffersize - 1 /\ wp \in 0..buffersize - 1
  <1>1. \A q \in Procs : pc[q] \notin WrapPC
    BY Exclusion DEF IInv, WrapPC, HoldPC
  <1>2. buffersize # 0
    BY DEF IInv, RingInv
  <1>3. buffersize \in Sizes /\ buffersize \in Nat \ {0}
    BY <1>2, SlotOfSize DEF IInv, TypeOK
  <1>4. ~Resetting
    BY <1>1 DEF Resetting, WrapPC
  <1>5. rp < buffersize /\ wp < buffersize
    BY <1>1, <1>2, <1>3, <1>4 DEF IInv, RingInv, TypeOK, WrapPC
  <1>. QED
    BY <1>3, <1>4, <1>5 DEF IInv, TypeOK

\* What a read takes and a write stores stays in the ring, and a write that
\* starts at the beginning stops before the end.
LEMMA CountBounds ==
    ASSUME IInv, NEW p \in Procs, NEW n \in Nat
    PROVE  /\ pc[p] = "r_test" => readCount(n) \in 0..buffersize - rp
           /\ pc[p] = "w_test" /\ spacefree # 0 =>
                /\ writeCount(n) \in 0..buffersize - wp
                /\ rp = 0 => wp + writeCount(n) < buffersize
  <1>1. ASSUME pc[p] = "r_test" PROVE readCount(n) \in 0..buffersize - rp
    BY <1>1, RingOwned DEF readCount, min
  <1>2. ASSUME pc[p] = "w_test", spacefree # 0
        PROVE  /\ writeCount(n) \in 0..buffersize - wp
               /\ rp = 0 => wp + writeCount(n) < buffersize
    <2>1. /\ buffersize \in Nat \ {0}
          /\ rp \in 0..buffersize - 1 /\ wp \in 0..buffersize - 1
      BY <1>2, RingOwned
    <2>2. spacefree = IF rp = wp THEN buffersize - 1
                      ELSE IF rp > wp THEN rp - wp - 1
                      ELSE rp + buffersize - wp - 1
      BY <2>1, SpaceFree
    <2>. QED
      BY <2>1, <2>2 DEF writeCount, min
  <1>. QED
    BY <1>1, <1>2

LEMMA RingQuiet ==
    ASSUME IInv, NEW p \in Procs, QuietMove(p)
    PROVE  RingInv'
  <1>1. PICK l \in PC \ WrapPC :
          /\ pc' = [pc EXCEPT ![p] = l]
          /\ pc[p] \notin WrapPC
          /\ l \in OutsidePC \/ pc[p] \notin OutsidePC
    BY Points DEF QuietMove, Moves, OutsidePC, WrapPC
  <1>2. pc'[p] = l /\ \A q \in Procs \ {p} : pc'[q] = pc[q]
    BY <1>1 DEF IInv, TypeOK
  <1>3. Resetting' <=> Resetting
    BY <1>1, <1>2 DEF Resetting, WrapPC
  <1>4. \A x \in WrapPC : (\E q \in Procs : pc[q] = x) => (\E q \in Procs : pc'[q] = x)
    BY <1>1, <1>2
  <1>. QED
    BY <1>1, <1>2, <1>3, <1>4 DEF IInv, RingInv, QuietMove, OutsidePC, WrapPC

\* The eight actions that store a pointer keep the ring.
LEMMA RingStores ==
    ASSUME IInv, NEW p \in Procs, Stores(p)
    PROVE  RingInv'
  <1>. USE DEF IInv
  <1>1. pc \in [Procs -> PC] /\ rp \in Nat /\ wp \in Nat
    BY DEF TypeOK
  <1>1a. CASE OpenAlloc(p)
    <2>1. pc[p] = "o_alloc" /\ pc' = [pc EXCEPT ![p] = "o_size"] /\ UNCHANGED buffersize
      BY <1>1a DEF OpenAlloc, Goto
    <2>2. Resetting'
      BY <1>1, <2>1 DEF Resetting
    <2>3. \A q \in Procs : pc'[q] # "o_rp"
      BY <1>1, <2>1, Exclusion DEF HoldPC
    <2>. QED
      BY <1>1, <2>1, <2>2, <2>3 DEF RingInv
  <1>2. CASE OpenSize(p)
    <2>1. buffersize' # 0
      BY <1>2, SlotOfSize DEF OpenSize, TypeOK
    <2>2. pc' = [pc EXCEPT ![p] = "o_wp"]
      BY <1>2 DEF OpenSize, Goto
    <2>3. Resetting'
      BY <1>1, <2>2 DEF Resetting
    <2>4. \A q \in Procs : pc'[q] # "o_rp"
      BY <1>1, <1>2, <2>2, Exclusion DEF OpenSize, HoldPC
    <2>. QED
      BY <2>1, <2>3, <2>4 DEF RingInv
  <1>3. CASE OpenWp(p)
    <2>1. pc' = [pc EXCEPT ![p] = "o_rp"] /\ wp' = 0 /\ UNCHANGED buffersize /\ pc[p] = "o_wp"
      BY <1>3 DEF OpenWp, Goto
    <2>2. Resetting' /\ buffersize # 0
      BY <1>1, <2>1 DEF Resetting, RingInv
    <2>. QED
      BY <2>1, <2>2 DEF RingInv
  <1>4. CASE OpenRp(p)
    <2>1. /\ pc[p] = "o_rp" /\ pc' = [pc EXCEPT ![p] = "idle"]
          /\ rp' = 0 /\ UNCHANGED <<buffersize, wp>>
      BY <1>4 DEF OpenRp, Return, Goto
    <2>2. wp = 0 /\ buffersize # 0
      BY <2>1 DEF RingInv
    <2>3. \A q \in Procs : pc'[q] # "o_rp"
      BY <1>1, <2>1, Exclusion DEF HoldPC
    <2>4. buffersize \in Nat \ {0}
      BY <2>2, SlotOfSize DEF TypeOK
    <2>. QED
      BY <2>1, <2>2, <2>3, <2>4 DEF RingInv
  <1>5. CASE ReadCopy(p)
    <2>1. PICK n \in 0..MaxCount : rp' = rp + readCount(n)
      BY <1>5 DEF ReadCopy
    <2>2. pc[p] = "r_test" /\ pc' = [pc EXCEPT ![p] = "r_wrap"] /\ UNCHANGED <<buffersize, wp>>
      BY <1>5 DEF ReadCopy, Goto
    <2>3. /\ buffersize \in Nat \ {0} /\ wp \in 0..buffersize - 1
          /\ readCount(n) \in 0..buffersize - rp
      BY <2>2, RingOwned, CountBounds, CountAssumption
    <2>4. rp' <= buffersize
      BY <1>1, <2>1, <2>3
    <2>5. \A q \in Procs : pc'[q] # "o_rp"
      BY <1>1, <2>2, Exclusion DEF HoldPC
    <2>6. pc'[p] = "r_wrap"
      BY <1>1, <2>2
    <2>. QED
      BY <2>2, <2>3, <2>4, <2>5, <2>6 DEF RingInv
  <1>6. CASE ReadWrap(p)
    <2>1. /\ pc[p] = "r_wrap" /\ pc' = [pc EXCEPT ![p] = "r_wake"] /\ UNCHANGED <<buffersize, wp>>
          /\ rp' = IF rp = buffersize THEN 0 ELSE rp
      BY <1>6 DEF ReadWrap, Goto
    <2>2. \A q \in Procs : pc[q] \notin WrapPC \/ q = p
      BY <2>1, Exclusion DEF HoldPC, WrapPC
    <2>3. buffersize # 0 /\ buffersize \in Nat \ {0} /\ ~Resetting
      BY <2>1, <2>2, SlotOfSize DEF RingInv, TypeOK, Resetting, WrapPC
    <2>4. rp <= buffersize /\ wp < buffersize
      BY <1>1, <2>1, <2>2, <2>3 DEF RingInv, WrapPC
    <2>5. \A q \in Procs : pc'[q] \notin WrapPC
      BY <1>1, <2>1, <2>2 DEF WrapPC
    <2>. QED
      BY <1>1, <2>1, <2>3, <2>4, <2>5 DEF RingInv, WrapPC
  <1>7. CASE WriteCopy(p)
    <2>1. PICK n \in 0..MaxCount : wp' = wp + writeCount(n)
      BY <1>7 DEF WriteCopy
    <2>2. /\ pc[p] = "w_test" /\ pc' = [pc EXCEPT ![p] = "w_wrap"] /\ UNCHANGED <<buffersize, rp>>
          /\ spacefree # 0
      BY <1>7 DEF WriteCopy, Goto
    <2>3. /\ buffersize \in Nat \ {0} /\ rp \in 0..buffersize - 1
          /\ writeCount(n) \in 0..buffersize - wp
          /\ rp = 0 => wp + writeCount(n) < buffersize
      BY <2>2, RingOwned, CountBounds, CountAssumption
    <2>4. wp' <= buffersize /\ (wp' = buffersize => rp # 0)
      BY <1>1, <2>1, <2>3
    <2>5. \A q \in Procs : pc'[q] # "o_rp"
      BY <1>1, <2>2, Exclusion DEF HoldPC
    <2>6. pc'[p] = "w_wrap"
      BY <1>1, <2>2
    <2>. QED
      BY <2>2, <2>3, <2>4, <2>5, <2>6 DEF RingInv
  <1>8. CASE WriteWrap(p)
    <2>1. /\ pc[p] = "w_wrap" /\ pc' = [pc EXCEPT ![p] = "w_wake"] /\ UNCHANGED <<buffersize, rp>>
          /\ wp' = IF wp = buffersize THEN 0 ELSE wp
      BY <1>8 DEF WriteWrap, Goto
    <2>2. \A q \in Procs : pc[q] \notin WrapPC \/ q = p
      BY <2>1, Exclusion DEF HoldPC, WrapPC
    <2>3. buffersize # 0 /\ buffersize \in Nat \ {0} /\ ~Resetting
      BY <2>1, <2>2, SlotOfSize DEF RingInv, TypeOK, Resetting, WrapPC
    <2>4. wp <= buffersize /\ rp < buffersize
      BY <1>1, <2>1, <2>2, <2>3 DEF RingInv, WrapPC
    <2>5. \A q \in Procs : pc'[q] \notin WrapPC
      BY <1>1, <2>1, <2>2 DEF WrapPC
    <2>. QED
      BY <1>1, <2>1, <2>3, <2>4, <2>5 DEF RingInv, WrapPC
  <1>. QED
    BY <1>1a, <1>2, <1>3, <1>4, <1>5, <1>6, <1>7, <1>8 DEF Stores

LEMMA RingPreserved ==
    ASSUME IInv, Next
    PROVE  RingInv'
  <1>1. ASSUME NEW p \in Procs, Starts(p) \/ TakeMutex(p) \/ Interrupted(p) \/ Step(p)
        PROVE  RingInv'
    BY <1>1, RingStores, RingQuiet, QuietSteps
  <1>2. ASSUME UNCHANGED <<pc, buffersize, rp, wp>> PROVE RingInv'
    BY <1>2 DEF IInv, RingInv, Resetting
  <1>3. ASSUME NEW p \in Procs, Elsewhere(p) PROVE RingInv'
    BY <1>2, <1>3 DEF Elsewhere, Fasync, Signal, ring
  <1>4. ASSUME NEW n \in NewSizes, Ioctsize(n) PROVE RingInv'
    BY <1>2, <1>4 DEF Ioctsize, ring
  <1>. QED
    BY <1>1, <1>3, <1>4, NextSteps

\* The part of TypeOK that is not about pc and the mutex.
DataOK ==
    /\ scull_p_buffer \in Sizes
    /\ buffer \in Sizes \cup {0}
    /\ buffersize \in Sizes \cup {0}
    /\ rp \in Nat /\ wp \in Nat
    /\ mem \in [Slots -> Bytes \cup {Junk}]
    /\ nreaders \in Int /\ nwriters \in Int
    /\ inq \subseteq Procs /\ outq \subseteq Procs /\ async_queue \subseteq Procs
    /\ xfer \in [Procs -> Seq(Bytes \cup {Junk})]
    /\ sig \subseteq Procs

\* Returning clears the transfer of the process.
LEMMA XferCleared ==
    ASSUME xfer \in [Procs -> Seq(Bytes \cup {Junk})], NEW p \in Procs,
           xfer' = [xfer EXCEPT ![p] = <<>>]
    PROVE  xfer' \in [Procs -> Seq(Bytes \cup {Junk})]
  <1>1. <<>> \in Seq(Bytes \cup {Junk})
    OBVIOUS
  <1>. QED
    BY <1>1

\* Storing bytes keeps the type of the memory.
LEMMA StoredType ==
    ASSUME mem \in [Slots -> Bytes \cup {Junk}], NEW k \in Nat, NEW s \in [1..k -> Bytes]
    PROVE  stored(s) \in [Slots -> Bytes \cup {Junk}]
  BY DEF stored

LEMMA DataPreserved ==
    ASSUME IInv, Next
    PROVE  DataOK'
  <1>. USE DEF IInv, ring, count
  <1>1. DataOK
    BY DEF TypeOK, DataOK
  <1>2. ASSUME NEW n \in NewSizes, Ioctsize(n) PROVE DataOK'
    BY <1>1, <1>2 DEF Ioctsize, DataOK, Sizes
  <1>3. ASSUME NEW p \in Procs, Elsewhere(p) PROVE DataOK'
    BY <1>1, <1>3 DEF Elsewhere, Fasync, Signal, DataOK
  <1>4. ASSUME NEW p \in Procs, Starts(p) \/ TakeMutex(p) PROVE DataOK'
    BY <1>1, <1>4 DEF Starts, OpenStart, ReleaseStart, ReadStart, WriteStart, PollStart,
                      TakeMutex, Lock, DataOK
  <1>5. ASSUME NEW p \in Procs, Interrupted(p) PROVE DataOK'
    BY <1>1, <1>5, XferCleared DEF Interrupted, LockInterrupted, Return, DataOK
  <1>6. ASSUME NEW p \in Procs, Step(p) PROVE DataOK'
    <2>. USE <1>1 DEF DataOK
    <2>1. CASE OpenAlloc(p) \/ OpenSize(p)
      BY <2>1 DEF OpenAlloc, OpenSize
    <2>2. CASE OpenNoMemory(p) \/ OpenWp(p)
      BY <2>2, XferCleared DEF OpenNoMemory, OpenWp, Return
    <2>3. CASE OpenRp(p)
      BY <2>3, XferCleared DEF OpenRp, Return
    <2>4. CASE ReleasePut(p)
      BY <2>4, XferCleared DEF ReleasePut, Return
    <2>5. CASE ReadEmpty(p) \/ ReadPrepare(p) \/ ReadReady(p) \/ ReadSleep(p) \/ ReadWoken(p)
      BY <2>5, XferCleared DEF ReadEmpty, ReadPrepare, ReadReady, ReadSleep, ReadWoken, Return
    <2>6. CASE ReadFault(p) \/ ReadWrap(p) \/ ReadWake(p)
      BY <2>6, XferCleared DEF ReadFault, ReadWrap, ReadWake, Return
    <2>7. CASE ReadCopy(p)
      <3>1. PICK n \in 0..MaxCount :
              /\ xfer' = [xfer EXCEPT ![p] = taken(readCount(n))]
              /\ rp' = rp + readCount(n)
        BY <2>7 DEF ReadCopy
      <3>2. /\ buffersize \in Sizes /\ buffersize \in Nat /\ rp \in Nat
            /\ readCount(n) \in 0..buffersize - rp
        <4>1. pc[p] = "r_test" /\ n \in Nat
          BY <2>7, CountAssumption DEF ReadCopy
        <4>. QED
          BY <4>1, RingOwned, CountBounds
      <3>3. \A i \in 1..readCount(n) : rp + i - 1 \in Slots
        BY <3>2, SlotOfSize
      <3>4. taken(readCount(n)) \in Seq(Bytes \cup {Junk})
        BY <3>2, <3>3 DEF taken
      <3>5. rp' \in Nat
        BY <3>1, <3>2
      <3>. QED
        BY <2>7, <3>1, <3>4, <3>5 DEF ReadCopy
    <2>8. CASE WriteFull(p) \/ WritePrepare(p) \/ WriteCheck(p) \/ WriteWoken(p) \/ WriteFinish(p)
      BY <2>8, XferCleared DEF WriteFull, WritePrepare, WriteCheck, WriteWoken, WriteFinish, Return
    <2>9. CASE WriteCopy(p)
      <3>1. PICK n \in 0..MaxCount : \E s \in [1..writeCount(n) -> Bytes] :
              /\ mem' = stored(s)
              /\ wp' = wp + writeCount(n)
              /\ xfer' = [xfer EXCEPT ![p] = s]
        BY <2>9 DEF WriteCopy
      <3>2. PICK s \in [1..writeCount(n) -> Bytes] :
              /\ mem' = stored(s)
              /\ wp' = wp + writeCount(n)
              /\ xfer' = [xfer EXCEPT ![p] = s]
        BY <3>1
      <3>3. writeCount(n) \in Nat
        <4>1. pc[p] = "w_test" /\ spacefree # 0 /\ n \in Nat
          BY <2>9, CountAssumption DEF WriteCopy
        <4>. QED
          BY <4>1, RingOwned, CountBounds
      <3>4. mem' \in [Slots -> Bytes \cup {Junk}]
        BY <3>2, <3>3, StoredType
      <3>5. s \in Seq(Bytes \cup {Junk})
        BY <3>3, SMTT(30)
      <3>6. wp' \in Nat
        BY <3>2, <3>3
      <3>. QED
        BY <2>9, <3>2, <3>4, <3>5, <3>6 DEF WriteCopy
    <2>10. CASE WriteFault(p)
      <3>1. mem' \in [Slots -> Bytes \cup {Junk}]
        BY <2>10, StoredType DEF WriteFault
      <3>. QED
        BY <2>10, <3>1, XferCleared DEF WriteFault, Return
    <2>11. CASE WriteWrap(p) \/ WriteWake(p) \/ WriteSigio(p)
      BY <2>11, XferCleared DEF WriteWrap, WriteWake, WriteSigio
    <2>12. CASE PollTest(p) \/ PollWoken(p)
      BY <2>12, XferCleared DEF PollTest, PollWoken, Return
    <2>. QED
      BY <1>6, <2>1, <2>2, <2>3, <2>4, <2>5, <2>6, <2>7, <2>8, <2>9, <2>10, <2>11, <2>12 DEF Step
  <1>. QED
    BY <1>2, <1>3, <1>4, <1>5, <1>6, NextSteps

LEMMA TypePreserved ==
    ASSUME IInv, Next
    PROVE  TypeOK'
  <1>1. MutexInv' /\ mutex' \in Procs \cup {None} /\ pc' \in [Procs -> PC]
    <2>1. ASSUME NEW p \in Procs, Starts(p) \/ TakeMutex(p) \/ Interrupted(p) \/ Step(p)
          PROVE  MutexInv' /\ mutex' \in Procs \cup {None} /\ pc' \in [Procs -> PC]
      BY <2>1, MutexSteps, MutexPreserved DEF IInv
    <2>2. ASSUME UNCHANGED <<pc, mutex>>
          PROVE  MutexInv' /\ mutex' \in Procs \cup {None} /\ pc' \in [Procs -> PC]
      BY <2>2 DEF IInv, TypeOK, MutexInv
    <2>3. ASSUME NEW p \in Procs, Elsewhere(p) PROVE UNCHANGED <<pc, mutex>>
      BY <2>3 DEF Elsewhere, Fasync, Signal
    <2>4. ASSUME NEW n \in NewSizes, Ioctsize(n) PROVE UNCHANGED <<pc, mutex>>
      BY <2>4 DEF Ioctsize
    <2>. QED
      BY <2>1, <2>2, <2>3, <2>4, NextSteps
  <1>. QED
    BY <1>1, DataPreserved DEF TypeOK, DataOK

LEMMA InitIInv == Init => IInv
  <1>. SUFFICES ASSUME Init PROVE IInv
    OBVIOUS
  <1>1. xfer \in [Procs -> Seq(Bytes \cup {Junk})]
    BY DEF Init
  <1>2. MutexInv
    BY ProcAssumption DEF Init, MutexInv, HoldPC
  <1>3. TypeOK
    BY <1>1, <1>2, Points DEF Init, TypeOK, Sizes
  <1>4. RingInv
    BY DEF Init, RingInv
  <1>. QED
    BY <1>3, <1>4 DEF IInv

LEMMA StutterIInv == IInv /\ UNCHANGED vars => IInv'
  BY DEF IInv, TypeOK, RingInv, MutexInv, Resetting, vars, ring, count

LEMMA SpecIInv == Spec => []IInv
  <1>1. IInv /\ [Next]_vars => IInv'
    BY TypePreserved, RingPreserved, StutterIInv DEF IInv
  <1>. QED
    BY <1>1, InitIInv, PTL DEF Spec

\* The types and the ownership of the mutex hold in every state of every
\* scullpipe device: no path through open, release, read, write and poll, error
\* returns included, leaves the mutex locked or unlocks it twice.
THEOREM PipeTypeOK == Spec => []TypeOK
  BY SpecIInv, PTL DEF IInv

\* The pointers stay in the ring and a byte stays free, for every buffer size and
\* any sequence of SCULL_P_IOCTSIZE commands.
THEOREM PipeRingBounds == Spec => []RingBounds
  <1>1. IInv => RingBounds
    <2>. SUFFICES ASSUME IInv, mutex = None, Opened # {}
                  PROVE  /\ rp < buffersize /\ wp < buffersize
                         /\ spacefree \in 0..buffersize - 1
      BY DEF RingBounds
    <2>1. \A q \in Procs : pc[q] \notin HoldPC
      BY ProcAssumption DEF IInv, TypeOK, MutexInv
    <2>2. \A q \in Procs : pc[q] \notin WrapPC
      BY <2>1 DEF WrapPC, HoldPC
    <2>3. buffersize # 0 /\ ~Resetting
      BY <2>1, <2>2 DEF IInv, RingInv, Resetting, Opened, OpenPC, HoldPC, WrapPC
    <2>4. buffersize \in Nat \ {0} /\ rp \in Nat /\ wp \in Nat
      BY <2>3, SlotOfSize DEF IInv, TypeOK
    <2>5. rp < buffersize /\ wp < buffersize
      BY <2>2, <2>3, <2>4 DEF IInv, RingInv, WrapPC
    <2>. QED
      BY <2>4, <2>5, SpaceFree
  <1>. QED
    BY <1>1, SpecIInv, PTL

-----------------------------------------------------------------------------
(* No lost wake-up for readers.                                            *)

\* A writer has moved wp and has not called the wake-up yet.
Waking == \E q \in Procs : pc[q] \in {"w_wrap", "w_wake"}

\* The invariant behind NoLostReader: it also covers the states in which the
\* mutex is held.
WakeInv ==
    \A p \in Procs : ReaderAsleep(p) => rp = wp \/ Resetting \/ Waking

\* The step of p puts nobody to sleep and lets nobody but p join a queue.
StaysAwake(p) ==
    /\ inq' \subseteq inq \cup {p} /\ outq' \subseteq outq \cup {p}
    /\ Moves(p, PC, PC \ {"r_sleep", "p_sleep"})

\* Only ReadSleep and PollTest put a reader to sleep.
LEMMA AwakeSteps ==
    ASSUME NEW p \in Procs, Starts(p) \/ TakeMutex(p) \/ Interrupted(p) \/ Step(p),
           ~ReadSleep(p), ~PollTest(p)
    PROVE  StaysAwake(p)
  <1>. USE Points DEF StaysAwake, Moves, Goto, Return
  <1>1. CASE Starts(p)
    BY <1>1 DEF Starts, OpenStart, ReleaseStart, ReadStart, WriteStart, PollStart
  <1>2. CASE TakeMutex(p)
    BY <1>2 DEF TakeMutex, Lock
  <1>3. CASE Interrupted(p)
    BY <1>3 DEF Interrupted, LockInterrupted
  <1>4. CASE OpenAlloc(p) \/ OpenSize(p) \/ OpenNoMemory(p) \/ OpenWp(p) \/ OpenRp(p) \/ ReleasePut(p)
    BY <1>4 DEF OpenAlloc, OpenSize, OpenNoMemory, OpenWp, OpenRp, ReleasePut
  <1>5. CASE ReadEmpty(p) \/ ReadPrepare(p) \/ ReadReady(p) \/ ReadWoken(p)
    BY <1>5 DEF ReadEmpty, ReadPrepare, ReadReady, ReadWoken
  <1>6. CASE ReadCopy(p) \/ ReadFault(p) \/ ReadWrap(p) \/ ReadWake(p)
    BY <1>6 DEF ReadCopy, ReadFault, ReadWrap, ReadWake
  <1>7. CASE WriteFull(p) \/ WritePrepare(p) \/ WriteCheck(p) \/ WriteWoken(p) \/ WriteFinish(p)
    BY <1>7 DEF WriteFull, WritePrepare, WriteCheck, WriteWoken, WriteFinish
  <1>8. CASE WriteCopy(p) \/ WriteFault(p) \/ WriteWrap(p) \/ WriteWake(p) \/ WriteSigio(p)
    BY <1>8 DEF WriteCopy, WriteFault, WriteWrap, WriteWake, WriteSigio
  <1>9. CASE PollWoken(p)
    BY <1>9 DEF PollWoken
  <1>. QED
    BY <1>1, <1>2, <1>3, <1>4, <1>5, <1>6, <1>7, <1>8, <1>9 DEF Step

\* Who is asleep after such a step was asleep before it.
LEMMA AsleepBefore ==
    ASSUME TypeOK, NEW p \in Procs, StaysAwake(p), NEW q \in Procs, ReaderAsleep(q)'
    PROVE  ReaderAsleep(q)
  <1>1. PICK l \in PC \ {"r_sleep", "p_sleep"} : pc' = [pc EXCEPT ![p] = l]
    BY DEF StaysAwake, Moves
  <1>2. q # p /\ pc'[q] = pc[q]
    BY <1>1 DEF TypeOK, ReaderAsleep
  <1>. QED
    BY <1>2 DEF StaysAwake, ReaderAsleep

\* A quiet step other than the wake-up itself leaves a writer that is about to
\* wake the readers where it is.
LEMMA WakingKept ==
    ASSUME TypeOK, NEW p \in Procs, QuietMove(p), pc[p] # "w_wake"
    PROVE  (Waking => Waking') /\ (Resetting' <=> Resetting) /\ UNCHANGED <<rp, wp>>
  <1>1. PICK l \in PC \ WrapPC : pc' = [pc EXCEPT ![p] = l] /\ pc[p] \notin WrapPC
    BY Points DEF QuietMove, Moves, OutsidePC, WrapPC
  <1>2. pc'[p] = l /\ \A q \in Procs \ {p} : pc'[q] = pc[q]
    BY <1>1 DEF TypeOK
  <1>3. Resetting' <=> Resetting
    BY <1>1, <1>2 DEF Resetting, WrapPC
  <1>4. Waking => Waking'
    BY <1>1, <1>2 DEF Waking, WrapPC
  <1>. QED
    BY <1>3, <1>4 DEF QuietMove

LEMMA WakePreserved ==
    ASSUME IInv, WakeInv, Next
    PROVE  WakeInv'
  <1>0. TypeOK /\ RingInv /\ pc \in [Procs -> PC] /\ rp \in Nat /\ wp \in Nat
    BY DEF IInv, TypeOK
  <1>1. ASSUME UNCHANGED <<pc, inq, outq, rp, wp>> PROVE WakeInv'
    BY <1>1 DEF WakeInv, ReaderAsleep, Resetting, Waking
  <1>2. ASSUME NEW n \in NewSizes, Ioctsize(n) PROVE WakeInv'
    BY <1>1, <1>2 DEF Ioctsize, ring
  <1>3. ASSUME NEW p \in Procs, Elsewhere(p) PROVE WakeInv'
    BY <1>1, <1>3 DEF Elsewhere, Fasync, Signal, ring
  <1>4. ASSUME NEW p \in Procs, Starts(p) \/ TakeMutex(p) \/ Interrupted(p) \/ Step(p)
        PROVE  WakeInv'
    <2>1. CASE ReadSleep(p) \/ PollTest(p)
      <3>1. QuietMove(p) /\ pc[p] # "w_wake"
        <4>1. ~Stores(p) /\ pc[p] # "w_wake"
          BY <2>1 DEF Stores, ReadSleep, PollTest, OpenAlloc, OpenSize, OpenWp, OpenRp, ReadCopy, ReadWrap,
                      WriteCopy, WriteWrap
        <4>. QED
          BY <1>4, <4>1, QuietSteps
      <3>2. (Waking => Waking') /\ (Resetting' <=> Resetting) /\ UNCHANGED <<rp, wp>>
        BY <1>0, <3>1, WakingKept
      <3>3. ASSUME NEW q \in Procs, ReaderAsleep(q)' PROVE ReaderAsleep(q) \/ rp = wp
        <4>1. CASE ReadSleep(p)
          BY <1>0, <3>3, <4>1 DEF ReadSleep, ReaderAsleep, Goto, Return
        <4>2. CASE PollTest(p)
          BY <1>0, <3>3, <4>2 DEF PollTest, Polled, ReaderAsleep, Goto, Return
        <4>. QED
          BY <2>1, <4>1, <4>2
      <3>. QED
        BY <3>2, <3>3 DEF WakeInv
    <2>2. CASE ~ReadSleep(p) /\ ~PollTest(p) /\ ~Stores(p) /\ ~WriteWake(p)
      <3>1. \A q \in Procs : ReaderAsleep(q)' => ReaderAsleep(q)
        BY <1>0, <1>4, <2>2, AwakeSteps, AsleepBefore
      <3>2. pc[p] # "w_wake"
        BY <1>4, <2>2 DEF Step, Starts, TakeMutex, Interrupted, Lock, LockInterrupted,
             OpenStart, ReleaseStart, ReadStart, WriteStart, PollStart, Stores,
             OpenNoMemory, ReleasePut, ReadEmpty, ReadPrepare, ReadReady, ReadWoken, ReadFault,
             ReadWake, WriteFull, WritePrepare, WriteCheck, WriteWoken, WriteFinish, WriteFault,
             WriteSigio, PollWoken
      <3>3. QuietMove(p)
        BY <1>4, <2>2, QuietSteps
      <3>4. (Waking => Waking') /\ (Resetting' <=> Resetting) /\ UNCHANGED <<rp, wp>>
        BY <1>0, <3>2, <3>3, WakingKept
      <3>. QED
        BY <3>1, <3>4 DEF WakeInv
    <2>3. CASE WriteWake(p)
      <3>1. \A q \in Procs : ~ReaderAsleep(q)'
        BY <2>3 DEF WriteWake, ReaderAsleep
      <3>. QED
        BY <3>1 DEF WakeInv
    <2>4. CASE Stores(p)
      <3>1. \A q \in Procs : ReaderAsleep(q)' => ReaderAsleep(q)
        <4>1. ~ReadSleep(p) /\ ~PollTest(p)
          BY <2>4 DEF Stores, ReadSleep, PollTest, OpenAlloc, OpenSize, OpenWp, OpenRp, ReadCopy, ReadWrap,
                      WriteCopy, WriteWrap
        <4>. QED
          BY <1>0, <1>4, <4>1, AwakeSteps, AsleepBefore
      <3>2. CASE OpenAlloc(p) \/ OpenSize(p) \/ OpenWp(p)
        <4>1. Resetting'
          BY <1>0, <3>2 DEF OpenAlloc, OpenSize, OpenWp, Goto, Resetting
        <4>. QED
          BY <4>1 DEF WakeInv
      <3>3. CASE OpenRp(p)
        <4>1. rp' = wp'
          BY <1>0, <3>3 DEF OpenRp, RingInv
        <4>. QED
          BY <4>1 DEF WakeInv
      <3>4. CASE ReadCopy(p)
        <4>1. pc[p] = "r_test" /\ pc' = [pc EXCEPT ![p] = "r_wrap"] /\ rp # wp
          BY <3>4 DEF ReadCopy, Goto
        <4>2. ~Resetting
          BY <4>1, RingOwned
        <4>3. Waking => Waking'
          BY <1>0, <4>1 DEF Waking
        <4>. QED
          BY <3>1, <4>1, <4>2, <4>3 DEF WakeInv
      <3>5. CASE ReadWrap(p)
        <4>1. /\ pc[p] = "r_wrap" /\ pc' = [pc EXCEPT ![p] = "r_wake"]
              /\ rp' = (IF rp = buffersize THEN 0 ELSE rp) /\ UNCHANGED wp
          BY <3>5 DEF ReadWrap, Goto
        <4>2. \A q \in Procs : pc[q] \notin WrapPC \/ q = p
          BY <1>0, <4>1, Exclusion DEF HoldPC, WrapPC
        <4>3. ~Resetting /\ buffersize # 0
          BY <1>0, <4>1, <4>2 DEF RingInv, Resetting, WrapPC
        <4>4. wp # buffersize
          BY <1>0, <4>1, <4>2, <4>3 DEF RingInv, WrapPC
        <4>5. rp = wp => rp' = wp'
          BY <4>1, <4>4
        <4>6. Waking => Waking'
          BY <1>0, <4>1 DEF Waking
        <4>. QED
          BY <3>1, <4>3, <4>5, <4>6 DEF WakeInv
      <3>6. CASE WriteCopy(p) \/ WriteWrap(p)
        <4>1. Waking'
          BY <1>0, <3>6 DEF WriteCopy, WriteWrap, Goto, Waking
        <4>. QED
          BY <4>1 DEF WakeInv
      <3>. QED
        BY <2>4, <3>2, <3>3, <3>4, <3>5, <3>6 DEF Stores
    <2>. QED
      BY <2>1, <2>2, <2>3, <2>4
  <1>. QED
    BY <1>2, <1>3, <1>4, NextSteps

\* No reader, in read or in select, sleeps on data: every wake-up that a reader
\* needs is on its way, although wait_event tests rp and wp without the mutex and
\* opens reset them at any time.
THEOREM PipeNoLostReader == Spec => []NoLostReader
  <1>1. Init => WakeInv
    BY DEF Init, WakeInv, ReaderAsleep
  <1>2. IInv /\ WakeInv /\ [Next]_vars => WakeInv'
    <2>1. WakeInv /\ UNCHANGED vars => WakeInv'
      BY DEF WakeInv, ReaderAsleep, Resetting, Waking, vars, ring
    <2>. QED
      BY <2>1, WakePreserved
  <1>3. IInv /\ WakeInv => NoLostReader
    <2>. SUFFICES ASSUME IInv, WakeInv, mutex = None, rp # wp, NEW p \in Procs, ReaderAsleep(p)
                  PROVE  \E q \in Procs : pc[q] = "w_wake"
      BY DEF NoLostReader
    <2>1. \A q \in Procs : pc[q] \notin HoldPC
      BY ProcAssumption DEF IInv, TypeOK, MutexInv
    <2>2. ~Resetting
      BY <2>1 DEF Resetting, HoldPC
    <2>. QED
      BY <2>1, <2>2 DEF WakeInv, Waking, HoldPC
  <1>. QED
    BY <1>1, <1>2, <1>3, SpecIInv, PTL DEF Spec

-----------------------------------------------------------------------------
(* No lost wake-up for writers, when nobody is in a call during an open:   *)
(* an open that empties the ring wakes nobody.                             *)

\* While a process is in an open the others are in an open too, or in no call.
NobodyInCall ==
    \A p, q \in Procs : pc[p] \in OpenPC => pc[q] \in {"closed", "idle"} \cup OpenPC

\* A reader has moved rp and has not called the wake-up yet.
MakingSpace == \E q \in Procs : pc[q] \in {"r_wrap", "r_wake"}

\* The invariant behind NoLostWriter: it also covers the states in which the
\* mutex is held.
SpaceInv ==
    /\ NobodyInCall
    /\ \A p \in Procs : WriterAsleep(p) => spacefree = 0 \/ MakingSpace

\* How a step moves between no call, an open, and another call.
CallMove(p) ==
    \/ Moves(p, {"closed"}, {"o_lock"})
    \/ Moves(p, OpenPC, {"closed", "idle"} \cup OpenPC)
    \/ Moves(p, {"idle"}, PC \ ({"closed", "idle"} \cup OpenPC))
    \/ Moves(p, PC \ ({"closed", "idle"} \cup OpenPC), PC \ OpenPC)

LEMMA CallSteps ==
    ASSUME NEW p \in Procs, Starts(p) \/ TakeMutex(p) \/ Interrupted(p) \/ Step(p)
    PROVE  CallMove(p)
  <1>. USE Points DEF CallMove, Moves, OpenPC, Goto, Return
  <1>1. CASE Starts(p)
    BY <1>1 DEF Starts, OpenStart, ReleaseStart, ReadStart, WriteStart, PollStart
  <1>2. CASE TakeMutex(p)
    BY <1>2 DEF TakeMutex, Lock
  <1>3. CASE Interrupted(p)
    BY <1>3 DEF Interrupted, LockInterrupted
  <1>4. CASE OpenAlloc(p) \/ OpenSize(p) \/ OpenNoMemory(p) \/ OpenWp(p) \/ OpenRp(p) \/ ReleasePut(p)
    BY <1>4 DEF OpenAlloc, OpenSize, OpenNoMemory, OpenWp, OpenRp, ReleasePut
  <1>5. CASE ReadEmpty(p) \/ ReadPrepare(p) \/ ReadReady(p) \/ ReadSleep(p) \/ ReadWoken(p)
    BY <1>5 DEF ReadEmpty, ReadPrepare, ReadReady, ReadSleep, ReadWoken
  <1>6. CASE ReadCopy(p) \/ ReadFault(p) \/ ReadWrap(p) \/ ReadWake(p)
    BY <1>6 DEF ReadCopy, ReadFault, ReadWrap, ReadWake
  <1>7. CASE WriteFull(p) \/ WritePrepare(p) \/ WriteCheck(p) \/ WriteWoken(p) \/ WriteFinish(p)
    BY <1>7 DEF WriteFull, WritePrepare, WriteCheck, WriteWoken, WriteFinish
  <1>8. CASE WriteCopy(p) \/ WriteFault(p) \/ WriteWrap(p) \/ WriteWake(p) \/ WriteSigio(p)
    BY <1>8 DEF WriteCopy, WriteFault, WriteWrap, WriteWake, WriteSigio
  <1>9. CASE PollTest(p) \/ PollWoken(p)
    BY <1>9 DEF PollTest, PollWoken
  <1>. QED
    BY <1>1, <1>2, <1>3, <1>4, <1>5, <1>6, <1>7, <1>8, <1>9 DEF Step

LEMMA NobodyKept ==
    ASSUME TypeOK, NobodyInCall, QuietOpen, NEW p \in Procs, CallMove(p)
    PROVE  NobodyInCall'
  <1>. DEFINE Out == {"closed", "idle"} \cup OpenPC
  <1>1. PICK l \in PC :
          /\ pc' = [pc EXCEPT ![p] = l]
          /\ \/ pc[p] = "closed" /\ l = "o_lock"
             \/ pc[p] \in OpenPC /\ l \in Out
             \/ pc[p] = "idle" /\ l \notin Out
             \/ pc[p] \notin Out /\ l \notin OpenPC
    BY Points DEF CallMove, Moves, OpenPC
  <1>2. pc'[p] = l /\ \A q \in Procs \ {p} : pc'[q] = pc[q]
    BY <1>1 DEF TypeOK
  <1>3. CASE pc[p] = "closed" /\ l = "o_lock"
    <2>1. \A q \in Procs : pc[q] \in Out
      BY <1>2, <1>3 DEF QuietOpen
    <2>. QED
      BY <1>2, <1>3, <2>1 DEF NobodyInCall, OpenPC
  <1>4. CASE pc[p] \in OpenPC /\ l \in Out
    BY <1>2, <1>4 DEF NobodyInCall
  <1>5. CASE pc[p] = "idle" /\ l \notin Out
    <2>1. \A q \in Procs : pc[q] \notin OpenPC
      BY <1>2, <1>5 DEF QuietOpen
    <2>. QED
      BY <1>2, <1>5, <2>1 DEF NobodyInCall
  <1>6. CASE pc[p] \notin Out /\ l \notin OpenPC
    BY <1>2, <1>6 DEF NobodyInCall
  <1>. QED
    BY <1>1, <1>3, <1>4, <1>5, <1>6

\* A step that puts no writer to sleep and lets nobody but p join a queue.
StaysUp(p) ==
    /\ inq' \subseteq inq \cup {p} /\ outq' \subseteq outq \cup {p}
    /\ Moves(p, PC, PC \ {"w_sleep", "p_sleep"})

\* Only WriteCheck and PollTest put a writer to sleep.
LEMMA UpSteps ==
    ASSUME NEW p \in Procs, Starts(p) \/ TakeMutex(p) \/ Interrupted(p) \/ Step(p),
           ~WriteCheck(p), ~PollTest(p)
    PROVE  StaysUp(p)
  <1>1. CASE ~ReadSleep(p)
    <2>1. StaysAwake(p)
      BY <1>1, AwakeSteps
    <2>2. Moves(p, PC, PC \ {"w_sleep", "p_sleep"})
      <3>. USE Points DEF Moves, Goto, Return
      <3>1. CASE Starts(p)
        BY <3>1 DEF Starts, OpenStart, ReleaseStart, ReadStart, WriteStart, PollStart
      <3>2. CASE TakeMutex(p) \/ Interrupted(p)
        BY <3>2 DEF TakeMutex, Lock, Interrupted, LockInterrupted
      <3>3. CASE OpenAlloc(p) \/ OpenSize(p) \/ OpenNoMemory(p) \/ OpenWp(p) \/ OpenRp(p) \/ ReleasePut(p)
        BY <3>3 DEF OpenAlloc, OpenSize, OpenNoMemory, OpenWp, OpenRp, ReleasePut
      <3>4. CASE ReadEmpty(p) \/ ReadPrepare(p) \/ ReadReady(p) \/ ReadWoken(p)
        BY <3>4 DEF ReadEmpty, ReadPrepare, ReadReady, ReadWoken
      <3>5. CASE ReadCopy(p) \/ ReadFault(p) \/ ReadWrap(p) \/ ReadWake(p)
        BY <3>5 DEF ReadCopy, ReadFault, ReadWrap, ReadWake
      <3>6. CASE WriteFull(p) \/ WritePrepare(p) \/ WriteWoken(p) \/ WriteFinish(p) \/ PollWoken(p)
        BY <3>6 DEF WriteFull, WritePrepare, WriteWoken, WriteFinish, PollWoken
      <3>7. CASE WriteCopy(p) \/ WriteFault(p) \/ WriteWrap(p) \/ WriteWake(p) \/ WriteSigio(p)
        BY <3>7 DEF WriteCopy, WriteFault, WriteWrap, WriteWake, WriteSigio
      <3>. QED
        BY <1>1, <3>1, <3>2, <3>3, <3>4, <3>5, <3>6, <3>7 DEF Step
    <2>. QED
      BY <2>1, <2>2 DEF StaysAwake, StaysUp
  <1>2. CASE ReadSleep(p)
    BY <1>2, Points DEF ReadSleep, StaysUp, Moves, Goto, Return
  <1>. QED
    BY <1>1, <1>2

LEMMA WriterAsleepBefore ==
    ASSUME TypeOK, NEW p \in Procs, StaysUp(p), NEW q \in Procs, WriterAsleep(q)'
    PROVE  WriterAsleep(q)
  <1>1. PICK l \in PC \ {"w_sleep", "p_sleep"} : pc' = [pc EXCEPT ![p] = l]
    BY DEF StaysUp, Moves
  <1>2. q # p /\ pc'[q] = pc[q]
    BY <1>1 DEF TypeOK, WriterAsleep
  <1>. QED
    BY <1>2 DEF StaysUp, WriterAsleep

\* A quiet step other than the wake-up itself leaves the space, and a reader that
\* is about to wake the writers.
LEMMA MakingSpaceKept ==
    ASSUME TypeOK, NEW p \in Procs, QuietMove(p), pc[p] # "r_wake"
    PROVE  (MakingSpace => MakingSpace') /\ spacefree' = spacefree
  <1>1. PICK l \in PC \ WrapPC : pc' = [pc EXCEPT ![p] = l] /\ pc[p] \notin WrapPC
    BY Points DEF QuietMove, Moves, OutsidePC, WrapPC
  <1>2. pc'[p] = l /\ \A q \in Procs \ {p} : pc'[q] = pc[q]
    BY <1>1 DEF TypeOK
  <1>3. MakingSpace => MakingSpace'
    BY <1>1, <1>2 DEF MakingSpace, WrapPC
  <1>4. spacefree' = spacefree
    BY DEF QuietMove, spacefree
  <1>. QED
    BY <1>3, <1>4

\* Wrapping wp changes no space: with wp at the end rp is not at the beginning.
LEMMA WriteWrapSpace ==
    ASSUME IInv, NEW p \in Procs, WriteWrap(p)
    PROVE  spacefree' = spacefree
  <1>1. /\ pc[p] = "w_wrap" /\ UNCHANGED <<buffersize, rp>>
        /\ wp' = IF wp = buffersize THEN 0 ELSE wp
    BY DEF WriteWrap
  <1>2. \A q \in Procs : pc[q] \notin WrapPC \/ q = p
    BY <1>1, Exclusion DEF IInv, HoldPC, WrapPC
  <1>3. buffersize # 0 /\ buffersize \in Nat \ {0} /\ ~Resetting
    BY <1>1, <1>2, SlotOfSize DEF IInv, RingInv, TypeOK, Resetting, WrapPC
  <1>4. rp \in 0..buffersize - 1 /\ wp \in Nat
    BY <1>1, <1>2, <1>3 DEF IInv, TypeOK, RingInv, WrapPC
  <1>5. CASE wp # buffersize
    BY <1>1, <1>5 DEF spacefree
  <1>6. CASE wp = buffersize
    <2>1. rp # 0
      BY <1>3, <1>6 DEF IInv, RingInv
    <2>2. rp + buffersize - wp = rp /\ rp + buffersize - wp' = rp + buffersize /\ rp # wp /\ rp # wp'
      BY <1>1, <1>3, <1>4, <1>6, <2>1
    <2>3. rp % buffersize = rp /\ (rp + buffersize) % buffersize = rp
      <3>1. rp % buffersize = rp
        BY <1>3, <1>4, ModSmall
      <3>2. (rp + buffersize) % buffersize = rp
        <4>. DEFINE a == rp + buffersize
        <4>1. a \in Nat /\ a < buffersize + buffersize /\ ~(a < buffersize) /\ a - buffersize = rp
          BY <1>3, <1>4
        <4>. HIDE DEF a
        <4>2. a % buffersize = rp
          BY <1>3, <4>1, ModSmall
        <4>. QED
          BY <4>2 DEF a
      <3>. QED
        BY <3>1, <3>2
    <2>4. spacefree = rem(rp, buffersize) - 1 /\ spacefree' = rem(rp + buffersize, buffersize) - 1
      BY <1>1, <2>2 DEF spacefree, rem
    <2>. QED
      BY <1>3, <1>4, <2>3, <2>4 DEF rem
  <1>. QED
    BY <1>5, <1>6

LEMMA SpacePreserved ==
    ASSUME IInv, SpaceInv, Next, QuietOpen
    PROVE  SpaceInv'
  <1>0. TypeOK /\ RingInv /\ pc \in [Procs -> PC]
    BY DEF IInv, TypeOK
  <1>1. ASSUME UNCHANGED <<pc, inq, outq, rp, wp, buffersize>> PROVE SpaceInv'
    BY <1>1 DEF SpaceInv, NobodyInCall, WriterAsleep, MakingSpace, spacefree
  <1>2. ASSUME NEW n \in NewSizes, Ioctsize(n) PROVE SpaceInv'
    BY <1>1, <1>2 DEF Ioctsize, ring
  <1>3. ASSUME NEW p \in Procs, Elsewhere(p) PROVE SpaceInv'
    BY <1>1, <1>3 DEF Elsewhere, Fasync, Signal, ring
  <1>4. ASSUME NEW p \in Procs, Starts(p) \/ TakeMutex(p) \/ Interrupted(p) \/ Step(p)
        PROVE  SpaceInv'
    <2>1. NobodyInCall'
      BY <1>0, <1>4, CallSteps, NobodyKept DEF SpaceInv
    <2>2. SUFFICES ASSUME NEW q \in Procs, WriterAsleep(q)'
                   PROVE  spacefree' = 0 \/ MakingSpace'
      BY <2>1 DEF SpaceInv
    <2>3. CASE WriteCheck(p) \/ PollTest(p)
      <3>1. ~Stores(p) /\ pc[p] # "r_wake"
        BY <2>3 DEF Stores, WriteCheck, PollTest, OpenAlloc, OpenSize, OpenWp, OpenRp, ReadCopy, ReadWrap,
                    WriteCopy, WriteWrap
      <3>2. (MakingSpace => MakingSpace') /\ spacefree' = spacefree
        BY <1>0, <1>4, <3>1, QuietSteps, MakingSpaceKept
      <3>3. WriterAsleep(q) \/ spacefree = 0
        <4>1. CASE WriteCheck(p)
          BY <1>0, <2>2, <4>1 DEF WriteCheck, WriterAsleep, Goto
        <4>2. CASE PollTest(p)
          BY <1>0, <2>2, <4>2 DEF PollTest, Polled, WriterAsleep, Goto, Return
        <4>. QED
          BY <2>3, <4>1, <4>2
      <3>. QED
        BY <3>2, <3>3 DEF SpaceInv
    <2>4. CASE ReadWake(p)
      BY <2>2, <2>4 DEF ReadWake, WriterAsleep
    <2>5. CASE ~WriteCheck(p) /\ ~PollTest(p) /\ ~ReadWake(p)
      <3>1. WriterAsleep(q)
        BY <1>0, <1>4, <2>2, <2>5, UpSteps, WriterAsleepBefore
      <3>2. spacefree = 0 \/ MakingSpace
        BY <3>1 DEF SpaceInv
      <3>3. pc[p] \notin OpenPC
        BY <3>1 DEF SpaceInv, NobodyInCall, WriterAsleep, OpenPC
      <3>4. CASE ~Stores(p)
        <4>1. pc[p] # "r_wake"
          BY <1>4, <2>5, <3>4 DEF Step, Starts, TakeMutex, Interrupted, Lock, LockInterrupted,
               OpenStart, ReleaseStart, ReadStart, WriteStart, PollStart, Stores,
               OpenNoMemory, ReleasePut, ReadEmpty, ReadPrepare, ReadReady, ReadSleep, ReadWoken,
               ReadFault, WriteFull, WritePrepare, WriteWoken, WriteFinish, WriteFault, WriteWake,
               WriteSigio, PollWoken
        <4>. QED
          BY <1>0, <1>4, <3>2, <3>4, <4>1, QuietSteps, MakingSpaceKept
      <3>5. CASE ReadCopy(p) \/ ReadWrap(p)
        BY <1>0, <3>5 DEF ReadCopy, ReadWrap, Goto, MakingSpace
      <3>6. CASE WriteCopy(p)
        <4>1. MakingSpace /\ pc[p] = "w_test" /\ pc' = [pc EXCEPT ![p] = "w_wrap"]
          BY <3>2, <3>6 DEF WriteCopy, Goto
        <4>. QED
          BY <1>0, <4>1 DEF MakingSpace
      <3>7. CASE WriteWrap(p)
        <4>1. spacefree' = spacefree /\ pc[p] = "w_wrap" /\ pc' = [pc EXCEPT ![p] = "w_wake"]
          BY <3>7, WriteWrapSpace DEF WriteWrap, Goto
        <4>2. MakingSpace => MakingSpace'
          BY <1>0, <4>1 DEF MakingSpace
        <4>. QED
          BY <3>2, <4>1, <4>2
      <3>8. ~(OpenAlloc(p) \/ OpenSize(p) \/ OpenWp(p) \/ OpenRp(p))
        BY <3>3 DEF OpenAlloc, OpenSize, OpenWp, OpenRp, OpenPC
      <3>. QED
        BY <3>4, <3>5, <3>6, <3>7, <3>8 DEF Stores
    <2>. QED
      BY <2>3, <2>4, <2>5
  <1>. QED
    BY <1>2, <1>3, <1>4, NextSteps

\* No writer, in write or in select, sleeps on space, as long as nobody opens the
\* device during a call: every wake-up that a writer needs is on its way, although
\* scull_getwritespace looks at the space without the mutex.
THEOREM PipeNoLostWriter == QuietSpec => []NoLostWriter
  <1>1. Init => SpaceInv
    BY DEF Init, SpaceInv, NobodyInCall, WriterAsleep, OpenPC
  <1>2. IInv /\ SpaceInv /\ [Next /\ QuietOpen]_vars => SpaceInv'
    <2>1. SpaceInv /\ UNCHANGED vars => SpaceInv'
      BY DEF SpaceInv, NobodyInCall, WriterAsleep, MakingSpace, spacefree, vars, ring
    <2>. QED
      BY <2>1, SpacePreserved
  <1>3. IInv /\ SpaceInv => NoLostWriter
    <2>. SUFFICES ASSUME IInv, SpaceInv, mutex = None, spacefree # 0,
                         NEW p \in Procs, WriterAsleep(p)
                  PROVE  \E q \in Procs : pc[q] = "r_wake"
      BY DEF NoLostWriter
    <2>1. \A q \in Procs : pc[q] \notin HoldPC
      BY ProcAssumption DEF IInv, TypeOK, MutexInv
    <2>. QED
      BY <2>1 DEF SpaceInv, MakingSpace, HoldPC
  <1>4. QuietSpec => Spec
    BY PTL DEF QuietSpec, Spec
  <1>. QED
    BY <1>1, <1>2, <1>3, <1>4, SpecIInv, PTL DEF QuietSpec

-----------------------------------------------------------------------------
(* Who has the device open.                                                *)

\* The points of a process that has an open file, and is closing it or is not.
ClosingPC == {"c_lock", "c_put"}
UsingPC   == PC \ ({"closed"} \cup OpenPC \cup ClosingPC)

\* The invariant behind BufferLifetime and AsyncOpen: the counts are exact in every
\* state, the buffer is there while an open is half done, and a file leaves the
\* asynchronous queue as soon as its release begins.
UseInv ==
    /\ nreaders = Cardinality(Opened \cap Readers)
    /\ nwriters = Cardinality(Opened \cap Writers)
    /\ Resetting => buffer # 0
    /\ ~Resetting => ((buffer = 0) <=> (Opened = {}))
    /\ \A q \in async_queue : pc[q] \in UsingPC

\* The step of p opens and closes no file.
FileMove(p) ==
    /\ UNCHANGED <<buffer, nreaders, nwriters>> /\ async_queue' \subseteq async_queue
    /\ \/ Moves(p, OutsidePC, OutsidePC)
       \/ Moves(p, ClosingPC, ClosingPC)
       \/ Moves(p, UsingPC, UsingPC)
       \/ Moves(p, UsingPC, {"c_lock"}) /\ p \notin async_queue'

\* The five actions that are not such a step.
Counts(p) == OpenAlloc(p) \/ OpenSize(p) \/ OpenWp(p) \/ OpenRp(p) \/ ReleasePut(p)

LEMMA FileSteps ==
    ASSUME NEW p \in Procs, Starts(p) \/ TakeMutex(p) \/ Interrupted(p) \/ Step(p), ~Counts(p)
    PROVE  FileMove(p)
  <1>. USE Points DEF FileMove, Moves, OutsidePC, ClosingPC, UsingPC, OpenPC, Goto, Return, ring, count
  <1>1. CASE Starts(p)
    BY <1>1 DEF Starts, OpenStart, ReleaseStart, ReadStart, WriteStart, PollStart
  <1>2. CASE TakeMutex(p)
    BY <1>2 DEF TakeMutex, Lock
  <1>3. CASE Interrupted(p)
    BY <1>3 DEF Interrupted, LockInterrupted
  <1>4. CASE OpenNoMemory(p) \/ PollTest(p) \/ PollWoken(p)
    BY <1>4 DEF OpenNoMemory, PollTest, PollWoken
  <1>5. CASE ReadEmpty(p) \/ ReadPrepare(p) \/ ReadReady(p) \/ ReadSleep(p) \/ ReadWoken(p)
    BY <1>5 DEF ReadEmpty, ReadPrepare, ReadReady, ReadSleep, ReadWoken
  <1>6. CASE ReadCopy(p) \/ ReadFault(p) \/ ReadWrap(p) \/ ReadWake(p)
    BY <1>6 DEF ReadCopy, ReadFault, ReadWrap, ReadWake
  <1>7. CASE WriteFull(p) \/ WritePrepare(p) \/ WriteCheck(p) \/ WriteWoken(p) \/ WriteFinish(p)
    BY <1>7 DEF WriteFull, WritePrepare, WriteCheck, WriteWoken, WriteFinish
  <1>8. CASE WriteCopy(p) \/ WriteFault(p) \/ WriteWrap(p) \/ WriteWake(p) \/ WriteSigio(p)
    BY <1>8 DEF WriteCopy, WriteFault, WriteWrap, WriteWake, WriteSigio
  <1>. QED
    BY <1>1, <1>2, <1>3, <1>4, <1>5, <1>6, <1>7, <1>8 DEF Step, Counts

\* A process that opens or closes its file changes the count of a set that it
\* belongs to by one, and no other.
LEMMA CountChange ==
    ASSUME NEW S \in SUBSET Procs, NEW O \in SUBSET Procs, NEW p \in Procs
    PROVE  /\ p \notin O => Cardinality((O \cup {p}) \cap S) =
                 IF p \in S THEN Cardinality(O \cap S) + 1 ELSE Cardinality(O \cap S)
           /\ p \in O => Cardinality((O \ {p}) \cap S) =
                 IF p \in S THEN Cardinality(O \cap S) - 1 ELSE Cardinality(O \cap S)
           /\ Cardinality(O \cap S) \in Nat
           /\ Cardinality(O \cap S) = 0 <=> O \cap S = {}
  <1>1. IsFiniteSet(O \cap S)
    BY ProcAssumption, FS_Subset
  <1>2. Cardinality(O \cap S) \in Nat
    BY <1>1, FS_CardinalityType
  <1>3. Cardinality(O \cap S) = 0 <=> O \cap S = {}
    BY <1>1, FS_EmptySet
  <1>4. ASSUME p \notin O
        PROVE  Cardinality((O \cup {p}) \cap S) =
                 IF p \in S THEN Cardinality(O \cap S) + 1 ELSE Cardinality(O \cap S)
    <2>1. CASE p \in S
      <3>1. (O \cup {p}) \cap S = (O \cap S) \cup {p} /\ p \notin O \cap S
        BY <1>4, <2>1
      <3>. QED
        BY <1>1, <2>1, <3>1, FS_AddElement
    <2>2. CASE p \notin S
      <3>1. (O \cup {p}) \cap S = O \cap S
        BY <2>2
      <3>. QED
        BY <2>2, <3>1
    <2>. QED
      BY <2>1, <2>2
  <1>5. ASSUME p \in O
        PROVE  Cardinality((O \ {p}) \cap S) =
                 IF p \in S THEN Cardinality(O \cap S) - 1 ELSE Cardinality(O \cap S)
    <2>1. CASE p \in S
      <3>1. (O \ {p}) \cap S = (O \cap S) \ {p} /\ p \in O \cap S
        BY <1>5, <2>1
      <3>. QED
        BY <1>1, <2>1, <3>1, FS_RemoveElement
    <2>2. CASE p \notin S
      <3>1. (O \ {p}) \cap S = O \cap S
        BY <2>2
      <3>. QED
        BY <2>2, <3>1
    <2>. QED
      BY <2>1, <2>2
  <1>. QED
    BY <1>2, <1>3, <1>4, <1>5

LEMMA FilePreserved ==
    ASSUME TypeOK, UseInv, NEW p \in Procs, FileMove(p)
    PROVE  UseInv'
  <1>1. PICK l \in PC : pc' = [pc EXCEPT ![p] = l]
    BY Points DEF FileMove, Moves, OutsidePC, ClosingPC, UsingPC
  <1>2. pc'[p] = l /\ \A q \in Procs \ {p} : pc'[q] = pc[q]
    BY <1>1 DEF TypeOK
  <1>3. /\ pc[p] \notin {"o_size", "o_wp", "o_rp"} /\ l \notin {"o_size", "o_wp", "o_rp"}
        /\ pc[p] \in {"closed"} \cup OpenPC <=> l \in {"closed"} \cup OpenPC
        /\ pc[p] \in UsingPC => l \in UsingPC \/ p \notin async_queue'
    BY <1>1, <1>2, Points DEF TypeOK, FileMove, Moves, OutsidePC, ClosingPC, UsingPC, OpenPC
  <1>4. Opened' = Opened /\ (Resetting' <=> Resetting)
    BY <1>2, <1>3 DEF Opened, Resetting
  <1>5. \A q \in async_queue' : pc'[q] \in UsingPC
    BY <1>2, <1>3 DEF UseInv, FileMove, TypeOK
  <1>. QED
    BY <1>4, <1>5 DEF UseInv, FileMove

LEMMA UsePreserved ==
    ASSUME TypeOK, UseInv, Next
    PROVE  UseInv'
  <1>. USE DEF Goto, Return
  <1>1. ASSUME UNCHANGED <<buffer, count, pc>>, \A q \in async_queue' : pc[q] \in UsingPC
        PROVE  UseInv'
    BY <1>1 DEF UseInv, Opened, Resetting, count
  <1>2. ASSUME NEW n \in NewSizes, Ioctsize(n) PROVE UseInv'
    BY <1>1, <1>2 DEF Ioctsize, ring, UseInv
  <1>3. ASSUME NEW p \in Procs, Elsewhere(p) PROVE UseInv'
    <2>1. CASE Fasync(p)
      <3>1. "idle" \in UsingPC
        BY Points DEF UsingPC, OpenPC, ClosingPC
      <3>. QED
        BY <1>1, <2>1, <3>1 DEF Fasync, ring, UseInv
    <2>2. CASE Signal(p)
      BY <1>1, <2>2 DEF Signal, ring, UseInv
    <2>. QED
      BY <1>3, <2>1, <2>2 DEF Elsewhere
  <1>4. ASSUME NEW p \in Procs, OpenAlloc(p) \/ OpenSize(p) \/ OpenWp(p) PROVE UseInv'
    <2>1. /\ pc'[p] \in {"o_size", "o_wp", "o_rp"} /\ pc[p] \in OpenPC
          /\ \A q \in Procs \ {p} : pc'[q] = pc[q]
          /\ UNCHANGED <<nreaders, nwriters, async_queue>>
      BY <1>4 DEF TypeOK, OpenAlloc, OpenSize, OpenWp, OpenPC, count
    <2>2. Opened' = Opened /\ Resetting'
      BY <2>1 DEF Opened, Resetting, OpenPC
    <2>3. buffer' # 0
      <3>1. CASE OpenAlloc(p)
        BY <3>1, SlotOfSize DEF OpenAlloc, TypeOK
      <3>2. CASE OpenSize(p) \/ OpenWp(p)
        <4>1. Resetting
          BY <3>2 DEF OpenSize, OpenWp, Resetting
        <4>. QED
          BY <3>2, <4>1 DEF OpenSize, OpenWp, UseInv
      <3>. QED
        BY <1>4, <3>1, <3>2
    <2>4. \A q \in async_queue' : pc'[q] \in UsingPC
      BY <2>1 DEF UseInv, UsingPC, TypeOK
    <2>. QED
      BY <2>1, <2>2, <2>3, <2>4 DEF UseInv
  <1>5. ASSUME NEW p \in Procs, OpenRp(p) PROVE UseInv'
    <2>1. /\ pc[p] = "o_rp" /\ pc'[p] = "idle" /\ \A q \in Procs \ {p} : pc'[q] = pc[q]
          /\ UNCHANGED <<buffer, async_queue>>
      BY <1>5 DEF TypeOK, OpenRp
    <2>2. Opened' = Opened \cup {p} /\ p \notin Opened
      BY <2>1 DEF Opened, OpenPC
    <2>3. buffer # 0
      BY <2>1 DEF UseInv, Resetting
    <2>4. /\ nreaders' = Cardinality(Opened' \cap Readers)
          /\ nwriters' = Cardinality(Opened' \cap Writers)
      <3>1. Readers \in SUBSET Procs /\ Writers \in SUBSET Procs /\ Opened \in SUBSET Procs
        BY ProcAssumption DEF Opened
      <3>2. ASSUME NEW S \in SUBSET Procs
            PROVE  Cardinality(Opened' \cap S) =
                     IF p \in S THEN Cardinality(Opened \cap S) + 1 ELSE Cardinality(Opened \cap S)
        BY <2>2, <3>1, CountChange
      <3>. QED
        BY <1>5, <3>1, <3>2 DEF OpenRp, UseInv
    <2>5. \A q \in async_queue' : pc'[q] \in UsingPC
      BY <2>1 DEF UseInv, UsingPC, OpenPC, TypeOK
    <2>. QED
      BY <2>1, <2>2, <2>3, <2>4, <2>5 DEF UseInv
  <1>6. ASSUME NEW p \in Procs, ReleasePut(p) PROVE UseInv'
    <2>1. /\ pc[p] = "c_put" /\ pc'[p] = "closed" /\ \A q \in Procs \ {p} : pc'[q] = pc[q]
          /\ UNCHANGED async_queue
      BY <1>6 DEF TypeOK, ReleasePut
    <2>2. Opened' = Opened \ {p} /\ p \in Opened
      BY <2>1 DEF Opened, OpenPC
    <2>3. ~Resetting /\ ~Resetting'
      BY <2>1, Exclusion DEF Resetting, HoldPC
    <2>4. Readers \in SUBSET Procs /\ Writers \in SUBSET Procs /\ Opened \in SUBSET Procs
      BY ProcAssumption DEF Opened
    <2>5. /\ nreaders' = Cardinality(Opened' \cap Readers)
          /\ nwriters' = Cardinality(Opened' \cap Writers)
      BY <1>6, <2>2, <2>4, CountChange, ZenonT(40) DEF ReleasePut, UseInv
    <2>6. /\ nreaders' \in Nat /\ nwriters' \in Nat
          /\ nreaders' = 0 <=> Opened' \cap Readers = {}
          /\ nwriters' = 0 <=> Opened' \cap Writers = {}
      <3>1. Opened' \in SUBSET Procs
        BY <2>2, <2>4
      <3>. QED
        BY <2>4, <2>5, <3>1, CountChange
    <2>7. nreaders' + nwriters' = 0 <=> Opened' = {}
      <3>1. nreaders' + nwriters' = 0 <=> nreaders' = 0 /\ nwriters' = 0
        <4>1. \A i, j \in Nat : i + j = 0 <=> i = 0 /\ j = 0
          OBVIOUS
        <4>. QED
          BY <2>6, <4>1
      <3>2. Opened' = {} <=> Opened' \cap Readers = {} /\ Opened' \cap Writers = {}
        BY <2>2, <2>4, ProcAssumption
      <3>. QED
        BY <2>6, <3>1, <3>2
    <2>8. buffer # 0
      BY <2>2, <2>3 DEF UseInv
    <2>9. (buffer' = 0) <=> (Opened' = {})
      BY <1>6, <2>7, <2>8 DEF ReleasePut
    <2>10. \A q \in async_queue' : pc'[q] \in UsingPC
      BY <2>1 DEF UseInv, UsingPC, ClosingPC, TypeOK
    <2>. QED
      BY <2>3, <2>5, <2>9, <2>10 DEF UseInv
  <1>7. ASSUME NEW p \in Procs, Starts(p) \/ TakeMutex(p) \/ Interrupted(p) \/ Step(p)
        PROVE  UseInv'
    BY <1>4, <1>5, <1>6, <1>7, FileSteps, FilePreserved DEF Counts
  <1>. QED
    BY <1>2, <1>3, <1>7, NextSteps

LEMMA SpecUseInv == Spec => []UseInv
  <1>1. Init => UseInv
    <2>. SUFFICES ASSUME Init PROVE UseInv
      OBVIOUS
    <2>1. Opened = {} /\ ~Resetting
      BY DEF Init, Opened, Resetting
    <2>2. Cardinality(Opened \cap Readers) = 0 /\ Cardinality(Opened \cap Writers) = 0
      BY <2>1, FS_EmptySet
    <2>. QED
      BY <2>1, <2>2 DEF Init, UseInv
  <1>2. IInv /\ UseInv /\ [Next]_vars => UseInv'
    <2>1. UseInv /\ UNCHANGED vars => UseInv'
      BY DEF UseInv, Opened, Resetting, vars, ring, count
    <2>. QED
      BY <2>1, UsePreserved DEF IInv
  <1>. QED
    BY <1>1, <1>2, SpecIInv, PTL DEF Spec

\* Whatever mix of read, write and read-write files is opened and released, by any
\* number of processes, nreaders and nwriters are exact and the buffer is
\* allocated exactly while a file is open.
THEOREM PipeBufferLifetime == Spec => []BufferLifetime
  <1>1. IInv /\ UseInv => BufferLifetime
    <2>. SUFFICES ASSUME IInv, UseInv, mutex = None PROVE ~Resetting
      BY DEF BufferLifetime, UseInv
    <2>. QED
      BY ProcAssumption DEF IInv, TypeOK, MutexInv, Resetting, HoldPC
  <1>. QED
    BY <1>1, SpecIInv, SpecUseInv, PTL

\* kill_fasync in scull_p_write never meets a file that has been released.
THEOREM PipeAsyncOpen == Spec => []AsyncOpen
  <1>1. IInv /\ UseInv => AsyncOpen
    BY DEF IInv, TypeOK, UseInv, UsingPC, AsyncOpen, Opened
  <1>. QED
    BY <1>1, SpecIInv, SpecUseInv, PTL

-----------------------------------------------------------------------------
(* The refinement of PipeFifo: first the abstraction function, as a        *)
(* function of the memory m, the pointers r and w and the size b.          *)

wrapAt(i, b) == IF i >= b THEN i - b ELSE i
Span(r, w, b) ==
    IF wrapAt(w, b) >= wrapAt(r, b) THEN wrapAt(w, b) - wrapAt(r, b)
    ELSE wrapAt(w, b) - wrapAt(r, b) + b
View(m, r, w, b) == [i \in 1..Span(r, w, b) |-> m[wrapAt(wrapAt(r, b) + i - 1, b)]]

\* m is a memory with addresses T, and a ring of b bytes is in it.
IsRing(m, b, T, V) == m \in [T -> V] /\ b \in Nat \ {0} /\ 0..b - 1 \subseteq T

\* Two sequences of the same length with the same elements are equal.
LEMMA SameSeq ==
    ASSUME NEW S, NEW n \in Nat, NEW s, NEW t, s \in Seq(S), t \in Seq(S),
           Len(s) = n, Len(t) = n, \A i \in 1..n : s[i] = t[i]
    PROVE  s = t
  BY SeqEqual

LEMMA FunctionIsSeq ==
    ASSUME NEW S, NEW n \in Nat, NEW s \in [1..n -> S]
    PROVE  s \in Seq(S) /\ Len(s) = n
  OBVIOUS

\* The view is a sequence of at most b - 1 bytes, and reads the ring only.
ViewFacts(m, r, w, b, V) ==
    /\ Span(r, w, b) \in 0..b - 1
    /\ View(m, r, w, b) \in Seq(V)
    /\ Len(View(m, r, w, b)) = Span(r, w, b)
    /\ \A i \in 1..Span(r, w, b) :
         /\ wrapAt(wrapAt(r, b) + i - 1, b) \in 0..b - 1
         /\ View(m, r, w, b)[i] = m[wrapAt(wrapAt(r, b) + i - 1, b)]

LEMMA ViewSeq ==
    ASSUME NEW V, NEW T, NEW m, NEW b, IsRing(m, b, T, V),
           NEW r \in 0..b, NEW w \in 0..b
    PROVE  ViewFacts(m, r, w, b, V)
  <1>. USE DEF IsRing
  <1>1. wrapAt(r, b) \in 0..b - 1 /\ wrapAt(w, b) \in 0..b - 1
    BY DEF wrapAt
  <1>2. Span(r, w, b) \in 0..b - 1
    BY <1>1 DEF Span
  <1>3. \A i \in 1..Span(r, w, b) : wrapAt(wrapAt(r, b) + i - 1, b) \in 0..b - 1
    <2>. SUFFICES ASSUME NEW i \in 1..Span(r, w, b)
                  PROVE  wrapAt(wrapAt(r, b) + i - 1, b) \in 0..b - 1
      OBVIOUS
    <2>1. \A j \in 0..b - 1 : wrapAt(j + i - 1, b) \in 0..b - 1
      BY <1>2 DEF wrapAt
    <2>. QED
      BY <1>1, <2>1
  <1>4. View(m, r, w, b) \in [1..Span(r, w, b) -> V]
    BY <1>3 DEF View
  <1>5. Span(r, w, b) \in Nat
    BY <1>2
  <1>6. View(m, r, w, b) \in Seq(V) /\ Len(View(m, r, w, b)) = Span(r, w, b)
    BY <1>4, <1>5, FunctionIsSeq
  <1>7. \A i \in 1..Span(r, w, b) : View(m, r, w, b)[i] = m[wrapAt(wrapAt(r, b) + i - 1, b)]
    BY DEF View
  <1>. QED
    BY <1>2, <1>3, <1>6, <1>7 DEF ViewFacts

\* There are k bytes to take at r without wrapping.
Ready(k, r, w, b) ==
    /\ r \in 0..b - 1 /\ w \in 0..b - 1 /\ r # w
    /\ k \in Nat /\ k <= IF w > r THEN w - r ELSE b - r
Split(m, k, r, w, b) ==
    /\ k \in 0..Len(View(m, r, w, b))
    /\ [i \in 1..k |-> m[r + i - 1]] = SubSeq(View(m, r, w, b), 1, k)
    /\ View(m, r + k, w, b) = SubSeq(View(m, r, w, b), k + 1, Len(View(m, r, w, b)))

\* Taking k bytes at r: they are the oldest, and the others remain.
LEMMA ViewTake ==
    ASSUME NEW V, NEW T, NEW m, NEW k, NEW r, NEW w, NEW b,
           IsRing(m, b, T, V), Ready(k, r, w, b)
    PROVE  Split(m, k, r, w, b)
  <1>. DEFINE q == View(m, r, w, b)
              q2 == View(m, r + k, w, b)
              n == Span(r, w, b)
              n2 == Span(r + k, w, b)
              t == [i \in 1..k |-> m[r + i - 1]]
  <1>0. /\ m \in [T -> V] /\ b \in Nat \ {0} /\ 0..b - 1 \subseteq T
        /\ r \in 0..b - 1 /\ w \in 0..b - 1 /\ r # w
        /\ k \in Nat /\ k <= IF w > r THEN w - r ELSE b - r
    BY DEF IsRing, Ready
  <1>. USE <1>0
  <1>1. r \in 0..b /\ w \in 0..b /\ r + k \in 0..b
    OBVIOUS
  <1>2. /\ wrapAt(r, b) = r /\ wrapAt(w, b) = w
        /\ wrapAt(r + k, b) = IF r + k = b THEN 0 ELSE r + k
    BY <1>1 DEF wrapAt
  <1>3. n = (IF w > r THEN w - r ELSE w - r + b) /\ n2 = n - k /\ k <= n
    BY <1>1, <1>2 DEF Span
  <1>4. /\ n \in 0..b - 1 /\ q \in Seq(V) /\ Len(q) = n
        /\ \A i \in 1..n : q[i] = m[wrapAt(wrapAt(r, b) + i - 1, b)]
    <2>1. ViewFacts(m, r, w, b, V)
      BY <1>1, ViewSeq
    <2>. QED
      BY <2>1 DEF ViewFacts
  <1>5. /\ n2 \in 0..b - 1 /\ q2 \in Seq(V) /\ Len(q2) = n2
        /\ \A i \in 1..n2 : q2[i] = m[wrapAt(wrapAt(r + k, b) + i - 1, b)]
    <2>. DEFINE e == r + k
    <2>1. e \in 0..b
      BY <1>1
    <2>. HIDE DEF e
    <2>2. ViewFacts(m, e, w, b, V)
      BY <1>1, <2>1, ViewSeq
    <2>. QED
      BY <2>2 DEF e, ViewFacts
  <1>6. \A i \in 1..k : wrapAt(r + i - 1, b) = r + i - 1 /\ r + i - 1 \in 0..b - 1
    BY <1>1 DEF wrapAt
  <1>7. \A i \in 1..n2 : wrapAt(wrapAt(r + k, b) + i - 1, b) = wrapAt(r + (k + i) - 1, b)
    BY <1>1, <1>2, <1>3, <1>4, <1>5 DEF wrapAt
  <1>8. t \in Seq(V) /\ Len(t) = k /\ \A i \in 1..k : t[i] = m[r + i - 1]
    <2>1. t \in [1..k -> V]
      BY <1>6
    <2>. QED
      BY <2>1, FunctionIsSeq
  <1>. HIDE DEF q, q2, n, n2, t
  <1>9. \A i \in 1..n : q[i] \in V
    BY <1>4, ElementOfSeq
  <1>10. /\ SubSeq(q, 1, k) \in Seq(V) /\ Len(SubSeq(q, 1, k)) = k
         /\ \A i \in 1..k : SubSeq(q, 1, k)[i] = q[i]
    <2>1. \A i \in 1..k : q[i] \in V
      BY <1>3, <1>4, <1>9
    <2>2. /\ SubSeq(q, 1, k) \in Seq(V) /\ Len(SubSeq(q, 1, k)) = IF 1 <= k THEN k - 1 + 1 ELSE 0
          /\ \A i \in 1..k - 1 + 1 : SubSeq(q, 1, k)[i] = q[1 + i - 1]
      BY <2>1, SubSeqProperties
    <2>. QED
      BY <2>2
  <1>11. t = SubSeq(q, 1, k)
    <2>1. \A i \in 1..k : t[i] = SubSeq(q, 1, k)[i]
      BY <1>2, <1>3, <1>4, <1>6, <1>8, <1>10
    <2>. QED
      BY <1>8, <1>10, <2>1, SameSeq
  <1>12. /\ SubSeq(q, k + 1, n) \in Seq(V) /\ Len(SubSeq(q, k + 1, n)) = n2
         /\ \A i \in 1..n2 : SubSeq(q, k + 1, n)[i] = q[k + i]
    <2>1. \A i \in k + 1..n : q[i] \in V
      BY <1>3, <1>4, <1>9
    <2>2. /\ SubSeq(q, k + 1, n) \in Seq(V)
          /\ Len(SubSeq(q, k + 1, n)) = IF k + 1 <= n THEN n - (k + 1) + 1 ELSE 0
          /\ \A i \in 1..n - (k + 1) + 1 : SubSeq(q, k + 1, n)[i] = q[k + 1 + i - 1]
      <3>1. k + 1 \in Int /\ n \in Int
        BY <1>4
      <3>. QED
        BY <2>1, <3>1, SubSeqProperties
    <2>3. n - (k + 1) + 1 = n2 /\ \A i \in 1..n2 : k + 1 + i - 1 = k + i
      BY <1>3, <1>4, <1>5
    <2>. QED
      BY <1>3, <1>4, <1>5, <2>2, <2>3
  <1>13. q2 = SubSeq(q, k + 1, n)
    <2>1. \A i \in 1..n2 : q2[i] = SubSeq(q, k + 1, n)[i]
      <3>. SUFFICES ASSUME NEW i \in 1..n2 PROVE q2[i] = SubSeq(q, k + 1, n)[i]
        OBVIOUS
      <3>1. k + i \in 1..n
        <4>1. n \in Int /\ n2 = n - k
          BY <1>3, <1>4
        <4>. QED
          BY <4>1
      <3>2. q[k + i] = m[wrapAt(r + (k + i) - 1, b)]
        BY <1>2, <1>4, <3>1
      <3>. QED
        BY <1>5, <1>7, <1>12, <3>2
    <2>2. n2 \in Nat
      BY <1>5
    <2>. QED
      BY <1>5, <1>12, <2>1, <2>2, SameSeq
  <1>14. k \in 0..Len(q)
    BY <1>3, <1>4
  <1>. QED
    BY <1>4, <1>11, <1>13, <1>14 DEF q, q2, n, n2, t, Split

\* There is room at w for k bytes, and m2 is m with the bytes s stored there.
Fits(k, r, w, b) ==
    /\ r \in 0..b - 1 /\ w \in 0..b - 1
    /\ k \in Nat /\ k <= b - 1 - Span(r, w, b)
    /\ k <= IF w >= r THEN b - w ELSE r - w - 1
Overlaid(m2, m, s, k, w, b, V) ==
    /\ s \in [1..k -> V]
    /\ \A i \in 0..b - 1 : m2[i] = IF i - w + 1 \in 1..k THEN s[i - w + 1] ELSE m[i]
Appended(m2, m, s, k, r, w, b) ==
    /\ View(m2, r, w, b) = View(m, r, w, b)
    /\ View(m2, r, w + k, b) = View(m, r, w, b) \o s

\* Storing the bytes s at w leaves the view alone, and appends s to it when w
\* moves behind them.
LEMMA ViewPut ==
    ASSUME NEW V, NEW T, NEW m, NEW m2, NEW s, NEW k, NEW r, NEW w, NEW b,
           IsRing(m, b, T, V), IsRing(m2, b, T, V),
           Fits(k, r, w, b), Overlaid(m2, m, s, k, w, b, V)
    PROVE  Appended(m2, m, s, k, r, w, b)
  <1>. DEFINE q == View(m, r, w, b)
              p2 == View(m2, r, w, b)
              q2 == View(m2, r, w + k, b)
              n == Span(r, w, b)
              n2 == Span(r, w + k, b)
              at(i) == wrapAt(r + i - 1, b)
  <1>0. /\ b \in Nat \ {0}
        /\ r \in 0..b - 1 /\ w \in 0..b - 1
        /\ k \in Nat /\ k <= b - 1 - Span(r, w, b)
        /\ k <= IF w >= r THEN b - w ELSE r - w - 1
        /\ s \in [1..k -> V]
        /\ \A i \in 0..b - 1 : m2[i] = IF i - w + 1 \in 1..k THEN s[i - w + 1] ELSE m[i]
    BY DEF IsRing, Fits, Overlaid
  <1>. USE <1>0
  <1>1. r \in 0..b /\ w \in 0..b /\ w + k \in 0..b
    OBVIOUS
  <1>2. /\ wrapAt(r, b) = r /\ wrapAt(w, b) = w
        /\ wrapAt(w + k, b) = IF w + k = b THEN 0 ELSE w + k
    BY <1>1 DEF wrapAt
  <1>3. n = (IF w >= r THEN w - r ELSE w - r + b)
    BY <1>2 DEF Span
  <1>4. n2 = n + k /\ n \in 0..b - 1 /\ k <= b - 1 - n
    <2>1. n2 = IF wrapAt(w + k, b) >= r THEN wrapAt(w + k, b) - r ELSE wrapAt(w + k, b) - r + b
      BY <1>2 DEF Span
    <2>2. n \in 0..b - 1 /\ k <= b - 1 - n
      BY <1>3
    <2>. HIDE DEF n, n2
    <2>. QED
      BY <1>1, <1>2, <1>3, <2>1, <2>2
  <1>5. ASSUME NEW f, IsRing(f, b, T, V), NEW e \in 0..b
        PROVE  /\ View(f, r, e, b) \in Seq(V) /\ Len(View(f, r, e, b)) = Span(r, e, b)
               /\ \A i \in 1..Span(r, e, b) : at(i) \in 0..b - 1 /\ View(f, r, e, b)[i] = f[at(i)]
    <2>1. ViewFacts(f, r, e, b, V)
      BY <1>1, <1>5, ViewSeq
    <2>. QED
      BY <1>2, <2>1 DEF ViewFacts
  <1>6. /\ q \in Seq(V) /\ Len(q) = n /\ \A i \in 1..n : at(i) \in 0..b - 1 /\ q[i] = m[at(i)]
        /\ p2 \in Seq(V) /\ Len(p2) = n /\ \A i \in 1..n : p2[i] = m2[at(i)]
    BY <1>1, <1>5
  <1>7. /\ q2 \in Seq(V) /\ Len(q2) = n2
        /\ \A i \in 1..n2 : at(i) \in 0..b - 1 /\ q2[i] = m2[at(i)]
    <2>. DEFINE e == w + k
    <2>1. e \in 0..b
      BY <1>1
    <2>. HIDE DEF e
    <2>2. /\ View(m2, r, e, b) \in Seq(V) /\ Len(View(m2, r, e, b)) = Span(r, e, b)
          /\ \A i \in 1..Span(r, e, b) : at(i) \in 0..b - 1 /\ View(m2, r, e, b)[i] = m2[at(i)]
      BY <1>5, <2>1
    <2>. QED
      BY <2>2 DEF e
  <1>8. s \in Seq(V) /\ Len(s) = k
    BY FunctionIsSeq
  <1>. HIDE DEF q, p2, q2, n, n2
  <1>9. \A i \in 1..n : at(i) - w + 1 \notin 1..k
    BY <1>1, <1>3, <1>4 DEF wrapAt
  <1>10. \A i \in 1..n : m2[at(i)] = m[at(i)]
    BY <1>6, <1>9
  <1>11. \A i \in n + 1..n2 : at(i) - w + 1 = i - n /\ i - n \in 1..k
    BY <1>1, <1>3, <1>4 DEF wrapAt
  <1>12. \A i \in n + 1..n2 : m2[at(i)] = s[i - n]
    <2>. SUFFICES ASSUME NEW i \in n + 1..n2 PROVE m2[at(i)] = s[i - n]
      OBVIOUS
    <2>1. i \in 1..n2
      BY <1>4
    <2>2. at(i) \in 0..b - 1 /\ at(i) - w + 1 = i - n /\ i - n \in 1..k
      BY <1>7, <1>11, <2>1
    <2>. HIDE DEF at
    <2>. QED
      BY <2>2
  <1>13. p2 = q
    <2>1. n \in Nat
      BY <1>4
    <2>2. \A i \in 1..n : p2[i] = q[i]
      BY <1>6, <1>10, Zenon
    <2>. QED
      BY <1>6, <2>1, <2>2, SameSeq
  <1>14. /\ q \o s \in Seq(V) /\ Len(q \o s) = n + k
         /\ \A i \in 1..n + k : (q \o s)[i] = IF i <= n THEN q[i] ELSE s[i - n]
    <2>. HIDE DEF at
    <2>1. /\ q \o s \in Seq(V) /\ Len(q \o s) = Len(q) + Len(s)
          /\ \A i \in 1..Len(q) + Len(s) :
               (q \o s)[i] = IF i <= Len(q) THEN q[i] ELSE s[i - Len(q)]
      BY <1>6, <1>8, ConcatProperties
    <2>. QED
      BY <1>6, <1>8, <2>1, Zenon
  <1>15. q2 = q \o s
    <2>1. \A i \in 1..n2 : q2[i] = (q \o s)[i]
      <3>. SUFFICES ASSUME NEW i \in 1..n2 PROVE q2[i] = (q \o s)[i]
        OBVIOUS
      <3>1. i \in 1..n + k
        BY <1>4
      <3>2. CASE i <= n
        <4>1. i \in 1..n
          BY <3>2, <1>4
        <4>. QED
          BY <1>6, <1>7, <1>10, <1>14, <3>1, <3>2, <4>1
      <3>3. CASE ~(i <= n)
        <4>1. i \in n + 1..n2
          BY <3>3, <1>4
        <4>. QED
          BY <1>7, <1>12, <1>14, <3>1, <3>3, <4>1
      <3>. QED
        BY <3>2, <3>3
    <2>2. n2 \in Nat /\ Len(q \o s) = n2
      BY <1>4, <1>14
    <2>3. q2 \in Seq(V) /\ Len(q2) = n2 /\ q \o s \in Seq(V)
      BY <1>7, <1>14
    <2>. QED
      BY <2>1, <2>2, <2>3, SameSeq, Zenon
  <1>. QED
    BY <1>13, <1>15 DEF q, p2, q2, Appended

-----------------------------------------------------------------------------
(* What a call in progress has moved.                                      *)

\* The points at which a call has moved bytes and has not returned.
XferPC == {"r_wrap", "r_wake", "w_wrap", "w_wake", "w_sigio"}
XferInv == \A p \in Procs : pc[p] \notin XferPC => xfer[p] = <<>>

\* The step of p moves no bytes; it may end the call.
XferMove(p) ==
    \/ UNCHANGED xfer /\ (Moves(p, PC \ XferPC, PC \ XferPC) \/ Moves(p, XferPC, XferPC))
    \/ xfer' = [xfer EXCEPT ![p] = <<>>] /\ Moves(p, PC, PC \ XferPC)

LEMMA XferSteps ==
    ASSUME NEW p \in Procs, Starts(p) \/ TakeMutex(p) \/ Interrupted(p) \/ Step(p),
           ~ReadCopy(p), ~WriteCopy(p)
    PROVE  XferMove(p)
  <1>. USE Points DEF XferMove, Moves, XferPC, Goto, Return
  <1>1. CASE Starts(p)
    BY <1>1 DEF Starts, OpenStart, ReleaseStart, ReadStart, WriteStart, PollStart
  <1>2. CASE TakeMutex(p)
    BY <1>2 DEF TakeMutex, Lock
  <1>3. CASE Interrupted(p)
    BY <1>3 DEF Interrupted, LockInterrupted
  <1>4. CASE OpenAlloc(p) \/ OpenSize(p) \/ OpenNoMemory(p) \/ OpenWp(p) \/ OpenRp(p) \/ ReleasePut(p)
    BY <1>4 DEF OpenAlloc, OpenSize, OpenNoMemory, OpenWp, OpenRp, ReleasePut
  <1>5. CASE ReadEmpty(p) \/ ReadPrepare(p) \/ ReadReady(p) \/ ReadSleep(p) \/ ReadWoken(p)
    BY <1>5 DEF ReadEmpty, ReadPrepare, ReadReady, ReadSleep, ReadWoken
  <1>6. CASE ReadFault(p) \/ ReadWrap(p) \/ ReadWake(p)
    BY <1>6 DEF ReadFault, ReadWrap, ReadWake
  <1>7. CASE WriteFull(p) \/ WritePrepare(p) \/ WriteCheck(p) \/ WriteWoken(p) \/ WriteFinish(p)
    BY <1>7 DEF WriteFull, WritePrepare, WriteCheck, WriteWoken, WriteFinish
  <1>8. CASE WriteFault(p) \/ WriteWrap(p) \/ WriteWake(p) \/ WriteSigio(p)
    BY <1>8 DEF WriteFault, WriteWrap, WriteWake, WriteSigio
  <1>9. CASE PollTest(p) \/ PollWoken(p)
    BY <1>9 DEF PollTest, PollWoken
  <1>. QED
    BY <1>1, <1>2, <1>3, <1>4, <1>5, <1>6, <1>7, <1>8, <1>9 DEF Step

LEMMA XferPreserved ==
    ASSUME TypeOK, XferInv, Next
    PROVE  XferInv'
  <1>0. pc \in [Procs -> PC] /\ DOMAIN xfer = Procs
    BY DEF TypeOK
  <1>1. ASSUME NEW n \in NewSizes, Ioctsize(n) PROVE XferInv'
    BY <1>1 DEF Ioctsize, XferInv
  <1>2. ASSUME NEW p \in Procs, Elsewhere(p) PROVE XferInv'
    BY <1>2 DEF Elsewhere, Fasync, Signal, XferInv
  <1>3. ASSUME NEW p \in Procs, ReadCopy(p) \/ WriteCopy(p) PROVE XferInv'
    <2>1. /\ pc'[p] \in XferPC /\ \A q \in Procs \ {p} : pc'[q] = pc[q] /\ xfer'[q] = xfer[q]
      BY <1>0, <1>3 DEF ReadCopy, WriteCopy, Goto, XferPC
    <2>. QED
      BY <2>1 DEF XferInv
  <1>4. ASSUME NEW p \in Procs, XferMove(p) PROVE XferInv'
    <2>1. PICK l \in PC : pc' = [pc EXCEPT ![p] = l]
      BY <1>4, Points DEF XferMove, Moves, XferPC
    <2>2. \A q \in Procs \ {p} : pc'[q] = pc[q] /\ xfer'[q] = xfer[q]
      BY <1>0, <1>4, <2>1 DEF XferMove
    <2>3. pc'[p] \notin XferPC => xfer'[p] = <<>>
      <3>1. CASE UNCHANGED xfer /\ (pc[p] \notin XferPC \/ pc'[p] \in XferPC)
        BY <3>1 DEF XferInv
      <3>2. CASE xfer' = [xfer EXCEPT ![p] = <<>>]
        BY <1>0, <3>2
      <3>3. \/ UNCHANGED xfer /\ (pc[p] \notin XferPC \/ pc'[p] \in XferPC)
            \/ xfer' = [xfer EXCEPT ![p] = <<>>]
        BY <1>0, <1>4 DEF XferMove, Moves
      <3>. QED
        BY <3>1, <3>2, <3>3
    <2>. QED
      BY <2>2, <2>3 DEF XferInv
  <1>. QED
    BY <1>1, <1>2, <1>3, <1>4, XferSteps, NextSteps

-----------------------------------------------------------------------------
(* The steps of the device are steps of the queue, or change nothing of it.*)

FifoStep == Fifo!FifoNext \/ UNCHANGED Fifo!fifoVars

LEMMA UnreadIsView ==
    /\ Unread = IF Resetting THEN <<>> ELSE View(mem, rp, wp, buffersize)
    /\ Unread' = IF Resetting' THEN <<>> ELSE View(mem', rp', wp', buffersize')
  BY DEF Unread, Stored, wrapped, View, Span, wrapAt

\* A step that moves no bytes and keeps the unread ones is an open's, a return or
\* a stutter.
LEMMA QueueKept ==
    ASSUME TypeOK, XferInv, NEW p \in Procs, XferMove(p), CallMove(p), Unread' = Unread
    PROVE  FifoStep
  <1>. DEFINE O == {q \in Procs : pc[q] \in OpenPC}
              Out == {"closed", "idle"} \cup OpenPC
  <1>1. PICK l \in PC : pc' = [pc EXCEPT ![p] = l]
    BY Points DEF XferMove, Moves, XferPC
  <1>2. pc'[p] = l /\ \A q \in Procs \ {p} : pc'[q] = pc[q]
    BY <1>1 DEF TypeOK
  <1>3. O' \in {O, O \cup {p}, O \ {p}}
    <2>1. CASE pc[p] \in OpenPC <=> l \in OpenPC
      BY <1>2, <2>1
    <2>2. CASE pc[p] \in OpenPC /\ l \notin OpenPC
      <3>1. O' = O \ {p}
        BY <1>2, <2>2
      <3>. QED
        BY <3>1
    <2>3. CASE pc[p] \notin OpenPC /\ l \in OpenPC
      <3>1. O' = O \cup {p}
        BY <1>2, <2>3
      <3>. QED
        BY <3>1
    <2>. QED
      BY <2>1, <2>2, <2>3
  <1>4. UNCHANGED xfer \/ xfer' = [xfer EXCEPT ![p] = <<>>]
    BY DEF XferMove
  <1>5. CASE O' = O
    BY <1>4, <1>5 DEF FifoStep, Fifo!FifoNext, Fifo!fifoVars, Fifo!Return
  <1>6. CASE O' # O
    <2>1. pc[p] \in OpenPC \/ l \in OpenPC
      BY <1>2, <1>6
    <2>2. pc[p] \in {"closed"} \cup OpenPC
      BY <1>2, <2>1 DEF CallMove, Moves, OpenPC, TypeOK
    <2>3. pc[p] \notin XferPC
      BY <2>2 DEF XferPC, OpenPC
    <2>4. xfer[p] = <<>>
      BY <2>3 DEF XferInv
    <2>5. UNCHANGED xfer
      BY <1>4, <2>4 DEF TypeOK
    <2>. QED
      BY <1>3, <1>6, <2>5 DEF FifoStep, Fifo!FifoNext, Fifo!Open
  <1>. QED
    BY <1>5, <1>6

\* Only an open and a write store into the memory.
LEMMA MemSteps ==
    ASSUME NEW p \in Procs, Starts(p) \/ TakeMutex(p) \/ Interrupted(p) \/ Step(p),
           ~OpenAlloc(p), ~WriteCopy(p), ~WriteFault(p)
    PROVE  UNCHANGED mem
  <1>. USE DEF ring
  <1>1. CASE Starts(p) \/ TakeMutex(p) \/ Interrupted(p)
    BY <1>1 DEF Starts, OpenStart, ReleaseStart, ReadStart, WriteStart, PollStart, TakeMutex, Lock,
                Interrupted, LockInterrupted
  <1>2. CASE Step(p)
    BY <1>2 DEF Step, OpenNoMemory, OpenSize, OpenWp, OpenRp, ReleasePut, ReadEmpty, ReadPrepare, ReadReady,
                ReadSleep, ReadWoken, ReadCopy, ReadFault, ReadWrap, ReadWake, WriteFull,
                WritePrepare, WriteCheck, WriteWoken, WriteFinish, WriteWrap, WriteWake, WriteSigio,
                PollTest, PollWoken
  <1>. QED
    BY <1>1, <1>2

\* The memory holds the ring of the process that is about to copy.
LEMMA RingInMemory ==
    ASSUME IInv, NEW p \in Procs, pc[p] \in {"r_test", "w_test"}
    PROVE  IsRing(mem, buffersize, Slots, Bytes \cup {Junk})
  BY RingOwned, SlotOfSize DEF IInv, TypeOK, IsRing

\* What a write stores, in the terms of ViewPut.
LEMMA StoredFits ==
    ASSUME IInv, NEW p \in Procs, pc[p] = "w_test", spacefree # 0, NEW n \in Nat,
           NEW k \in 0..writeCount(n), NEW s \in [1..k -> Bytes]
    PROVE  /\ k \in Nat /\ k <= buffersize - 1 - Span(rp, wp, buffersize)
           /\ View(stored(s), rp, wp, buffersize) = View(mem, rp, wp, buffersize)
           /\ View(stored(s), rp, wp + k, buffersize) = View(mem, rp, wp, buffersize) \o s
  <1>. DEFINE V == Bytes \cup {Junk}
  <1>1. /\ ~Resetting /\ buffersize \in Sizes /\ buffersize \in Nat \ {0}
        /\ rp \in 0..buffersize - 1 /\ wp \in 0..buffersize - 1
    BY RingOwned
  <1>2. spacefree = IF rp = wp THEN buffersize - 1
                    ELSE IF rp > wp THEN rp - wp - 1
                    ELSE rp + buffersize - wp - 1
    BY <1>1, SpaceFree
  <1>3. spacefree = buffersize - 1 - Span(rp, wp, buffersize)
    BY <1>1, <1>2 DEF Span, wrapAt
  <1>4. /\ writeCount(n) \in Nat /\ writeCount(n) <= spacefree
        /\ writeCount(n) <= IF wp >= rp THEN buffersize - wp ELSE rp - wp - 1
    BY <1>1, <1>2 DEF writeCount, min
  <1>5. /\ k \in Nat /\ k <= buffersize - 1 - Span(rp, wp, buffersize)
        /\ k <= IF wp >= rp THEN buffersize - wp ELSE rp - wp - 1
    <2>1. spacefree \in Int
      BY <1>1, <1>2
    <2>. QED
      BY <1>1, <1>3, <1>4, <2>1
  <1>6. IsRing(mem, buffersize, Slots, V)
    BY RingInMemory
  <1>7. mem \in [Slots -> V]
    BY DEF IInv, TypeOK
  <1>8. stored(s) \in [Slots -> V]
    BY <1>5, <1>7, StoredType
  <1>9. IsRing(stored(s), buffersize, Slots, V)
    BY <1>6, <1>8 DEF IsRing
  <1>10. s \in [1..k -> V] /\ DOMAIN s = 1..k
    OBVIOUS
  <1>11. \A i \in 0..buffersize - 1 :
           stored(s)[i] = IF i - wp + 1 \in 1..k THEN s[i - wp + 1] ELSE mem[i]
    <2>1. \A i \in 0..buffersize - 1 : i \in Slots
      BY <1>1, SlotOfSize
    <2>. QED
      BY <1>10, <2>1 DEF stored
  <1>. HIDE DEF V
  <1>12. Overlaid(stored(s), mem, s, k, wp, buffersize, V) /\ Fits(k, rp, wp, buffersize)
    BY <1>1, <1>5, <1>10, <1>11 DEF Overlaid, Fits
  <1>13. Appended(stored(s), mem, s, k, rp, wp, buffersize)
    BY <1>6, <1>9, <1>12, ViewPut
  <1>. QED
    BY <1>5, <1>13 DEF Appended

\* A read takes the oldest bytes of the queue.
LEMMA ReadCopyGets ==
    ASSUME IInv, XferInv, NEW p \in Procs, ReadCopy(p)
    PROVE  Fifo!Get(p)
  <1>. DEFINE b == buffersize
              q == View(mem, rp, wp, b)
  <1>1. PICK n \in 0..MaxCount :
          /\ xfer' = [xfer EXCEPT ![p] = taken(readCount(n))]
          /\ rp' = rp + readCount(n)
    BY DEF ReadCopy
  <1>2. /\ pc[p] = "r_test" /\ pc' = [pc EXCEPT ![p] = "r_wrap"] /\ rp # wp
        /\ UNCHANGED <<buffersize, wp, mem>>
    BY DEF ReadCopy, Goto
  <1>3. /\ ~Resetting /\ b \in Nat \ {0}
        /\ rp \in 0..b - 1 /\ wp \in 0..b - 1
    BY <1>2, RingOwned
  <1>. DEFINE k == readCount(n)
  <1>4. k \in Nat /\ k <= IF wp > rp THEN wp - rp ELSE b - rp
    <2>1. n \in Nat
      BY CountAssumption
    <2>. QED
      BY <1>2, <1>3, <2>1 DEF readCount, min
  <1>5. IsRing(mem, b, Slots, Bytes \cup {Junk})
    BY <1>2, RingInMemory
  <1>. HIDE DEF k
  <1>6. /\ k \in 0..Len(q)
        /\ [i \in 1..k |-> mem[rp + i - 1]] = SubSeq(q, 1, k)
        /\ View(mem, rp + k, wp, b) = SubSeq(q, k + 1, Len(q))
    <2>1. Ready(k, rp, wp, b)
      BY <1>2, <1>3, <1>4 DEF Ready
    <2>2. Split(mem, k, rp, wp, b)
      BY <1>5, <2>1, ViewTake
    <2>. QED
      BY <2>2 DEF Split
  <1>7. \A r \in Procs : pc'[r] \in OpenPC <=> pc[r] \in OpenPC
    BY <1>2 DEF IInv, TypeOK, OpenPC
  <1>8. ~Resetting'
    BY <1>2, <1>3 DEF IInv, TypeOK, Resetting
  <1>9. Unread = q /\ Unread' = SubSeq(q, k + 1, Len(q))
    <2>1. rp' = rp + k
      BY <1>1 DEF k
    <2>. QED
      BY <1>2, <1>3, <1>6, <1>8, <2>1, UnreadIsView
  <1>10. xfer' = [xfer EXCEPT ![p] = SubSeq(q, 1, k)]
    BY <1>1, <1>6 DEF k, taken
  <1>11. xfer[p] = <<>>
    BY <1>2 DEF XferInv, XferPC
  <1>12. {r \in Procs : pc[r] \in OpenPC}' = {r \in Procs : pc[r] \in OpenPC}
    BY <1>7
  <1>. HIDE DEF q
  <1>. QED
    BY <1>6, <1>9, <1>10, <1>11, <1>12 DEF Fifo!Get

\* The queue holds at most the bytes of the largest buffer, less one.
LEMMA RoomInQueue ==
    ASSUME NEW s \in Sizes
    PROVE  Cardinality(Slots) \in Nat /\ s <= Cardinality(Slots)
  <1>1. s \in Nat \ {0} /\ 0..s - 1 \subseteq Slots
    BY SlotOfSize
  <1>2. Cardinality(Slots) \in Nat
    BY SlotAssumption, FS_CardinalityType
  <1>3. Cardinality(0..s - 1) <= Cardinality(Slots)
    BY <1>1, SlotAssumption, FS_Subset
  <1>4. Cardinality(0..s - 1) = s
    <2>. DEFINE e == s - 1
    <2>1. e \in Int /\ ~(0 > e) /\ e - 0 + 1 = s
      BY <1>1
    <2>. HIDE DEF e
    <2>2. Cardinality(0..e) = s
      BY <2>1, FS_Interval
    <2>. QED
      BY <2>2 DEF e
  <1>. QED
    BY <1>2, <1>3, <1>4

\* A write appends what it accepted, and there is room for it.
LEMMA WriteCopyPuts ==
    ASSUME IInv, XferInv, NEW p \in Procs, WriteCopy(p)
    PROVE  Fifo!Put(p)
  <1>. DEFINE b == buffersize
              q == View(mem, rp, wp, b)
              C == Cardinality(Slots) - 1
  <1>0. /\ pc[p] = "w_test" /\ pc' = [pc EXCEPT ![p] = "w_wrap"] /\ spacefree # 0
        /\ UNCHANGED <<buffersize, rp>>
    BY DEF WriteCopy, Goto
  <1>1. PICK n \in 0..MaxCount : \E s \in [1..writeCount(n) -> Bytes] :
          /\ mem' = stored(s)
          /\ wp' = wp + writeCount(n)
          /\ xfer' = [xfer EXCEPT ![p] = s]
    BY DEF WriteCopy
  <1>2. PICK s \in [1..writeCount(n) -> Bytes] :
          /\ mem' = stored(s)
          /\ wp' = wp + writeCount(n)
          /\ xfer' = [xfer EXCEPT ![p] = s]
    BY <1>1
  <1>3. /\ ~Resetting /\ b \in Sizes /\ b \in Nat \ {0}
        /\ rp \in 0..b - 1 /\ wp \in 0..b - 1
    BY <1>0, RingOwned
  <1>. DEFINE k == writeCount(n)
  <1>4. n \in Nat /\ k \in 0..k
    <2>1. n \in Nat
      BY CountAssumption
    <2>2. k \in Nat
      BY <1>0, <1>3, <2>1, CountBounds
    <2>. HIDE DEF k
    <2>. QED
      BY <2>1, <2>2
  <1>5. /\ k \in Nat /\ k <= b - 1 - Span(rp, wp, b)
        /\ View(stored(s), rp, wp + k, b) = q \o s
    BY <1>0, <1>4, StoredFits
  <1>6. Len(q) = Span(rp, wp, b) /\ Span(rp, wp, b) \in 0..b - 1
    <2>1. IsRing(mem, b, Slots, Bytes \cup {Junk})
      BY <1>0, RingInMemory
    <2>2. rp \in 0..b /\ wp \in 0..b
      BY <1>3
    <2>3. ViewFacts(mem, rp, wp, b, Bytes \cup {Junk})
      BY <2>1, <2>2, ViewSeq
    <2>. QED
      BY <2>3 DEF ViewFacts
  <1>7. k \in 0..C - Len(q)
    <2>1. Cardinality(Slots) \in Nat /\ b <= Cardinality(Slots)
      BY <1>3, RoomInQueue
    <2>. HIDE DEF q, k
    <2>. QED
      BY <1>3, <1>5, <1>6, <2>1
  <1>8. s \in Fifo!Messages(C - Len(q))
    BY <1>7 DEF Fifo!Messages
  <1>9. {r \in Procs : pc[r] \in OpenPC}' = {r \in Procs : pc[r] \in OpenPC}
    BY <1>0 DEF IInv, TypeOK, OpenPC
  <1>10. ~Resetting'
    BY <1>0, <1>3 DEF IInv, TypeOK, Resetting
  <1>11. Unread = q /\ Unread' = q \o s
    BY <1>0, <1>2, <1>3, <1>5, <1>10, UnreadIsView
  <1>12. xfer[p] = <<>>
    BY <1>0 DEF XferInv, XferPC
  <1>. HIDE DEF q, C
  <1>13. s \in Fifo!Messages((Cardinality(Slots) - 1) - Len(Unread))
    BY <1>8, <1>11 DEF C
  <1>14. Unread' = Unread \o s /\ xfer' = [xfer EXCEPT ![p] = s]
    BY <1>2, <1>11
  <1>. QED
    BY <1>9, <1>12, <1>13, <1>14 DEF Fifo!Put

\* Every other step keeps the unread bytes, except the open that drops them.
LEMMA UnreadKept ==
    ASSUME IInv, NEW p \in Procs, Starts(p) \/ TakeMutex(p) \/ Interrupted(p) \/ Step(p),
           ~OpenAlloc(p), ~ReadCopy(p), ~WriteCopy(p)
    PROVE  Unread' = Unread
  <1>. USE DEF IInv
  <1>0. pc \in [Procs -> PC] /\ rp \in Nat /\ wp \in Nat
    BY DEF TypeOK
  <1>1. CASE OpenSize(p) \/ OpenWp(p)
    <2>1. Resetting /\ Resetting'
      BY <1>0, <1>1 DEF OpenSize, OpenWp, Goto, Resetting
    <2>. QED
      BY <2>1, UnreadIsView
  <1>2. CASE OpenRp(p)
    <2>1. pc[p] = "o_rp" /\ pc' = [pc EXCEPT ![p] = "idle"] /\ rp' = 0 /\ wp' = wp /\ buffersize' = buffersize
      BY <1>2 DEF OpenRp, Return, Goto
    <2>2. Resetting
      BY <2>1 DEF Resetting
    <2>3. wp = 0
      BY <2>1 DEF RingInv
    <2>4. Span(0, 0, buffersize) = 0
      <3>1. buffersize \in Nat
        BY SizeAssumption DEF TypeOK
      <3>. QED
        BY <3>1 DEF Span, wrapAt
    <2>5. View(mem', rp', wp', buffersize') = <<>>
      BY <2>1, <2>3, <2>4 DEF View
    <2>. QED
      BY <2>2, <2>5, UnreadIsView
  <1>3. CASE ReadWrap(p) \/ WriteWrap(p)
    <2>1. pc[p] \in {"r_wrap", "w_wrap"} /\ \E l \in {"r_wake", "w_wake"} : pc' = [pc EXCEPT ![p] = l]
      BY <1>3 DEF ReadWrap, WriteWrap, Goto
    <2>2. ~Resetting /\ ~Resetting'
      <3>1. \A q \in Procs : pc[q] \notin {"o_size", "o_wp", "o_rp"}
        BY <2>1, Exclusion DEF HoldPC
      <3>. QED
        BY <1>0, <2>1, <3>1 DEF Resetting
    <2>3. buffersize \in Nat \ {0}
      <3>1. buffersize # 0
        BY <2>1 DEF RingInv
      <3>. QED
        BY <3>1, SlotOfSize DEF TypeOK
    <2>4. wrapAt(buffersize, buffersize) = 0 /\ wrapAt(0, buffersize) = 0
      BY <2>3 DEF wrapAt
    <2>5. /\ wrapAt(rp', buffersize) = wrapAt(rp, buffersize)
          /\ wrapAt(wp', buffersize) = wrapAt(wp, buffersize)
          /\ buffersize' = buffersize /\ mem' = mem
      BY <1>3, <2>4 DEF ReadWrap, WriteWrap
    <2>6. View(mem', rp', wp', buffersize') = View(mem, rp, wp, buffersize)
      BY <2>5 DEF View, Span
    <2>. QED
      BY <2>2, <2>6, UnreadIsView
  <1>4. CASE ~Stores(p)
    <2>1. QuietMove(p)
      BY <1>4, QuietSteps
    <2>2. Resetting' <=> Resetting
      <3>1. PICK l \in PC \ WrapPC : pc' = [pc EXCEPT ![p] = l] /\ pc[p] \notin WrapPC
        BY <2>1, Points DEF QuietMove, Moves, OutsidePC, WrapPC
      <3>. QED
        BY <1>0, <3>1 DEF Resetting, WrapPC
    <2>3. UNCHANGED <<buffersize, rp, wp>>
      BY <2>1 DEF QuietMove
    <2>4. CASE ~WriteFault(p)
      <3>1. UNCHANGED mem
        BY <2>4, MemSteps
      <3>. QED
        BY <2>2, <2>3, <3>1, UnreadIsView
    <2>5. CASE WriteFault(p)
      <3>1. PICK k \in 0..writeCount(MaxCount) - 1 : \E s \in [1..k -> Bytes] : mem' = stored(s)
        BY <2>5 DEF WriteFault
      <3>2. PICK s \in [1..k -> Bytes] : mem' = stored(s)
        BY <3>1
      <3>3. pc[p] = "w_test" /\ spacefree # 0 /\ MaxCount \in Nat
        BY <2>5, CountAssumption DEF WriteFault
      <3>4. k \in 0..writeCount(MaxCount)
        <4>1. writeCount(MaxCount) \in Nat
          BY <3>3, CountBounds, RingOwned
        <4>. QED
          BY <4>1
      <3>5. View(mem', rp, wp, buffersize) = View(mem, rp, wp, buffersize)
        BY <3>2, <3>3, <3>4, StoredFits
      <3>. QED
        BY <2>2, <2>3, <3>5, UnreadIsView
    <2>. QED
      BY <2>4, <2>5
  <1>. QED
    BY <1>1, <1>2, <1>3, <1>4 DEF Stores

LEMMA PipeRefines ==
    ASSUME IInv, XferInv, Next
    PROVE  FifoStep
  <1>0. TypeOK
    BY DEF IInv
  <1>1. ASSUME UNCHANGED <<ring, pc, xfer>> PROVE FifoStep
    <2>1. Unread' = Unread
      BY <1>1 DEF Unread, Stored, wrapped, Resetting, ring
    <2>. QED
      BY <1>1, <2>1 DEF FifoStep, Fifo!fifoVars
  <1>2. ASSUME NEW n \in NewSizes, Ioctsize(n) PROVE FifoStep
    BY <1>1, <1>2 DEF Ioctsize
  <1>3. ASSUME NEW p \in Procs, Elsewhere(p) PROVE FifoStep
    BY <1>1, <1>3 DEF Elsewhere, Fasync, Signal
  <1>4. ASSUME NEW p \in Procs, Starts(p) \/ TakeMutex(p) \/ Interrupted(p) \/ Step(p)
        PROVE  FifoStep
    <2>1. CASE OpenAlloc(p)
      <3>1. pc[p] = "o_alloc" /\ pc' = [pc EXCEPT ![p] = "o_size"] /\ UNCHANGED xfer
        BY <2>1 DEF OpenAlloc, Goto
      <3>2. Resetting'
        BY <1>0, <3>1 DEF TypeOK, Resetting
      <3>3. Unread' = <<>>
        BY <3>2, UnreadIsView
      <3>4. /\ {q \in Procs : pc[q] \in OpenPC}' = {q \in Procs : pc[q] \in OpenPC}
            /\ {q \in Procs : pc[q] \in OpenPC} # {}
        BY <1>0, <3>1 DEF TypeOK, OpenPC
      <3>. QED
        BY <3>1, <3>3, <3>4 DEF FifoStep, Fifo!FifoNext, Fifo!Reset
    <2>2. CASE ReadCopy(p)
      BY <2>2, ReadCopyGets DEF FifoStep, Fifo!FifoNext
    <2>3. CASE WriteCopy(p)
      BY <2>3, WriteCopyPuts DEF FifoStep, Fifo!FifoNext
    <2>4. CASE ~OpenAlloc(p) /\ ~ReadCopy(p) /\ ~WriteCopy(p)
      <3>1. Unread' = Unread
        BY <1>4, <2>4, UnreadKept
      <3>2. XferMove(p) /\ CallMove(p)
        BY <1>4, <2>4, XferSteps, CallSteps
      <3>. QED
        BY <1>0, <3>1, <3>2, QueueKept
    <2>. QED
      BY <2>1, <2>2, <2>3, <2>4
  <1>. QED
    BY <1>2, <1>3, <1>4, NextSteps

\* A scullpipe is a bounded first-in first-out queue, for any number of processes,
\* any sizes and any resizing between opens: reads deliver the bytes of the writes,
\* in order, each once; a failed call moves nothing; only an open drops bytes.
THEOREM PipeFifoRefined == Spec => FifoRefined
  <1>1. Init => XferInv /\ Fifo!FifoInit
    <2>. SUFFICES ASSUME Init PROVE XferInv /\ Fifo!FifoInit
      OBVIOUS
    <2>1. ~Resetting /\ {p \in Procs : pc[p] \in OpenPC} = {}
      BY DEF Init, Resetting, OpenPC
    <2>2. Stored = 0
      BY DEF Init, Stored, wrapped
    <2>3. Unread = <<>>
      BY <2>1, <2>2 DEF Unread
    <2>. QED
      BY <2>1, <2>3 DEF Init, XferInv, Fifo!FifoInit
  <1>2. IInv /\ XferInv /\ [Next]_vars => XferInv' /\ FifoStep
    <2>1. XferInv /\ UNCHANGED vars => XferInv'
      BY DEF XferInv, vars
    <2>2. UNCHANGED vars => FifoStep
      <3>. SUFFICES ASSUME UNCHANGED vars PROVE FifoStep
        OBVIOUS
      <3>1. Unread' = Unread
        BY DEF Unread, Stored, wrapped, Resetting, vars, ring
      <3>. QED
        BY <3>1 DEF FifoStep, Fifo!fifoVars, vars
    <2>. QED
      BY <2>1, <2>2, XferPreserved, PipeRefines DEF IInv
  <1>3. FifoStep => [Fifo!FifoNext]_Fifo!fifoVars
    BY DEF FifoStep
  <1>. QED
    BY <1>1, <1>2, <1>3, SpecIInv, PTL DEF Spec, FifoRefined, Fifo!FifoSpec
=============================================================================
