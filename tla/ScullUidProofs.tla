---------------------------- MODULE ScullUidProofs --------------------------
(***************************************************************************)
(* Proofs about ScullUid, for any finite set of processes, any users and   *)
(* capabilities, blocking or not.                                          *)
(***************************************************************************)
EXTENDS ScullUid, FiniteSetTheorems, TLAPS

\* A release is between its unlock and its wake-up.
WakePending == \E q \in UidProcs : w_pc[q] = "c_wake"

\* A waiter that has seen a count other than 0 and is still on the queue: when the
\* count is 0 after all, the release that brought it there has yet to wake the queue.
\* Only then can the owner change, so that a sleeper who may share because the owner
\* changed has a wake-up coming too: that part is NoLostOpener.
TestedWaiters ==
    \A p \in UidProcs :
      w_pc[p] = "o_owner" /\ p \in scull_w_wait /\ scull_w_count = 0 => WakePending

UidInv == UidTypeOK /\ OneUser /\ TestedWaiters /\ NoLostOpener

\* The owners can be counted.
LEMMA OwningFinite == IsFiniteSet(Owning) /\ Cardinality(Owning) \in Nat
  <1>1. Owning \subseteq UidProcs
    BY DEF Owning
  <1>. QED
    BY <1>1, UidAssumption, FS_Subset, FS_CardinalityType

\* Nobody owns the device at the start.
LEMMA UidInitInv == UidInit => UidInv
  <1>. SUFFICES ASSUME UidInit PROVE UidInv
    OBVIOUS
  <1>1. Owning = {}
    BY DEF UidInit, Owning, WOwnPC
  <1>2. OneUser
    BY <1>1, FS_EmptySet DEF UidInit, OneUser
  <1>. QED
    BY <1>2 DEF UidInit, UidInv, UidTypeOK, UidPC, TestedWaiters, NoLostOpener

\* Every step keeps the types.
LEMMA UidTypeStep ==
    ASSUME UidTypeOK, UidNext
    PROVE  UidTypeOK'
  <1>. PICK p \in UidProcs : WOpenStart(p) \/ WRwLock(p) \/ UidStep(p) \/ WRelease(p) \/ WSignal(p)
    BY DEF UidNext
  <1>1. \/ w_pc' = w_pc
        \/ \E l \in UidPC : UidGoto(p, l)
    BY Zenon DEF WOpenStart, WRwLock, UidStep, WRelease, WSignal, WTake, WBusy, WPrepare,
       WCheckCount, WCheckOwner, WWoken, WTrimmed, WRwDone, WReleaseWake, UidPC, WWaitPC, WOwnPC
  <1>2. scull_w_wait' \in {scull_w_wait, scull_w_wait \cup {p}, scull_w_wait \ {p}, {}}
    BY DEF WOpenStart, WRwLock, UidStep, WRelease, WSignal, WTake, WBusy, WPrepare,
       WCheckCount, WCheckOwner, WWoken, WTrimmed, WRwDone, WReleaseWake, UidGoto, device
  <1>. QED
    BY <1>1, <1>2 DEF UidTypeOK, UidGoto

\* The steps that leave the set of open files as it is.
LEMMA OneUserQuiet ==
    ASSUME OneUser, Owning' = Owning, UNCHANGED device
    PROVE  OneUser'
  BY DEF OneUser, MayShare, device

\* Every step keeps the count exact and the owners of one user.
LEMMA OneUserStep ==
    ASSUME UidTypeOK, OneUser, UidNext
    PROVE  OneUser'
  <1>. PICK p \in UidProcs : WOpenStart(p) \/ WRwLock(p) \/ UidStep(p) \/ WRelease(p) \/ WSignal(p)
    BY DEF UidNext
  <1>. USE DEF UidTypeOK, UidGoto
  <1>1. CASE WTake(p)
    <2>1. p \notin Owning /\ Owning' = Owning \cup {p}
      BY <1>1 DEF WTake, Owning, WOwnPC, UidPC
    <2>2. Cardinality(Owning') = Cardinality(Owning) + 1
      BY <2>1, OwningFinite, FS_AddElement, Zenon
    <2>3. scull_w_count' = Cardinality(Owning')
      BY <1>1, <2>2 DEF WTake, OneUser
    <2>4. CASE scull_w_count = 0
      <3>1. Owning = {}
        BY <2>4, OwningFinite, FS_EmptySet DEF OneUser
      <3>2. scull_w_owner' = uid[p]
        BY <1>1, <2>4 DEF WTake
      <3>. QED
        BY <2>1, <2>3, <3>1, <3>2 DEF OneUser, MayShare
    <2>5. CASE scull_w_count # 0
      <3>1. MayShare(p) /\ scull_w_owner' = scull_w_owner
        BY <1>1, <2>5 DEF WTake, scull_w_available
      <3>. QED
        BY <2>1, <2>3, <3>1 DEF OneUser, MayShare
    <2>. QED
      BY <2>4, <2>5
  <1>2. CASE WRelease(p)
    <2>1. p \in Owning /\ Owning' = Owning \ {p}
      BY <1>2 DEF WRelease, Owning, WOwnPC, UidPC
    <2>2. Cardinality(Owning') = Cardinality(Owning) - 1
      BY <2>1, OwningFinite, FS_RemoveElement, Zenon
    <2>3. scull_w_count' = Cardinality(Owning')
      BY <1>2, <2>2 DEF WRelease, OneUser
    <2>4. \A q \in Owning' : MayShare(q)'
      BY <1>2, <2>1 DEF WRelease, OneUser, MayShare
    <2>. QED
      BY <2>3, <2>4 DEF OneUser
  <1>3. CASE WOpenStart(p) \/ WBusy(p) \/ WPrepare(p) \/ WCheckCount(p) \/ WCheckOwner(p)
    <2>1. Owning' = Owning /\ UNCHANGED device
      BY <1>3 DEF WOpenStart, WBusy, WPrepare, WCheckCount, WCheckOwner,
         Owning, WOwnPC, UidPC, device
    <2>. QED
      BY <2>1, OneUserQuiet
  <1>4. CASE \/ WWoken(p) \/ WTrimmed(p) \/ WRwDone(p) \/ WRwLock(p) \/ WReleaseWake(p)
             \/ WSignal(p)
    <2>1. Owning' = Owning /\ UNCHANGED device
      BY <1>4 DEF WWoken, WTrimmed, WRwDone, WRwLock, WReleaseWake, WSignal, Owning, WOwnPC,
         UidPC, device
    <2>. QED
      BY <2>1, OneUserQuiet
  <1>. QED
    BY <1>1, <1>2, <1>3, <1>4 DEF UidStep

\* A step that leaves count and owner alone, adds no waiter that has passed its test
\* and takes away no pending wake-up loses none.
LEMMA WaitersQuiet ==
    ASSUME TestedWaiters, NoLostOpener, UNCHANGED device, WakePending => WakePending',
           NEW p \in UidProcs, w_pc'[p] \notin {"o_owner", "o_sleep"},
           \A q \in UidProcs \ {p} : w_pc'[q] = w_pc[q] /\ (q \in scull_w_wait' => q \in scull_w_wait)
    PROVE  (TestedWaiters /\ NoLostOpener)'
  BY DEF TestedWaiters, NoLostOpener, WakePending, scull_w_available, MayShare, device

\* Every step that makes the wait condition true wakes those who tested it before.
LEMMA WaitersStep ==
    ASSUME UidTypeOK, OneUser, TestedWaiters, NoLostOpener, UidNext
    PROVE  (TestedWaiters /\ NoLostOpener)'
  <1>. PICK p \in UidProcs : WOpenStart(p) \/ WRwLock(p) \/ UidStep(p) \/ WRelease(p) \/ WSignal(p)
    BY DEF UidNext
  <1>. USE DEF UidTypeOK, UidGoto
  <1>1. CASE WTake(p)
    <2>1. \A q \in UidProcs \ {p} : w_pc'[q] = w_pc[q]
      BY <1>1 DEF WTake
    <2>2. w_pc'[p] \notin {"o_owner", "o_sleep"} /\ scull_w_wait' = scull_w_wait
      BY <1>1 DEF WTake
    <2>3. WakePending => WakePending'
      BY <1>1, <2>1 DEF WTake, WakePending
    <2>4. scull_w_count = 0 \/ scull_w_owner' = scull_w_owner
      BY <1>1 DEF WTake
    <2>5. scull_w_count' # 0
      BY <1>1, OwningFinite DEF WTake, OneUser
    <2>6. TestedWaiters'
      BY <2>5 DEF TestedWaiters
    <2>7. NoLostOpener'
      <3>. SUFFICES ASSUME NEW q \in UidProcs, w_pc'[q] = "o_sleep", q \in scull_w_wait',
                           MayShare(q)'
                    PROVE  WakePending'
        BY <2>5 DEF NoLostOpener, scull_w_available, WakePending
      <3>1. w_pc[q] = "o_sleep" /\ q \in scull_w_wait /\ scull_w_available(q)
        BY <2>1, <2>2, <2>4 DEF scull_w_available, MayShare
      <3>. QED
        BY <2>3, <3>1 DEF NoLostOpener, WakePending
    <2>. QED
      BY <2>6, <2>7
  <1>2. CASE WRelease(p)
    BY <1>2 DEF WRelease, TestedWaiters, NoLostOpener, WakePending, scull_w_available, MayShare
  <1>3. CASE WReleaseWake(p)
    BY <1>3 DEF WReleaseWake, TestedWaiters, NoLostOpener
  <1>4. CASE WCheckCount(p)
    BY <1>4 DEF WCheckCount, TestedWaiters, NoLostOpener, WakePending, scull_w_available, MayShare, device
  <1>5. CASE WCheckOwner(p)
    BY <1>5 DEF WCheckOwner, TestedWaiters, NoLostOpener, WakePending, scull_w_available, MayShare, device
  <1>6. CASE WOpenStart(p) \/ WBusy(p) \/ WPrepare(p) \/ WWoken(p)
    <2>1. /\ UNCHANGED device /\ w_pc'[p] \notin {"o_owner", "o_sleep"}
          /\ \A q \in UidProcs \ {p} : w_pc'[q] = w_pc[q] /\ (q \in scull_w_wait' => q \in scull_w_wait)
          /\ w_pc[p] # "c_wake"
      BY <1>6 DEF WOpenStart, WBusy, WPrepare, WWoken, device
    <2>. QED
      BY <2>1, WaitersQuiet DEF WakePending
  <1>7. CASE WTrimmed(p) \/ WRwDone(p) \/ WRwLock(p)
    <2>1. /\ UNCHANGED device /\ w_pc'[p] \notin {"o_owner", "o_sleep"}
          /\ \A q \in UidProcs \ {p} : w_pc'[q] = w_pc[q] /\ (q \in scull_w_wait' => q \in scull_w_wait)
          /\ w_pc[p] # "c_wake"
      BY <1>7 DEF WTrimmed, WRwDone, WRwLock, device
    <2>. QED
      BY <2>1, WaitersQuiet DEF WakePending
  <1>8. CASE WSignal(p)
    BY <1>8 DEF WSignal, TestedWaiters, NoLostOpener, WakePending, scull_w_available, MayShare, device
  <1>. QED
    BY <1>1, <1>2, <1>3, <1>4, <1>5, <1>6, <1>7, <1>8 DEF UidStep

\* The invariant is inductive.
LEMMA UidNextInv == UidInv /\ [UidNext]_uidVars => UidInv'
  <1>1. ASSUME UidInv, UidNext
        PROVE  UidInv'
    BY <1>1, UidTypeStep, OneUserStep, WaitersStep DEF UidInv
  <1>2. ASSUME UidInv, UNCHANGED uidVars
        PROVE  UidInv'
    BY <1>2 DEF uidVars, UidInv, UidTypeOK, OneUser, Owning, TestedWaiters, NoLostOpener,
       WakePending, scull_w_available, MayShare
  <1>. QED
    BY <1>1, <1>2

\* At any time the files of the device belong to processes that may share it with its
\* owner, and scull_w_count is their number, for any number of openers that race after
\* a wake-up.
THEOREM UidOneUser == UidSpec => []OneUser
  <1>1. UidInv => OneUser
    BY DEF UidInv
  <1>. QED
    BY <1>1, UidInitInv, UidNextInv, PTL DEF UidSpec

\* scull_w_open tests the count and the owner without the lock, one after the other,
\* and still no opener sleeps on a device it could have, but for a wake-up that is due.
THEOREM UidNoLostOpener == UidSpec => []NoLostOpener
  <1>1. UidInv => NoLostOpener
    BY DEF UidInv
  <1>. QED
    BY <1>1, UidInitInv, UidNextInv, PTL DEF UidSpec
=============================================================================
