------------------------------ MODULE ScullUid ------------------------------
(***************************************************************************)
(* The devices open to one user at a time, src/ldd4/scull/access.c 97-209. *)
(* Further opens by the owner (by uid or by effective uid) or by a process *)
(* with CAP_DAC_OVERRIDE succeed.  Others are refused at once (sculluid,   *)
(* and scullwuid with O_NONBLOCK) or wait on scull_w_wait until the last   *)
(* file is closed (scullwuid).                                             *)
(*                                                                         *)
(* The sections under scull_w_lock are atomic.  The wait condition is      *)
(* evaluated WITHOUT the lock, and reads scull_w_count and scull_w_owner   *)
(* one after the other.  scull_trim runs after the lock is dropped and     *)
(* without the device mutex, which read and write take.                    *)
(***************************************************************************)
EXTENDS Integers, FiniteSets

CONSTANTS
    UidProcs,       \* the processes, one file each
    Users,          \* the user ids
    uid, euid,      \* of each process
    Capable,        \* the processes with CAP_DAC_OVERRIDE
    UidNonBlock,    \* those that do not wait; all of them for sculluid
    UidWriters,     \* those that open with O_WRONLY: they trim the device
    root,           \* uid 0, the initial value of scull_w_owner
    None            \* not a process: nobody holds the mutex

ASSUME UidAssumption ==
    /\ IsFiniteSet(UidProcs)
    /\ uid \in [UidProcs -> Users] /\ euid \in [UidProcs -> Users]
    /\ Capable \subseteq UidProcs /\ UidNonBlock \subseteq UidProcs /\ UidWriters \subseteq UidProcs
    /\ root \in Users /\ None \notin UidProcs

VARIABLES
    scull_w_count, scull_w_owner,
    scull_w_wait,   \* the processes on the wait queue
    w_mutex,        \* the process that holds the device's mutex, or None
    w_pc,           \* where each process is
    w_sig           \* the processes with a signal pending

uidVars == <<scull_w_count, scull_w_owner, scull_w_wait, w_mutex, w_pc, w_sig>>

WWaitPC == {"o_test", "o_prep", "o_count", "o_owner", "o_sleep"}
WOwnPC  == {"o_trim", "open", "rw"}
UidPC   == {"closed", "c_wake"} \cup WWaitPC \cup WOwnPC

\* The processes that the count counts.
Owning == {p \in UidProcs : w_pc[p] \in WOwnPC}

UidInit ==
    /\ scull_w_count = 0
    /\ scull_w_owner = root
    /\ scull_w_wait = {}
    /\ w_mutex = None
    /\ w_pc = [p \in UidProcs |-> "closed"]
    /\ w_sig = {}

UidGoto(p, l) == w_pc' = [w_pc EXCEPT ![p] = l]
device == <<scull_w_count, scull_w_owner>>

MayShare(p) == scull_w_owner \in {uid[p], euid[p]} \/ p \in Capable
scull_w_available(p) == scull_w_count = 0 \/ MayShare(p)

-----------------------------------------------------------------------------
(* scull_w_open                                                            *)

WOpenStart(p) ==
    /\ w_pc[p] = "closed"
    /\ UidGoto(p, "o_test")
    /\ UNCHANGED <<device, w_mutex, scull_w_wait, w_sig>>

\* Mistake: every open takes the ownership.
WTakeOver(p) ==
    /\ w_pc[p] = "o_test"
    /\ scull_w_available(p)
    /\ scull_w_owner' = uid[p]
    /\ scull_w_count' = scull_w_count + 1
    /\ UidGoto(p, IF p \in UidWriters THEN "o_trim" ELSE "open")
    /\ w_sig' = w_sig \ {p}
    /\ UNCHANGED <<scull_w_wait, w_mutex>>

\* Under the lock: take the device.
WTake(p) ==
    /\ w_pc[p] = "o_test"
    /\ scull_w_available(p)
    /\ scull_w_owner' = IF scull_w_count = 0 THEN uid[p] ELSE scull_w_owner
    /\ scull_w_count' = scull_w_count + 1
    /\ UidGoto(p, IF p \in UidWriters THEN "o_trim" ELSE "open")
    /\ w_sig' = w_sig \ {p}
    /\ UNCHANGED <<scull_w_wait, w_mutex>>

\* Under the lock: not available.  -EAGAIN, or wait.
WBusy(p) ==
    /\ w_pc[p] = "o_test"
    /\ ~scull_w_available(p)
    /\ UidGoto(p, IF p \in UidNonBlock THEN "closed" ELSE "o_prep")
    /\ w_sig' = IF p \in UidNonBlock THEN w_sig \ {p} ELSE w_sig
    /\ UNCHANGED <<device, w_mutex, scull_w_wait>>

WPrepare(p) ==
    /\ w_pc[p] = "o_prep"
    /\ scull_w_wait' = scull_w_wait \cup {p}
    /\ UidGoto(p, "o_count")
    /\ UNCHANGED <<device, w_mutex, w_sig>>

\* Mistake: the waiter goes round the wait loop instead of leaving it.
WCheckCountAgain(p) ==
    /\ w_pc[p] = "o_count"
    /\ IF scull_w_count = 0
       THEN scull_w_wait' = scull_w_wait \ {p} /\ UidGoto(p, "o_prep")
       ELSE UidGoto(p, "o_owner") /\ UNCHANGED scull_w_wait
    /\ UNCHANGED <<device, w_mutex, w_sig>>

\* The first half of the condition, scull_w_count == 0 ...
WCheckCount(p) ==
    /\ w_pc[p] = "o_count"
    /\ IF scull_w_count = 0
       THEN scull_w_wait' = scull_w_wait \ {p} /\ UidGoto(p, "o_test")
       ELSE UidGoto(p, "o_owner") /\ UNCHANGED scull_w_wait
    /\ UNCHANGED <<device, w_mutex, w_sig>>

\* ... and the rest; a signal ends the call, otherwise the process sleeps.
WCheckOwner(p) ==
    /\ w_pc[p] = "o_owner"
    /\ \/ /\ MayShare(p)
          /\ scull_w_wait' = scull_w_wait \ {p}
          /\ UidGoto(p, "o_test")
          /\ UNCHANGED w_sig
       \/ /\ ~MayShare(p) /\ p \in w_sig
          /\ scull_w_wait' = scull_w_wait \ {p}
          /\ UidGoto(p, "closed")
          /\ w_sig' = w_sig \ {p}
       \/ /\ ~MayShare(p) /\ p \notin w_sig
          /\ UidGoto(p, "o_sleep")
          /\ UNCHANGED <<scull_w_wait, w_sig>>
    /\ UNCHANGED <<device, w_mutex>>

WWoken(p) ==
    /\ w_pc[p] = "o_sleep"
    /\ p \notin scull_w_wait \/ p \in w_sig
    /\ UidGoto(p, "o_prep")
    /\ UNCHANGED <<device, w_mutex, scull_w_wait, w_sig>>

\* scull_trim has returned: the open is complete.
WTrimmed(p) ==
    /\ w_pc[p] = "o_trim"
    /\ UidGoto(p, "open")
    /\ UNCHANGED <<device, scull_w_wait, w_mutex, w_sig>>

-----------------------------------------------------------------------------
(* scull_read and scull_write of the bare device: a section under its      *)
(* mutex.                                                                  *)

WRwLock(p) ==
    /\ w_pc[p] = "open"
    /\ w_mutex = None
    /\ w_mutex' = p
    /\ UidGoto(p, "rw")
    /\ UNCHANGED <<device, scull_w_wait, w_sig>>

WRwDone(p) ==
    /\ w_pc[p] = "rw"
    /\ w_mutex' = None
    /\ UidGoto(p, "open")
    /\ UNCHANGED <<device, scull_w_wait, w_sig>>

-----------------------------------------------------------------------------
(* scull_w_release                                                         *)

\* Mistake: the count is copied before it is decremented.
WReleaseStale(p) ==
    /\ w_pc[p] = "open"
    /\ scull_w_count' = scull_w_count - 1
    /\ UidGoto(p, IF scull_w_count = 0 THEN "c_wake" ELSE "closed")
    /\ UNCHANGED <<scull_w_owner, scull_w_wait, w_mutex, w_sig>>

\* Under the lock: count down; the last one will wake the waiters.
WRelease(p) ==
    /\ w_pc[p] = "open"
    /\ scull_w_count' = scull_w_count - 1
    /\ UidGoto(p, IF scull_w_count' = 0 THEN "c_wake" ELSE "closed")
    /\ UNCHANGED <<scull_w_owner, scull_w_wait, w_mutex, w_sig>>

\* wake_up_interruptible_sync
WReleaseWake(p) ==
    /\ w_pc[p] = "c_wake"
    /\ scull_w_wait' = {}
    /\ UidGoto(p, "closed")
    /\ UNCHANGED <<device, w_mutex, w_sig>>

WSignal(p) ==
    /\ w_pc[p] \in WWaitPC /\ p \notin w_sig
    /\ w_sig' = w_sig \cup {p}
    /\ UNCHANGED <<device, w_mutex, scull_w_wait, w_pc>>

UidStep(p) ==
    \/ WTake(p) \/ WBusy(p) \/ WPrepare(p) \/ WCheckCount(p)
    \/ WCheckOwner(p) \/ WWoken(p) \/ WTrimmed(p) \/ WRwDone(p)
    \/ WReleaseWake(p)

UidNext == \E p \in UidProcs : WOpenStart(p) \/ WRwLock(p) \/ UidStep(p) \/ WRelease(p) \/ WSignal(p)

UidSpec == UidInit /\ [][UidNext]_uidVars

\* The scheduler runs every process that can run; nobody has to close a file.
UidFairness == \A p \in UidProcs : WF_uidVars(UidStep(p))

-----------------------------------------------------------------------------
\* The variables keep their types.
UidTypeOK ==
    /\ w_pc \in [UidProcs -> UidPC]
    /\ scull_w_wait \subseteq UidProcs

\* While the device is open, every file belongs to the owner (by uid or by
\* effective uid) or to a process that may override: waiting openers never slip
\* in on the strength of what they saw without the lock.  And the count is the number
\* of open files, so that the last release, and no other, gives the device away.
OneUser ==
    /\ \A p \in Owning : MayShare(p)
    /\ scull_w_count = Cardinality(Owning)

\* No lost wake-up: a process sleeps although the device is available to it only
\* while a release is about to wake it (line 207).
NoLostOpener ==
    \A p \in UidProcs :
      w_pc[p] = "o_sleep" /\ p \in scull_w_wait /\ scull_w_available(p) =>
        \E q \in UidProcs : w_pc[q] = "c_wake"

\* scull_trim "must be called with the device mutex held" (main.c line 202): it
\* never runs beside the read or the write of another process.
TrimAlone ==
    \A p, q \in UidProcs : w_pc[p] = "o_trim" => w_pc[q] # "rw"

\* Liveness: an opener does not stay in the call for ever if from some time on
\* the device is available to it.
OpenerServed ==
    \A p \in UidProcs : []<>(w_pc[p] \notin WWaitPC \/ ~scull_w_available(p))
=============================================================================
