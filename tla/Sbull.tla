-------------------------------- MODULE Sbull -------------------------------
(***************************************************************************)
(* The RAM disk of src/ldd4/sbull/sbull.c: its count of users and the      *)
(* timer that simulates a change of the media when nobody has used the     *)
(* disk for a while.  The kernel calls open and release of a disk one at a *)
(* time (bd_mutex, here sbull_busy); the timer runs beside them.           *)
(***************************************************************************)
EXTENDS Integers

CONSTANTS SbullMax      \* bound: users at a time

ASSUME SbullAssumption == SbullMax \in Nat \ {0}

VARIABLES
    users, media_change,
    sbull_data,     \* "zero", or "written" since it was cleared
    sbull_timer,    \* "off", "pending", "running" (sbull_invalidate waits for the lock)
    sbull_busy,     \* "no", or what open has yet to do: "open"
    sanity,         \* FALSE after "timer sanity check failed" or add_timer's BUG_ON
    expired         \* ghost: nobody has opened the disk since the timer went off

sbullVars == <<users, media_change, sbull_data, sbull_timer, sbull_busy, sanity, expired>>

SbullInit ==
    /\ users = 0 /\ media_change = FALSE /\ sbull_data = "zero"
    /\ sbull_timer = "off" /\ sbull_busy = "no" /\ sanity = TRUE /\ expired = FALSE

\* Mistake: del_timer does not wait for the handler.
SbullDelTimerAsync ==
    /\ sbull_busy = "no" /\ users < SbullMax
    /\ sbull_busy' = "open"
    /\ sbull_timer' = IF sbull_timer = "pending" THEN "off" ELSE sbull_timer
    /\ UNCHANGED <<users, media_change, sbull_data, sanity, expired>>

\* sbull_open: del_timer_sync, which waits for the handler,
SbullDelTimer ==
    /\ sbull_busy = "no" /\ users < SbullMax
    /\ sbull_timer # "running"
    /\ sbull_busy' = "open"
    /\ sbull_timer' = "off"
    /\ UNCHANGED <<users, media_change, sbull_data, sanity, expired>>

\* Mistake: the first user does not look for a change of the media.
SbullOpenUnchecked ==
    /\ sbull_busy = "open"
    /\ users' = users + 1
    /\ sbull_busy' = "no" /\ expired' = FALSE
    /\ UNCHANGED <<sbull_data, media_change, sbull_timer, sanity>>

\* then, under the lock, check_disk_change (media_changed, revalidate) for the first user.
SbullOpen ==
    /\ sbull_busy = "open"
    /\ users' = users + 1
    /\ sbull_data' = IF users = 0 /\ media_change THEN "zero" ELSE sbull_data
    /\ media_change' = (media_change /\ users # 0)
    /\ sbull_busy' = "no" /\ expired' = FALSE
    /\ UNCHANGED <<sbull_timer, sanity>>

\* sbull_transfer, for any of the three ways requests arrive
SbullTransfer ==
    /\ users > 0
    /\ sbull_data' = "written"
    /\ UNCHANGED <<users, media_change, sbull_timer, sbull_busy, sanity, expired>>

SbullRelease ==
    /\ sbull_busy = "no" /\ users > 0
    /\ users' = users - 1
    /\ IF users = 1
       THEN sanity' = (sanity /\ sbull_timer # "pending") /\ sbull_timer' = "pending"
       ELSE UNCHANGED <<sanity, sbull_timer>>
    /\ UNCHANGED <<media_change, sbull_data, sbull_busy, expired>>

\* The timer goes off, and sbull_invalidate gets the lock.
SbullInvalidate ==
    /\ \/ sbull_timer = "pending" /\ sbull_timer' = "running" /\ UNCHANGED <<media_change, sanity, expired>>
       \/ /\ sbull_timer = "running" /\ sbull_timer' = "off"
          /\ sanity' = (sanity /\ users = 0)
          /\ media_change' = (media_change \/ users = 0)
          /\ expired' = (users = 0)
    /\ UNCHANGED <<users, sbull_data, sbull_busy>>

SbullNext ==
    SbullDelTimer \/ SbullOpen \/ SbullTransfer \/ SbullRelease \/ SbullInvalidate

SbullSpec == SbullInit /\ [][SbullNext]_sbullVars

-----------------------------------------------------------------------------
\* The variables keep their types.
SbullTypeOK ==
    /\ users \in 0..SbullMax
    /\ media_change \in BOOLEAN /\ sanity \in BOOLEAN /\ expired \in BOOLEAN
    /\ sbull_data \in {"zero", "written"} /\ sbull_timer \in {"off", "pending", "running"}
    /\ sbull_busy \in {"no", "open"}

\* The invalidation never meets a user ("timer sanity check failed", 271) and add_timer
\* never meets a pending timer (229): open stops the timer and waits for its handler
\* before it counts the user.
SbullSane == sanity

\* The first user after the media was "removed" finds an empty disk, and no disk is
\* emptied under a user (213-215, 254-257).
SbullFreshStep ==
    /\ users = 0 /\ users' = 1 /\ expired => sbull_data' = "zero"
    /\ users > 0 /\ sbull_data' # sbull_data => sbull_data' = "written"
SbullFresh == [][SbullFreshStep]_sbullVars
=============================================================================
