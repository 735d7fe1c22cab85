------------------------------ MODULE TimerFd ------------------------------
(***************************************************************************)
(* timerfd (kernel/time.c): a file descriptor that counts expirations.     *)
(* The host timer is only ever armed for one deadline.  After the first    *)
(* expiration of a periodic timer it stays stopped until a read or a       *)
(* gettime counts the periods that have passed and arms it again.          *)
(*                                                                         *)
(* Every operation and the callback are sections under fd->lock; the       *)
(* callback is two actions, for a close need not wait for the lock.  Times *)
(* near KTIME_MAX, where the code saturates, are not modelled.             *)
(***************************************************************************)
EXTENDS Timer

VARIABLES next,         \* timerfd.next
          fdInterval,   \* timerfd.interval
          expired,      \* timerfd.expired
          expirations,  \* timerfd.expirations
          open,         \* the descriptor is open
          first,        \* history: the first deadline of the last setting
          reads         \* history: what reads returned since then

fdVars == <<next, fdInterval, expired, expirations>>
tfdVars == <<fdVars, open, first, reads>>

\* timerfd_create_task
FdInit ==
    /\ HostInit
    /\ next = 0
    /\ fdInterval = 0
    /\ expired = FALSE
    /\ expirations = 0
    /\ open = TRUE
    /\ first = 0
    /\ reads = 0

\* timerfd_program_locked: a one-shot for the deadline; after it, for the next
\* nanosecond, which is less than a tick of the clock.
Program(deadline) ==
    TimerSet(IF deadline = 0 \/ deadline > now THEN deadline ELSE now, 0)

\* The same when no thread can be created.
ProgramFails(deadline) == TimerSetFails(deadline, 0)

\* timerfd_settime_task
FdSettime(value, ivl, absolute) ==
    LET at == Deadline(value, absolute) IN
    /\ open /\ LockFree
    /\ \/ /\ Program(at)
          /\ fdInterval' = ivl
          /\ next' = at
          /\ expirations' = 0
          /\ expired' = FALSE
          /\ first' = at
          /\ reads' = 0
       \/ ProgramFails(at) /\ UNCHANGED <<fdVars, first, reads>>
    /\ UNCHANGED open

\* timerfd_callback takes fd->lock and asks whether it is current ...
FdCallbackCheck ==
    /\ thread = "callback" /\ LockFree
    /\ thread' = IF CallbackIsCurrent THEN "current" ELSE "returning"
    /\ UNCHANGED <<now, end, interval, active, dead, gen, cbGen, wake, freed, tfdVars>>

\* ... and counts one expiration.
FdCallbackCount ==
    /\ thread = "current"
    /\ thread' = "returning"
    /\ IF ~expired THEN expired' = TRUE /\ expirations' = expirations + 1
                   ELSE UNCHANGED <<expired, expirations>>
    /\ UNCHANGED <<now, end, interval, active, dead, gen, cbGen, wake, freed,
                   next, fdInterval, open, first, reads>>

FdCallback == FdCallbackCheck \/ FdCallbackCount

\* timerfd_forward_deadline: the periods from next to now, next included.
Periods == IF now >= next THEN (now - next) \div fdInterval + 1 ELSE 1

NeedsRefresh == expired /\ fdInterval # 0

\* Wrong variant: the deadline restarts at the time of the read.
RefreshFromNow ==
    /\ NeedsRefresh
    /\ Program(now + fdInterval)
    /\ next' = now + fdInterval
    /\ expired' = FALSE
    /\ UNCHANGED fdInterval

\* timerfd_refresh_periodic_locked, except for the count.
Refresh ==
    LET at == next + Periods * fdInterval IN
    /\ NeedsRefresh
    /\ Program(at)
    /\ next' = at
    /\ expired' = FALSE
    /\ UNCHANGED fdInterval

\* timerfd_read returns n expirations (EAGAIN, or the wait, if there is none).
Read ==
    /\ open /\ LockFree
    /\ expirations # 0
    /\ \/ /\ Refresh
          /\ reads' = reads + expirations + Periods - 1
       \/ /\ ~NeedsRefresh
          /\ reads' = reads + expirations
          /\ expired' = (expired /\ fdInterval # 0)
          /\ UNCHANGED <<timerVars, next, fdInterval>>
    /\ expirations' = 0
    /\ UNCHANGED <<open, first>>

\* timerfd_gettime_task counts and arms again without reading.
Gettime ==
    /\ open /\ LockFree
    /\ Refresh
    /\ expirations' = expirations + Periods - 1
    /\ UNCHANGED <<open, first, reads>>

\* Either fails when the timer cannot be armed: nothing is lost.
RefreshFails ==
    /\ open /\ LockFree
    /\ NeedsRefresh
    /\ ProgramFails(next + Periods * fdInterval)
    /\ UNCHANGED <<fdVars, open, first, reads>>

\* timerfd_close
Close ==
    /\ open
    /\ TimerFreeBegin
    /\ open' = FALSE
    /\ UNCHANGED <<fdVars, first, reads>>

CloseEnd == TimerFreeEnd /\ UNCHANGED <<fdVars, open, first, reads>>

FdThread == ThreadStep /\ UNCHANGED tfdVars

FdNext ==
    \/ Tick /\ UNCHANGED tfdVars
    \/ FdThread
    \/ FdCallback
    \/ \E v \in Values, i \in Intervals, absolute \in BOOLEAN :
          FdSettime(v, i, absolute)
    \/ Read \/ Gettime \/ RefreshFails
    \/ Close \/ CloseEnd

FdSpec == FdInit /\ [][FdNext]_<<timerVars, tfdVars>>

----------------------------------------------------------------------------
(* Properties *)

\* Deadlines of the last setting up to time t.
DueBy(t) == IF first = 0 \/ t < first THEN 0
            ELSE IF fdInterval = 0 THEN 1
            ELSE (t - first) \div fdInterval + 1

\* No period is lost, counted twice or counted early, however settings, reads,
\* gettime and the callback interleave: what was read and what can be read are
\* together the deadlines before `next', and `next' itself once it expired, and
\* none of them lies in the future or belongs to an earlier setting.
NoPeriodLost ==
    LET counted == reads + expirations IN
    /\ counted <= DueBy(now)
    /\ first # 0 /\ fdInterval # 0 =>
          /\ (next - first) % fdInterval = 0
          /\ counted = (next - first) \div fdInterval + (IF expired THEN 1 ELSE 0)

\* A deadline that has passed makes the descriptor readable, unless it is set
\* again or closed.
DeadlineMakesReadable ==
    \A f \in 1..MaxTime :
       (open /\ first = f /\ now >= f /\ reads = 0) ~> (expirations # 0 \/ reads # 0 \/ ~open \/ first # f)
=============================================================================
