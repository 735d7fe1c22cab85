------------------------------- MODULE Timer -------------------------------
(***************************************************************************)
(* The host timer of util/timer.c: one detached thread per armed timer     *)
(* that sleeps until the deadline and calls back with the timer unlocked.  *)
(* Setting the timer again makes a callback under way stale by advancing a *)
(* generation; timer_free waits until the thread is gone.                  *)
(*                                                                         *)
(* One action per section under timer->lock.  A callback holds its         *)
(* client's lock (pids_lock, or fd->lock of a timerfd) from the question   *)
(* whether it is current to the end of what it does; timer_free does not   *)
(* take that lock and may begin in between.  This module has the timer's   *)
(* operations only: PosixTimer and TimerFd add the callers and the         *)
(* callback, and Timers puts either of them on top of the same host timer. *)
(***************************************************************************)
EXTENDS Integers

CONSTANTS MaxTime,  \* the clock stops here
          MaxSets,  \* how often the timer may be set
          Values,   \* values given to timer_settime, timerfd_settime
          Intervals

ASSUME TimerAssumption ==
    /\ MaxTime \in Nat /\ MaxSets \in Nat
    /\ Values \subseteq Nat /\ Intervals \subseteq Nat

VARIABLES now,       \* the clock
          end,       \* timer->end
          interval,  \* timer->interval
          active,    \* timer->active
          dead,      \* timer->dead
          gen,       \* timer->generation
          cbGen,     \* timer->callback_generation
          thread,    \* the timer thread
          wake,      \* until when it sleeps
          freed      \* the timer's memory was released

hostVars == <<end, interval, active, dead, gen, cbGen, thread, wake, freed>>
timerVars == <<now, hostVars>>

\* none: thread_running is false; ready: at the head of the loop; sleep: in the
\* timed wait; callback: the callback is due; current: it found itself current and
\* holds the client's lock; returning: the callback is done.
ThreadStates == {"none", "ready", "sleep", "callback", "current", "returning"}

HostTypeOK ==
    /\ now \in 0..MaxTime
    /\ end \in Nat
    /\ interval \in Nat
    /\ active \in BOOLEAN
    /\ dead \in BOOLEAN
    /\ gen \in 0..MaxSets
    /\ cbGen \in 0..MaxSets
    /\ thread \in ThreadStates
    /\ wake \in Nat
    /\ freed \in BOOLEAN
    /\ active => thread # "none"

\* timer_new
HostInit ==
    /\ now = 0
    /\ end = 0
    /\ interval = 0
    /\ active = FALSE
    /\ dead = FALSE
    /\ gen = 0
    /\ cbGen = 0
    /\ thread = "none"
    /\ wake = 0
    /\ freed = FALSE

Running == thread # "none"

\* notify(&timer->changed)
Notified == IF thread = "sleep" THEN "ready" ELSE thread

Tick ==
    /\ now < MaxTime
    /\ now' = now + 1
    /\ UNCHANGED hostVars

----------------------------------------------------------------------------
(* The thread: timer_thread *)

\* The deadline is ahead.
ThreadSleep ==
    /\ thread = "ready" /\ active /\ now < end
    /\ thread' = "sleep"
    /\ wake' = end
    /\ UNCHANGED <<now, end, interval, active, dead, gen, cbGen, freed>>

\* The wait times out.
ThreadTimeout ==
    /\ thread = "sleep" /\ now >= wake
    /\ thread' = "ready"
    /\ UNCHANGED <<now, end, interval, active, dead, gen, cbGen, wake, freed>>

\* Wrong variant: a one-shot timer stays active.
ThreadExpireStaysActive ==
    /\ thread = "ready" /\ active /\ now >= end
    /\ thread' = "callback"
    /\ cbGen' = gen
    /\ end' = end + interval
    /\ UNCHANGED <<now, interval, active, dead, gen, wake, freed>>

\* The deadline has come: prepare the next one, then call back unlocked.
ThreadExpire ==
    /\ thread = "ready" /\ active /\ now >= end
    /\ thread' = "callback"
    /\ cbGen' = gen
    /\ IF interval > 0 THEN end' = end + interval /\ UNCHANGED active
                       ELSE active' = FALSE /\ UNCHANGED end
    /\ UNCHANGED <<now, interval, dead, gen, wake, freed>>

ThreadReturn ==
    /\ thread = "returning"
    /\ thread' = "ready"
    /\ UNCHANGED <<now, end, interval, active, dead, gen, cbGen, wake, freed>>

ThreadExit ==
    /\ thread = "ready" /\ ~active
    /\ thread' = "none"
    /\ UNCHANGED <<now, end, interval, active, dead, gen, cbGen, wake, freed>>

ThreadStep == ThreadSleep \/ ThreadTimeout \/ ThreadExpire \/ ThreadReturn \/ ThreadExit

----------------------------------------------------------------------------
(* The operations *)

\* Wrong variant: the thread is not told of the new deadline.
TimerSetSilently(at, ivl) ==
    /\ ~dead /\ gen < MaxSets
    /\ end' = at
    /\ interval' = ivl
    /\ active' = (at # 0)
    /\ gen' = gen + 1
    /\ thread' = IF at # 0 /\ ~Running THEN "ready" ELSE thread
    /\ UNCHANGED <<now, dead, cbGen, wake, freed>>

\* timer_set_common, successful, with the deadline at (0 disarms).
TimerSet(at, ivl) ==
    /\ ~dead /\ gen < MaxSets
    /\ end' = at
    /\ interval' = ivl
    /\ active' = (at # 0)
    /\ gen' = gen + 1
    /\ thread' = IF at # 0 /\ ~Running THEN "ready" ELSE Notified
    /\ UNCHANGED <<now, dead, cbGen, wake, freed>>

\* Wrong variant: only the deadline and the generation are put back.
TimerSetHalfRolledBack(at, ivl) ==
    /\ ~dead /\ at # 0 /\ ~Running
    /\ end' = end
    /\ gen' = gen
    /\ interval' = ivl
    /\ active' = TRUE
    /\ UNCHANGED <<now, dead, cbGen, thread, wake, freed>>

\* timer_set_common cannot create the thread: the four fields that it has
\* written get their previous values back.
TimerSetFails(at, ivl) ==
    /\ ~dead /\ at # 0 /\ ~Running
    /\ end' = end
    /\ gen' = gen
    /\ interval' = interval
    /\ active' = active
    /\ UNCHANGED <<now, dead, cbGen, thread, wake, freed>>

\* timer_callback_is_current
CallbackIsCurrent == ~dead /\ cbGen = gen

\* Wrong variant: whoever frees the timer keeps the client's lock.
LockFreeUnlessFreeing == thread # "current" /\ ~dead

\* The client's lock can be taken: only a callback keeps it across two actions.
LockFree == thread # "current"

\* The deadline of a setting; TIMER_ABSTIME gives it directly.  A value of 0
\* disarms the timer, whose deadline is then not read.
Deadline(value, absolute) ==
    IF value = 0 THEN 0 ELSE IF absolute THEN value ELSE now + value

\* Wrong variant: the thread is left asleep.
TimerFreeBeginSilently ==
    /\ ~dead
    /\ dead' = TRUE
    /\ active' = FALSE
    /\ UNCHANGED <<now, end, interval, gen, cbGen, thread, wake, freed>>

\* timer_free: refuse further settings and wake the thread ...
TimerFreeBegin ==
    /\ ~dead
    /\ dead' = TRUE
    /\ active' = FALSE
    /\ thread' = Notified
    /\ UNCHANGED <<now, end, interval, gen, cbGen, wake, freed>>

\* ... and release the timer when the thread is gone.
TimerFreeEnd ==
    /\ dead /\ ~freed
    /\ ~Running
    /\ freed' = TRUE
    /\ UNCHANGED <<now, end, interval, active, dead, gen, cbGen, thread, wake>>

----------------------------------------------------------------------------
(* Properties of the timer itself *)

\* The thread never sleeps past what it has to do: the deadline of the setting
\* now in force, or the order to leave.
SleepCoversDeadline == thread = "sleep" => active /\ wake <= end

\* The thread, its callback included, never runs on a released timer.
NoUseAfterFree == freed => thread = "none" /\ ~active
=============================================================================
