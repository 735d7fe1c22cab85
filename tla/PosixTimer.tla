----------------------------- MODULE PosixTimer -----------------------------
(***************************************************************************)
(* A timer that sends a signal (kernel/time.c: timer_settime and           *)
(* timer_delete, setitimer, posix_timer_callback and itimer_notify).       *)
(*                                                                         *)
(* Setting the timer is one section under pids_lock, and so is a callback, *)
(* in two actions: it asks whether it is current, and sends.  timer_delete *)
(* marks the slot, frees the timer with no lock held, and then clears the  *)
(* slot.  The timer has a process to signal (no SIGEV_NONE, and no         *)
(* SIGEV_THREAD_ID whose thread is gone).                                  *)
(***************************************************************************)
EXTENDS Timer

VARIABLES slot,     \* the posix_timers entry
          setting,  \* history: the last successful setting
          cbSetting, \* history: the setting a callback under way belongs to
          sent      \* history: signals sent for the last setting

vars == <<timerVars, slot, setting, cbSetting, sent>>

\* first: the first deadline, 0 if disarmed; id: the number of the setting
Settings == [id : 0..MaxSets, first : Nat, ivl : Nat]

TypeOK ==
    /\ HostTypeOK
    /\ slot \in {"used", "deleting", "empty"}
    /\ setting \in Settings
    /\ cbSetting \in 0..MaxSets
    /\ sent \in Nat
    /\ slot = "used" => ~dead
    /\ slot = "empty" => freed

Init ==
    /\ HostInit
    /\ slot = "used"
    /\ setting = [id |-> 0, first |-> 0, ivl |-> 0]
    /\ cbSetting = 0
    /\ sent = 0

\* A disarmed timer has no interval.
IntervalOf(value, ivl) == IF value = 0 THEN 0 ELSE ivl

\* sys_timer_settime, tgroup_itimer_set
Settime(value, ivl, absolute) ==
    LET at == Deadline(value, absolute)
        i  == IntervalOf(value, ivl)
    IN
    /\ slot = "used" /\ LockFree
    /\ TimerSet(at, i)
    /\ setting' = [id |-> setting.id + 1, first |-> at, ivl |-> i]
    /\ sent' = 0
    /\ UNCHANGED <<slot, cbSetting>>

\* The thread cannot be created: the old setting stays in force.
SettimeFails(value, ivl, absolute) ==
    /\ slot = "used" /\ LockFree
    /\ TimerSetFails(Deadline(value, absolute), IntervalOf(value, ivl))
    /\ UNCHANGED <<slot, setting, cbSetting, sent>>

\* Wrong variant: the callback does not ask whether it is still current.
CallbackUnchecked ==
    /\ thread = "callback" /\ LockFree
    /\ thread' = "current"
    /\ UNCHANGED <<now, end, interval, active, dead, gen, cbGen, wake, freed,
                   slot, setting, cbSetting, sent>>

\* posix_timer_callback takes pids_lock and asks whether it is current, under
\* timer->lock, which it gives up again.
CallbackCheck ==
    /\ thread = "callback" /\ LockFree
    /\ thread' = IF CallbackIsCurrent THEN "current" ELSE "returning"
    /\ UNCHANGED <<now, end, interval, active, dead, gen, cbGen, wake, freed,
                   slot, setting, cbSetting, sent>>

\* itimer_notify does the same, but finds no timer once the end of the group has
\* taken group->itimer away.
CallbackUnhooked ==
    /\ thread = "callback" /\ LockFree
    /\ slot = "deleting"
    /\ thread' = "returning"
    /\ UNCHANGED <<now, end, interval, active, dead, gen, cbGen, wake, freed,
                   slot, setting, cbSetting, sent>>

\* The signal goes out, and pids_lock is released.
CallbackSend ==
    /\ thread = "current"
    /\ thread' = "returning"
    /\ sent' = sent + 1
    /\ UNCHANGED <<now, end, interval, active, dead, gen, cbGen, wake, freed,
                   slot, setting, cbSetting>>

Callback == CallbackCheck \/ CallbackUnhooked \/ CallbackSend

\* sys_timer_delete, tgroup_timers_destroy: first part
DeleteBegin ==
    /\ slot = "used"
    /\ slot' = "deleting"
    /\ UNCHANGED <<timerVars, setting, cbSetting, sent>>

DeleteFree ==
    /\ slot = "deleting"
    /\ TimerFreeBegin
    /\ UNCHANGED <<slot, setting, cbSetting, sent>>

DeleteFreed ==
    /\ slot = "deleting"
    /\ TimerFreeEnd
    /\ UNCHANGED <<slot, setting, cbSetting, sent>>

DeleteEnd ==
    /\ slot = "deleting" /\ freed
    /\ slot' = "empty"
    /\ UNCHANGED <<timerVars, setting, cbSetting, sent>>

\* The thread's steps; an expiry belongs to the setting in force.
TimerThread ==
    /\ ThreadStep
    /\ cbSetting' = IF thread = "ready" /\ thread' = "callback" THEN setting.id
                    ELSE cbSetting
    /\ UNCHANGED <<slot, setting, sent>>

Clock == Tick /\ UNCHANGED <<slot, setting, cbSetting, sent>>

Next ==
    \/ Clock
    \/ TimerThread
    \/ Callback
    \/ \E v \in Values, i \in Intervals, absolute \in BOOLEAN :
          Settime(v, i, absolute) \/ SettimeFails(v, i, absolute)
    \/ DeleteBegin \/ DeleteFree \/ DeleteFreed \/ DeleteEnd

Spec == Init /\ [][Next]_vars

----------------------------------------------------------------------------
(* Properties *)

\* How many deadlines of the last setting have passed.
Due == IF setting.first = 0 \/ now < setting.first THEN 0
       ELSE IF setting.ivl = 0 THEN 1
       ELSE (now - setting.first) \div setting.ivl + 1

\* A signal is sent only for the setting in force, not for one that was replaced
\* or disarmed while its callback was on the way.  A callback that found itself
\* current may still send while timer_free waits for it, but none does once
\* timer_free has returned and the slot can be given to a new timer
\* (posix_timer_callback, timer_callback_is_current, timer_free).
NoStaleSignal == [][sent' > sent => cbSetting = setting.id /\ ~freed]_vars

\* Expiries of the setting in force that were signalled or will be.
Counted == sent + (IF thread = "current" \/ (thread = "callback" /\ CallbackIsCurrent)
                   THEN 1 ELSE 0)

\* The host timer does what the last successful setting says, also after a
\* setting that failed half-way (timer_set_common's rollback): it is armed, with
\* a thread, exactly while a deadline of that setting is ahead, for that
\* deadline and with that interval.
SettingInForce ==
    slot = "used" =>
       /\ interval = setting.ivl
       /\ active <=> setting.first # 0 /\ (setting.ivl # 0 \/ Counted = 0)
       /\ active => Running /\ end = setting.first + Counted * setting.ivl

\* No signal comes early, and none comes twice.
NotMoreThanDue == sent <= Due

\* Every deadline that has passed gets its signal, unless the timer is set
\* again or deleted.
EveryDeadlineSignalled ==
    \A n \in 1..MaxTime, k \in 0..MaxSets :
       (Due >= n /\ setting.id = k) ~> (sent >= n \/ setting.id # k \/ dead)

\* A deletion ends: it does not wait for a thread that nobody wakes.
DeleteEnds == slot = "deleting" ~> slot = "empty"
=============================================================================
