---------------------------- MODULE Timers_proofs ----------------------------
(***************************************************************************)
(* Proofs about PosixTimer, TimerFd and their composition in Timers, for   *)
(* every clock bound, number of settings and set of values: typing, no     *)
(* oversleeping, no use after free, no stale signal, no deadline counted   *)
(* twice or early, and no period of a timerfd lost.                        *)
(***************************************************************************)
EXTENDS Timers, TLAPS

----------------------------------------------------------------------------
(* PosixTimer *)

\* The generation of the timer is the number of the setting in force, and that
\* of a callback under way the number of the setting it belongs to.  Nobody sets the
\* timer while a callback that found itself current has the client's lock.
GenerationInv ==
    /\ gen = setting.id
    /\ thread \in {"callback", "current"} => cbGen = cbSetting
    /\ thread = "current" => cbGen = gen

\* What the thread may still do with a timer that is being freed.
DeadInv ==
    /\ dead => ~active
    /\ freed => dead /\ thread = "none"

PosixTimerInv == TypeOK /\ SleepCoversDeadline /\ GenerationInv /\ DeadInv

USE DEF hostVars, timerVars

\* A new timer is well typed.
LEMMA TypeInit == Init => TypeOK
<1> SUFFICES ASSUME Init PROVE TypeOK
  OBVIOUS
<1>1. now \in 0..MaxTime /\ gen \in 0..MaxSets /\ cbGen \in 0..MaxSets
      /\ setting \in Settings /\ cbSetting \in 0..MaxSets /\ end \in Nat
      /\ interval \in Nat /\ wake \in Nat /\ sent \in Nat
  BY TimerAssumption, SMT DEF Init, HostInit, Settings
<1>2. active \in BOOLEAN /\ dead \in BOOLEAN /\ freed \in BOOLEAN
      /\ (active => thread # "none") /\ slot = "used" /\ ~dead
      /\ thread \in ThreadStates
  BY Zenon DEF Init, HostInit, ThreadStates
<1>3. slot # "empty" /\ slot \in {"used", "deleting", "empty"}
  BY <1>2
<1>4. QED
  BY <1>1, <1>2, <1>3, Zenon DEF TypeOK, HostTypeOK

\* Typing is preserved by every step; the bound on the number of settings comes
\* from the generation.
LEMMA TypeStep == TypeOK /\ GenerationInv /\ [Next]_vars => TypeOK'
<1> SUFFICES ASSUME TypeOK, GenerationInv, [Next]_vars PROVE TypeOK'
  OBVIOUS
<1> USE TimerAssumption
        DEF TypeOK, HostTypeOK, Settings, ThreadStates
<1>1. CASE Clock
  BY <1>1 DEF Clock, Tick
<1>2. CASE TimerThread
  <2>1. CASE ThreadSleep
    BY <1>2, <2>1 DEF TimerThread, ThreadSleep
  <2>2. CASE ThreadTimeout
    BY <1>2, <2>2 DEF TimerThread, ThreadTimeout
  <2>3. CASE ThreadExpire
    <3>1. thread' = "callback" /\ cbGen' = gen /\ cbSetting' \in 0..MaxSets
          /\ UNCHANGED <<now, interval, dead, gen, wake, freed, slot, setting, sent>>
      BY <1>2, <2>3 DEF TimerThread, ThreadExpire
    <3>2. CASE interval > 0
      <4>1. end' = end + interval /\ active' = active
        BY <2>3, <3>2 DEF ThreadExpire
      <4>2. QED
        BY <3>1, <4>1
    <3>3. CASE ~(interval > 0)
      <4>1. active' = FALSE /\ end' = end
        BY <2>3, <3>3 DEF ThreadExpire
      <4>2. QED
        BY <3>1, <4>1
    <3>4. QED
      BY <3>2, <3>3
  <2>4. CASE ThreadReturn
    BY <1>2, <2>4 DEF TimerThread, ThreadReturn
  <2>5. CASE ThreadExit
    BY <1>2, <2>5 DEF TimerThread, ThreadExit
  <2>6. QED
    BY <1>2, <2>1, <2>2, <2>3, <2>4, <2>5 DEF TimerThread, ThreadStep
<1>3. CASE Callback
  BY <1>3 DEF Callback, CallbackCheck, CallbackUnhooked, CallbackSend
<1>4. ASSUME NEW v \in Values, NEW absolute \in BOOLEAN, NEW i \in Intervals,
             Settime(v, i, absolute)
      PROVE  TypeOK'
  <2>1. Deadline(v, absolute) \in Nat
    BY DEF Deadline
  <2>2. active' \in BOOLEAN
    BY <1>4, Zenon DEF Settime, TimerSet
  <2>3. thread' \in ThreadStates /\ (active' => thread' # "none")
    <3>1. active' => Deadline(v, absolute) # 0
      BY <1>4, Zenon DEF Settime, TimerSet
    <3>2. thread' = IF Deadline(v, absolute) # 0 /\ ~Running THEN "ready" ELSE Notified
      BY <1>4 DEF Settime, TimerSet
    <3>3. QED
      BY <3>1, <3>2 DEF Running, Notified
  <2>4. end' \in Nat /\ interval' \in Nat /\ gen' \in 0..MaxSets /\ setting' \in Settings
        /\ sent' \in Nat
        /\ UNCHANGED <<now, dead, cbGen, wake, freed, slot, cbSetting>>
    <3>1. end' = Deadline(v, absolute) /\ gen' = gen + 1 /\ gen < MaxSets /\ sent' = 0
          /\ interval' = IntervalOf(v, i) /\ IntervalOf(v, i) \in Nat
          /\ setting' = [id |-> setting.id + 1, first |-> Deadline(v, absolute),
                         ivl |-> IntervalOf(v, i)]
          /\ UNCHANGED <<now, dead, cbGen, wake, freed, slot, cbSetting>>
      BY <1>4 DEF Settime, TimerSet, IntervalOf
    <3>2. gen = setting.id
      BY DEF GenerationInv
    <3>3. QED
      BY <2>1, <3>1, <3>2
  <2>5. QED
    BY <2>2, <2>3, <2>4
<1>5. ASSUME NEW v \in Values, NEW absolute \in BOOLEAN, NEW i \in Intervals,
             SettimeFails(v, i, absolute)
      PROVE  TypeOK'
  BY <1>5 DEF SettimeFails, TimerSetFails
<1>6. CASE DeleteBegin
  BY <1>6 DEF DeleteBegin
<1>7. CASE DeleteFree
  BY <1>7 DEF DeleteFree, TimerFreeBegin, Notified
<1>8. CASE DeleteFreed
  BY <1>8 DEF DeleteFreed, TimerFreeEnd, Running
<1>9. CASE DeleteEnd
  BY <1>9 DEF DeleteEnd
<1>10. CASE UNCHANGED vars
  BY <1>10 DEF vars
<1>11. QED
  BY <1>1, <1>2, <1>3, <1>4, <1>5, <1>6, <1>7, <1>8, <1>9, <1>10 DEF Next

\* The rest of the invariant is preserved by every step.
LEMMA InvStep == PosixTimerInv /\ [Next]_vars
                   => (SleepCoversDeadline /\ GenerationInv /\ DeadInv)'
<1> SUFFICES ASSUME PosixTimerInv, [Next]_vars
             PROVE  (SleepCoversDeadline /\ GenerationInv /\ DeadInv)'
  OBVIOUS
<1> USE TimerAssumption
        DEF PosixTimerInv, TypeOK, HostTypeOK, Settings, ThreadStates,
            SleepCoversDeadline, GenerationInv, DeadInv
<1>1. CASE Clock
  BY <1>1 DEF Clock, Tick
<1>2. CASE TimerThread
  <2>1. CASE ThreadSleep
    BY <1>2, <2>1 DEF TimerThread, ThreadSleep
  <2>2. CASE ThreadTimeout
    BY <1>2, <2>2 DEF TimerThread, ThreadTimeout
  <2>3. CASE ThreadExpire
    <3>1. thread' = "callback" /\ cbGen' = gen /\ cbSetting' = setting.id
          /\ UNCHANGED <<dead, gen, freed, setting>>
      BY <1>2, <2>3 DEF TimerThread, ThreadExpire
    <3>2. active /\ ~dead /\ ~freed
      BY <2>3 DEF ThreadExpire
    <3>3. QED
      BY <3>1, <3>2
  <2>4. CASE ThreadReturn
    BY <1>2, <2>4 DEF TimerThread, ThreadReturn
  <2>5. CASE ThreadExit
    BY <1>2, <2>5 DEF TimerThread, ThreadExit
  <2>6. QED
    BY <1>2, <2>1, <2>2, <2>3, <2>4, <2>5 DEF TimerThread, ThreadStep
<1>3. CASE Callback
  BY <1>3 DEF Callback, CallbackCheck, CallbackUnhooked, CallbackSend, CallbackIsCurrent
<1>4. ASSUME NEW v \in Values, NEW absolute \in BOOLEAN, NEW i \in Intervals,
             Settime(v, i, absolute)
      PROVE  (SleepCoversDeadline /\ GenerationInv /\ DeadInv)'
  <2>1. /\ gen' = gen + 1
        /\ setting' = [id |-> setting.id + 1, first |-> Deadline(v, absolute),
                       ivl |-> IntervalOf(v, i)]
        /\ ~dead
        /\ UNCHANGED <<dead, cbGen, freed, cbSetting>>
    BY <1>4 DEF Settime, TimerSet
  <2>2. /\ thread' # "sleep" /\ thread' # "current"
        /\ thread' = "callback" => thread = "callback"
    BY <1>4 DEF Settime, TimerSet, Running, Notified, LockFree
  <2>3. QED
    BY <2>1, <2>2
<1>5. ASSUME NEW v \in Values, NEW absolute \in BOOLEAN, NEW i \in Intervals,
             SettimeFails(v, i, absolute)
      PROVE  (SleepCoversDeadline /\ GenerationInv /\ DeadInv)'
  BY <1>5 DEF SettimeFails, TimerSetFails
<1>6. CASE DeleteBegin
  BY <1>6 DEF DeleteBegin
<1>7. CASE DeleteFree
  BY <1>7 DEF DeleteFree, TimerFreeBegin, Notified
<1>8. CASE DeleteFreed
  BY <1>8 DEF DeleteFreed, TimerFreeEnd, Running
<1>9. CASE DeleteEnd
  BY <1>9 DEF DeleteEnd
<1>10. CASE UNCHANGED vars
  BY <1>10 DEF vars
<1>11. QED
  BY <1>1, <1>2, <1>3, <1>4, <1>5, <1>6, <1>7, <1>8, <1>9, <1>10 DEF Next

\* A new timer satisfies the invariant.
LEMMA InvInit == Init => PosixTimerInv
<1> SUFFICES ASSUME Init PROVE PosixTimerInv
  OBVIOUS
<1>1. TypeOK
  BY TypeInit
<1>2. gen = setting.id
  BY DEF Init, HostInit
<1>3. SleepCoversDeadline /\ DeadInv /\ thread = "none"
  BY DEF Init, HostInit, SleepCoversDeadline, DeadInv
<1>4. QED
  BY <1>1, <1>2, <1>3 DEF PosixTimerInv, GenerationInv

\* The invariant holds in every reachable state.
THEOREM InvHolds == Spec => []PosixTimerInv
<1>1. Init => PosixTimerInv
  BY InvInit
<1>2. PosixTimerInv /\ [Next]_vars => PosixTimerInv'
  BY TypeStep, InvStep DEF PosixTimerInv
<1>3. QED
  BY <1>1, <1>2, PTL DEF Spec

\* Every reachable state is well typed: an active timer always has a thread, and
\* a slot in use a live timer.
THEOREM TypeCorrect == Spec => []TypeOK
BY InvHolds, PTL DEF PosixTimerInv

\* timer_thread never sleeps past the deadline now in force.
THEOREM SleepCoversDeadlineHolds == Spec => []SleepCoversDeadline
BY InvHolds, PTL DEF PosixTimerInv

\* timer_free releases the timer only when its thread is gone for good.
THEOREM NoUseAfterFreeHolds == Spec => []NoUseAfterFree
<1>1. PosixTimerInv => NoUseAfterFree
  BY DEF PosixTimerInv, DeadInv, NoUseAfterFree
<1>2. QED
  BY InvHolds, <1>1, PTL

\* posix_timer_callback and itimer_notify signal only for the setting in force, and
\* never once timer_free has returned.
THEOREM NoStaleSignalHolds == Spec => NoStaleSignal
<1>1. PosixTimerInv /\ [Next]_vars
        => [sent' > sent => cbSetting = setting.id /\ ~freed]_vars
  <2> SUFFICES ASSUME PosixTimerInv, Next, sent' > sent
               PROVE  cbSetting = setting.id /\ ~freed
    OBVIOUS
  <2>1. sent \in Nat
    BY DEF PosixTimerInv, TypeOK
  <2>2. CASE CallbackSend
    <3>1. thread = "current"
      BY <2>2 DEF CallbackSend
    <3>2. QED
      BY <3>1 DEF PosixTimerInv, GenerationInv, DeadInv
  <2>3. ASSUME NEW v \in Values, NEW absolute \in BOOLEAN, NEW i \in Intervals,
               Settime(v, i, absolute)
        PROVE  FALSE
    BY <2>1, <2>3 DEF Settime
  <2>4. sent' = sent \/ CallbackSend
          \/ \E v \in Values, absolute \in BOOLEAN, i \in Intervals : Settime(v, i, absolute)
    BY DEF Next, Clock, TimerThread, Callback, CallbackCheck, CallbackUnhooked, SettimeFails,
           DeleteBegin, DeleteFree, DeleteFreed, DeleteEnd
  <2>5. QED
    BY <2>1, <2>2, <2>3, <2>4
<1>2. QED
  BY InvHolds, <1>1, PTL DEF Spec, NoStaleSignal

----------------------------------------------------------------------------
(* How often a setting has been signalled *)

\* Each expiry that counts had come, and an armed timer waits for the next one.  A
\* callback that a deletion overtakes no longer counts.
CountInv ==
    /\ cbGen <= gen
    /\ Counted # 0 => /\ setting.first # 0
                      /\ now >= setting.first + (Counted - 1) * setting.ivl
    /\ setting.ivl = 0 /\ Counted # 0 => Counted = 1 /\ ~active
    /\ active => /\ interval = setting.ivl /\ setting.first # 0
                 /\ end >= setting.first + Counted * setting.ivl
    /\ SettingInForce

\* One more period.
LEMMA OneMore == ASSUME NEW a \in Int, NEW b \in Int PROVE (a + 1) * b = a * b + b
OBVIOUS

\* One less.
LEMMA OneLess == ASSUME NEW a \in Nat, NEW b \in Nat PROVE a * b = (a - 1) * b + b
OBVIOUS

\* How many periods fit.
LEMMA PeriodsFit ==
    ASSUME NEW a \in Nat, NEW b \in Nat \ {0}, NEW k \in Nat, k * b <= a
    PROVE  k <= a \div b
OBVIOUS

\* The types that the counting needs.
LEMMA CountTypes ==
    ASSUME TypeOK
    PROVE  /\ sent \in Nat /\ now \in Nat /\ end \in Nat /\ interval \in Nat
           /\ gen \in Nat /\ cbGen \in Nat /\ setting.first \in Nat /\ setting.ivl \in Nat
           /\ Counted \in Nat
BY TimerAssumption DEF TypeOK, HostTypeOK, Settings, Counted

\* Steps that leave the timer and its counts alone.
LEMMA CountSame ==
    ASSUME CountInv, PosixTimerInv, TypeOK', Counted' = Counted, now' >= now,
           UNCHANGED <<gen, cbGen, setting, interval, end, active>>,
           slot' = "used" => slot = "used"
    PROVE  CountInv'
<1>1. /\ now \in Nat /\ now' \in Nat /\ setting.first \in Nat /\ setting.ivl \in Nat
      /\ Counted \in Nat /\ (Counted - 1) * setting.ivl \in Int
      /\ active' => thread' # "none"
  BY CountTypes, TimerAssumption DEF PosixTimerInv, TypeOK, HostTypeOK
<1>2. SettingInForce'
  BY <1>1 DEF CountInv, SettingInForce, Running
<1>3. QED
  BY <1>1, <1>2 DEF CountInv

\* A deletion stops the timer, or overtakes a callback, which then does not count.
LEMMA CountDrop ==
    ASSUME CountInv, PosixTimerInv, Counted' = Counted \/ Counted' = Counted - 1,
           Counted' \in Nat, slot' # "used", active' => active,
           UNCHANGED <<now, gen, cbGen, setting, interval, end>>
    PROVE  CountInv'
<1>1. /\ now \in Nat /\ end \in Nat /\ setting.first \in Nat /\ setting.ivl \in Nat
      /\ Counted \in Nat
  BY CountTypes DEF PosixTimerInv
<1>2. SettingInForce'
  BY DEF SettingInForce
<1>3. CASE Counted' = Counted
  BY <1>1, <1>2, <1>3 DEF CountInv
<1>4. CASE Counted' = Counted - 1
  <2>1. /\ Counted * setting.ivl = Counted' * setting.ivl + setting.ivl
        /\ Counted' * setting.ivl = (Counted' - 1) * setting.ivl + setting.ivl
        /\ Counted' * setting.ivl \in Nat /\ (Counted' - 1) * setting.ivl \in Int
    <3>1. Counted * setting.ivl = Counted' * setting.ivl + setting.ivl
      BY <1>1, <1>4, OneLess
    <3>2. Counted' * setting.ivl = (Counted' - 1) * setting.ivl + setting.ivl
      BY <1>1, OneLess
    <3>3. \A k \in Int : k * setting.ivl \in Int
      BY <1>1
    <3>4. \A k \in Nat : k * setting.ivl \in Nat
      BY <1>1
    <3>5. QED
      BY <3>1, <3>2, <3>3, <3>4
  <2>2. /\ setting.first # 0 /\ now >= setting.first + Counted' * setting.ivl
        /\ setting.ivl = 0 => Counted' = 0 /\ ~active
    BY <1>1, <1>4 DEF CountInv
  <2>3. now >= setting.first + (Counted' - 1) * setting.ivl
    BY <1>1, <2>1, <2>2
  <2>4. active' => end >= setting.first + Counted' * setting.ivl /\ interval = setting.ivl
    BY <1>1, <2>1 DEF CountInv
  <2>5. QED
    BY <1>1, <1>2, <1>4, <2>2, <2>3, <2>4 DEF CountInv
<1>5. QED
  BY <1>3, <1>4

\* Every step keeps the counts right.
LEMMA CountStep == PosixTimerInv /\ CountInv /\ [Next]_vars => CountInv'
<1> SUFFICES ASSUME PosixTimerInv, CountInv, [Next]_vars PROVE CountInv'
  OBVIOUS
<1>0. TypeOK /\ GenerationInv /\ DeadInv
  BY DEF PosixTimerInv
<1>t. /\ sent \in Nat /\ now \in Nat /\ end \in Nat /\ interval \in Nat
      /\ gen \in Nat /\ cbGen \in Nat /\ setting.first \in Nat /\ setting.ivl \in Nat
      /\ Counted \in Nat
  BY <1>0, CountTypes
<1>n. TypeOK' /\ (active' => thread' # "none")
  BY <1>0, TypeStep DEF TypeOK, HostTypeOK
<1>1. CASE Clock
  BY <1>1, <1>t, <1>n, CountSame DEF Clock, Tick, Counted, CallbackIsCurrent
<1>2. CASE TimerThread
  <2>1. CASE ThreadExpire
    <3>1. /\ thread = "ready" /\ active /\ ~dead /\ now >= end
          /\ thread' = "callback" /\ cbGen' = gen
          /\ UNCHANGED <<now, interval, dead, gen, setting, sent, slot>>
      BY <1>0, <1>2, <2>1 DEF TimerThread, ThreadExpire, DeadInv
    <3>2. Counted = sent /\ Counted' = sent + 1
      BY <1>t, <3>1 DEF Counted, CallbackIsCurrent
    <3>3. /\ interval = setting.ivl /\ setting.first # 0
          /\ end >= setting.first + sent * setting.ivl
          /\ slot = "used" => end = setting.first + sent * setting.ivl
          /\ setting.ivl = 0 => sent = 0
      BY <1>t, <3>1, <3>2 DEF CountInv, SettingInForce
    <3>4. sent * setting.ivl \in Nat /\ (sent + 1) * setting.ivl = sent * setting.ivl + setting.ivl
      BY <1>t, OneMore
    <3>5. now' >= setting'.first + (Counted' - 1) * setting'.ivl
      BY <1>t, <3>1, <3>2, <3>3, <3>4
    <3>6. CASE interval > 0
      <4>1. end' = end + interval /\ active'
        BY <2>1, <3>6 DEF ThreadExpire
      <4>2. /\ end' >= setting'.first + Counted' * setting'.ivl
            /\ slot' = "used" => end' = setting'.first + Counted' * setting'.ivl
        BY <1>t, <3>1, <3>2, <3>3, <3>4, <4>1
      <4>3. SettingInForce'
        BY <1>t, <1>n, <3>1, <3>3, <3>6, <4>1, <4>2 DEF SettingInForce, Running
      <4>4. QED
        BY <1>t, <3>1, <3>2, <3>3, <3>5, <3>6, <4>2, <4>3 DEF CountInv
    <3>7. CASE ~(interval > 0)
      <4>1. active' = FALSE
        BY <2>1, <3>7 DEF ThreadExpire
      <4>2. setting.ivl = 0
        BY <1>t, <3>3, <3>7
      <4>3. SettingInForce'
        BY <1>t, <3>1, <3>2, <3>3, <4>1, <4>2 DEF SettingInForce
      <4>4. QED
        BY <1>t, <3>1, <3>2, <3>3, <3>5, <4>1, <4>2, <4>3 DEF CountInv
    <3>8. QED
      BY <3>6, <3>7
  <2>2. CASE ThreadSleep \/ ThreadTimeout \/ ThreadReturn \/ ThreadExit
    <3>1. /\ thread \notin {"callback", "current"} /\ thread' \notin {"callback", "current"}
          /\ UNCHANGED <<now, gen, cbGen, setting, interval, end, active, sent, slot>>
      BY <1>2, <2>2 DEF TimerThread, ThreadSleep, ThreadTimeout, ThreadReturn, ThreadExit
    <3>2. QED
      BY <1>t, <1>n, <3>1, CountSame DEF Counted
  <2>3. QED
    BY <1>2, <2>1, <2>2 DEF TimerThread, ThreadStep
<1>3. CASE Callback
  <2>1. CASE CallbackCheck \/ CallbackSend
    <3>1. UNCHANGED <<now, gen, cbGen, setting, interval, end, active, dead, slot>>
      BY <2>1 DEF CallbackCheck, CallbackSend
    <3>2. Counted' = Counted
      BY <1>t, <2>1 DEF CallbackCheck, CallbackSend, Counted, CallbackIsCurrent
    <3>3. QED
      BY <1>t, <1>n, <3>1, <3>2, CountSame
  <2>2. CASE CallbackUnhooked
    <3>1. /\ slot' # "used" /\ thread = "callback" /\ thread' = "returning"
          /\ UNCHANGED <<now, gen, cbGen, setting, interval, end, active, sent>>
      BY <2>2 DEF CallbackUnhooked
    <3>2. Counted' = sent /\ (Counted = sent \/ Counted = sent + 1)
      BY <1>t, <3>1 DEF Counted
    <3>3. QED
      BY <1>t, <3>1, <3>2, CountDrop
  <2>3. QED
    BY <1>3, <2>1, <2>2 DEF Callback
<1>4. ASSUME NEW v \in Values, NEW absolute \in BOOLEAN, NEW i \in Intervals,
             Settime(v, i, absolute)
      PROVE  CountInv'
  <2> DEFINE at == Deadline(v, absolute)
             ivl == IntervalOf(v, i)
  <2>1. /\ gen' = gen + 1 /\ cbGen' = cbGen /\ sent' = 0 /\ end' = at /\ interval' = ivl
        /\ (active' <=> at # 0)
        /\ setting' = [id |-> setting.id + 1, first |-> at, ivl |-> ivl]
    BY <1>4 DEF Settime, TimerSet
  <2>2. at \in Nat /\ ivl \in Nat
    BY <1>t, TimerAssumption DEF Deadline, IntervalOf
  <2>3. setting'.first = at /\ setting'.ivl = ivl
    BY <2>1
  <2>4. thread' # "current"
    BY <1>4 DEF Settime, TimerSet, LockFree, Notified
  <2> HIDE DEF at, ivl
  <2>5. Counted' = 0
    BY <1>t, <2>1, <2>4 DEF Counted, CallbackIsCurrent, CountInv
  <2>6. Counted' * setting'.ivl = 0
    BY <2>2, <2>3, <2>5
  <2>7. SettingInForce'
    BY <1>n, <2>1, <2>2, <2>3, <2>5, <2>6 DEF SettingInForce, Running
  <2>8. QED
    BY <1>t, <2>1, <2>2, <2>3, <2>5, <2>6, <2>7 DEF CountInv
<1>5. CASE DeleteFree
  <2>1. ~active' /\ UNCHANGED <<now, gen, cbGen, setting, sent, interval, end>> /\ slot' # "used"
    BY <1>5 DEF DeleteFree, TimerFreeBegin
  <2>2. thread' = Notified /\ dead'
    BY <1>5 DEF DeleteFree, TimerFreeBegin
  <2>3. Counted' = Counted \/ (Counted = sent + 1 /\ Counted' = sent)
    BY <1>t, <2>1, <2>2 DEF Counted, CallbackIsCurrent, Notified
  <2>4. QED
    BY <1>t, <2>1, <2>3, CountDrop
<1>6. ASSUME UNCHANGED <<now, gen, cbGen, setting, interval, end, active, sent, thread, dead>>,
             slot' = "used" => slot = "used"
      PROVE  CountInv'
  BY <1>6, <1>t, <1>n, CountSame DEF Counted, CallbackIsCurrent
<1>7. CASE UNCHANGED vars
  BY <1>6, <1>7 DEF vars
<1>8. CASE DeleteBegin \/ DeleteFreed \/ DeleteEnd
           \/ \E v \in Values, i \in Intervals, absolute \in BOOLEAN :
                 SettimeFails(v, i, absolute)
  BY <1>6, <1>8 DEF DeleteBegin, DeleteFreed, DeleteEnd, TimerFreeEnd, SettimeFails, TimerSetFails
<1>9. QED
  BY <1>1, <1>2, <1>3, <1>4, <1>5, <1>7, <1>8 DEF Next

\* A new timer has nothing counted.
LEMMA CountInit == Init => CountInv
BY DEF Init, HostInit, CountInv, Counted, SettingInForce

\* What the counts say about the deadlines.
LEMMA CountBounds == PosixTimerInv /\ CountInv => NotMoreThanDue
<1> SUFFICES ASSUME PosixTimerInv, CountInv PROVE sent <= Due
  BY DEF NotMoreThanDue
<1>1. /\ sent \in Nat /\ now \in Nat /\ setting.first \in Nat /\ setting.ivl \in Nat
      /\ Counted \in Nat
  BY CountTypes DEF PosixTimerInv
<1>2. Counted = sent \/ Counted = sent + 1
  BY <1>1 DEF Counted
<1>3. CASE sent = 0
  <2>1. Due \in Nat
    BY <1>1 DEF Due
  <2>2. QED
    BY <1>3, <2>1
<1>4. CASE sent # 0
  <2>1. setting.first # 0 /\ now >= setting.first + (sent - 1) * setting.ivl
    <3>1. /\ setting.first # 0 /\ now >= setting.first + (Counted - 1) * setting.ivl
          /\ setting.ivl = 0 => Counted = 1
      BY <1>1, <1>2, <1>4 DEF CountInv
    <3>2. sent * setting.ivl = (sent - 1) * setting.ivl + setting.ivl
      BY <1>1, OneLess
    <3>3. QED
      BY <1>1, <1>2, <3>1, <3>2
  <2>2. (sent - 1) * setting.ivl \in Nat
    BY <1>1, <1>4
  <2>3. CASE setting.ivl = 0
    <3>1. sent = 1
      BY <1>1, <1>2, <1>4, <2>3 DEF CountInv
    <3>2. now >= setting.first
      BY <1>1, <2>1, <2>2
    <3>3. QED
      BY <1>1, <2>1, <2>3, <3>1, <3>2 DEF Due
  <2>4. CASE setting.ivl # 0
    <3>1. now - setting.first \in Nat /\ (sent - 1) * setting.ivl <= now - setting.first
      BY <1>1, <2>1, <2>2
    <3>2. sent - 1 <= (now - setting.first) \div setting.ivl
      BY <1>1, <1>4, <2>4, <3>1, PeriodsFit
    <3>3. (now - setting.first) \div setting.ivl \in Int
      BY <1>1, <2>4, <3>1
    <3>4. Due = (now - setting.first) \div setting.ivl + 1
      BY <1>1, <2>1, <2>4, <3>1 DEF Due
    <3>5. QED
      BY <1>1, <3>2, <3>3, <3>4
  <2>5. QED
    BY <2>3, <2>4
<1>5. QED
  BY <1>3, <1>4

\* No signal comes early and none comes twice, for every clock bound, interval and number
\* of settings: a setting is never signalled more often than its deadlines have passed.
THEOREM NotMoreThanDueHolds == Spec => []NotMoreThanDue
BY CountInit, CountStep, CountBounds, InvHolds, PTL DEF Spec

\* The host timer is armed for the next deadline of the last setting that succeeded,
\* for every clock bound, interval and number of settings: settings that failed when
\* the thread could not be created, and stale callbacks, leave no trace.
THEOREM SettingInForceHolds == Spec => []SettingInForce
<1>1. CountInv => SettingInForce
  BY DEF CountInv
<1>2. QED
  BY CountInit, CountStep, InvHolds, <1>1, PTL DEF Spec

----------------------------------------------------------------------------
(* TimerFd *)

USE DEF fdVars, tfdVars

FdTypeOK ==
    /\ HostTypeOK
    /\ next \in Nat /\ fdInterval \in Nat /\ first \in Nat
    /\ expirations \in Nat /\ reads \in Nat
    /\ expired \in BOOLEAN /\ open \in BOOLEAN

\* The host timer is always armed for one deadline only.
FdHostInv ==
    /\ SleepCoversDeadline /\ DeadInv
    /\ interval = 0 /\ cbGen <= gen

FdCounted == reads + expirations
CallbackDue == thread = "current" \/ (thread = "callback" /\ CallbackIsCurrent)
Flag == IF expired THEN 1 ELSE 0

\* What was counted are the deadlines before next, and next itself once it expired; each
\* of them had come; while one is awaited, it is next, and it is not counted yet.
FdCountInv ==
    /\ FdCounted # 0 => first # 0 /\ now >= first + (FdCounted - 1) * fdInterval
    /\ first # 0 => next = first + (FdCounted - Flag) * fdInterval
    /\ expired => FdCounted # 0
    /\ active => ~expired /\ first # 0 /\ next <= end
    /\ CallbackDue => ~expired /\ ~active /\ first # 0 /\ next <= now
    /\ fdInterval = 0 /\ FdCounted # 0 => FdCounted = 1 /\ ~active /\ ~CallbackDue

FdInv == FdTypeOK /\ FdHostInv /\ FdCountInv

\* The deadline that timerfd_program_locked gives to the host timer.
ProgramAt(deadline) == IF deadline = 0 \/ deadline > now THEN deadline ELSE now

\* What arming does to the host timer: a callback under way is stale from now on.
LEMMA Programmed ==
    ASSUME FdTypeOK, FdHostInv, LockFree, NEW d \in Nat, Program(d)
    PROVE  /\ HostTypeOK' /\ FdHostInv' /\ now' = now
           /\ ~CallbackDue'
           /\ active' => d # 0 /\ d <= end'
<1>0. /\ now \in Nat /\ gen \in 0..MaxSets /\ cbGen \in Nat /\ MaxSets \in Nat
      /\ ProgramAt(d) \in Nat
  BY TimerAssumption DEF FdTypeOK, HostTypeOK, ProgramAt
<1>1. /\ end' = ProgramAt(d) /\ interval' = 0 /\ gen' = gen + 1 /\ gen < MaxSets /\ ~dead
      /\ thread' = IF ProgramAt(d) # 0 /\ ~Running THEN "ready" ELSE Notified
      /\ UNCHANGED <<now, dead, cbGen, wake, freed>>
  BY DEF Program, TimerSet, ProgramAt
<1>2. active' = (ProgramAt(d) # 0)
  BY DEF Program, TimerSet, ProgramAt
<1>3. active' \in BOOLEAN /\ (active' <=> ProgramAt(d) # 0)
  BY <1>2
<1>4. active' => d # 0 /\ d <= end'
  BY <1>0, <1>1, <1>3 DEF ProgramAt
<1>5. ~CallbackDue'
  <2>1. thread' # "current"
    BY <1>1 DEF LockFree, Notified
  <2>2. QED
    BY <1>0, <1>1, <2>1 DEF CallbackDue, CallbackIsCurrent, FdHostInv
<1>6. thread' \in ThreadStates /\ thread' # "sleep" /\ (ProgramAt(d) # 0 => thread' # "none")
  BY <1>1 DEF Running, Notified, FdTypeOK, HostTypeOK, ThreadStates
<1>7. HostTypeOK'
  <2>1. wake' \in Nat /\ dead' \in BOOLEAN /\ freed' \in BOOLEAN /\ now' \in 0..MaxTime
        /\ cbGen' \in 0..MaxSets
    BY <1>1 DEF FdTypeOK, HostTypeOK
  <2>2. end' \in Nat /\ interval' \in Nat /\ gen' \in 0..MaxSets
    BY <1>0, <1>1
  <2>3. QED
    BY <1>3, <1>6, <2>1, <2>2 DEF HostTypeOK
<1>8. FdHostInv'
  <2>1. cbGen' <= gen' /\ interval' = 0
    BY <1>0, <1>1 DEF FdHostInv
  <2>2. ~dead' /\ ~freed'
    BY <1>1 DEF FdHostInv, DeadInv
  <2>3. QED
    BY <1>6, <2>1, <2>2 DEF FdHostInv, SleepCoversDeadline, DeadInv
<1>9. QED
  BY <1>1, <1>4, <1>5, <1>7, <1>8

\* Steps that neither arm the timer nor count.
LEMMA FdSame ==
    ASSUME FdTypeOK, FdCountInv, now' \in Nat, now' >= now, UNCHANGED tfdVars,
           active' => active /\ end' = end, CallbackDue' => CallbackDue
    PROVE  FdCountInv'
<1>1. /\ now \in Nat /\ first \in Nat /\ next \in Nat /\ fdInterval \in Nat /\ FdCounted \in Nat
      /\ (FdCounted - 1) * fdInterval \in Int
  BY TimerAssumption DEF FdTypeOK, HostTypeOK, FdCounted
<1>2. FdCounted' = FdCounted /\ Flag' = Flag
  BY DEF FdCounted, Flag
<1>3. QED
  BY <1>1, <1>2 DEF FdCountInv

\* (a + k) periods after a.
LEMMA Split == ASSUME NEW a \in Int, NEW k \in Int, NEW b \in Int
               PROVE  (a + k) * b = a * b + k * b
OBVIOUS

\* Whole periods do not exceed the time.
LEMMA DivFits == ASSUME NEW a \in Nat, NEW b \in Nat \ {0}
                 PROVE  /\ a \div b \in Nat /\ (a \div b) * b <= a
OBVIOUS

\* Multiples of a period.
LEMMA Whole == ASSUME NEW k \in Nat, NEW b \in Nat \ {0}
               PROVE  (k * b) % b = 0 /\ (k * b) \div b = k
OBVIOUS

\* The count that a read or a gettime adds when it arms the timer again.
LEMMA Refreshed ==
    ASSUME FdInv, LockFree, Refresh, FdCounted' = FdCounted + Periods - 1, first' = first,
           reads' \in Nat, expirations' \in Nat, open' \in BOOLEAN
    PROVE  FdInv'
<1> USE DEF FdInv
<1> DEFINE at == next + Periods * fdInterval
<1>0. /\ now \in Nat /\ first \in Nat /\ next \in Nat /\ fdInterval \in Nat \ {0}
      /\ FdCounted \in Nat /\ expired
  BY TimerAssumption DEF FdTypeOK, HostTypeOK, FdCounted, Refresh, NeedsRefresh
<1>1. /\ FdCounted # 0 /\ first # 0 /\ now >= first + (FdCounted - 1) * fdInterval
      /\ next = first + (FdCounted - 1) * fdInterval
  BY <1>0 DEF FdCountInv, Flag
<1>2. now - next \in Nat
  BY <1>0, <1>1
<1>3. /\ Periods = (now - next) \div fdInterval + 1 /\ Periods \in Nat
      /\ (Periods - 1) * fdInterval <= now - next
  <2>1. Periods = (now - next) \div fdInterval + 1
    BY <1>0, <1>2 DEF Periods
  <2>2. /\ (now - next) \div fdInterval \in Nat
        /\ ((now - next) \div fdInterval) * fdInterval <= now - next
    BY <1>0, <1>2, DivFits
  <2>3. QED
    BY <2>1, <2>2
<1>4. at \in Nat
  BY <1>0, <1>3
<1>5. Program(at) /\ next' = at /\ expired' = FALSE /\ fdInterval' = fdInterval
  BY DEF Refresh
<1> HIDE DEF at
<1>6. /\ HostTypeOK' /\ FdHostInv' /\ now' = now /\ ~CallbackDue'
      /\ active' => at # 0 /\ at <= end'
  BY <1>4, <1>5, Programmed
<1>7. FdTypeOK'
  BY <1>0, <1>4, <1>5, <1>6 DEF FdTypeOK
<1>8. at = first + FdCounted' * fdInterval
  <2>1. FdCounted' = (FdCounted - 1) + Periods
    BY <1>0, <1>3
  <2>2. FdCounted' * fdInterval = (FdCounted - 1) * fdInterval + Periods * fdInterval
    BY <1>0, <1>3, <2>1, Split
  <2>3. (FdCounted - 1) * fdInterval \in Int /\ Periods * fdInterval \in Int
    BY <1>0, <1>3
  <2>4. QED
    BY <1>0, <1>1, <2>2, <2>3 DEF at
<1>9. now >= first + (FdCounted' - 1) * fdInterval
  <2>1. FdCounted' - 1 = (FdCounted - 1) + (Periods - 1)
    BY <1>0, <1>3
  <2>2. (FdCounted' - 1) * fdInterval = (FdCounted - 1) * fdInterval + (Periods - 1) * fdInterval
    BY <1>0, <1>3, <2>1, Split
  <2>3. (FdCounted - 1) * fdInterval \in Int /\ (Periods - 1) * fdInterval \in Int
    BY <1>0, <1>3
  <2>4. QED
    BY <1>0, <1>1, <1>3, <2>2, <2>3
<1>10. FdCounted' \in Nat /\ FdCounted' # 0
  BY <1>0, <1>1, <1>3
<1>11. FdCountInv'
  <2>1. Flag' = 0
    BY <1>5 DEF Flag
  <2>2. next' = first' + (FdCounted' - Flag') * fdInterval'
    BY <1>5, <1>8, <1>10, <2>1
  <2>3. QED
    BY <1>0, <1>1, <1>5, <1>6, <1>9, <1>10, <2>2 DEF FdCountInv
<1>12. QED
  BY <1>6, <1>7, <1>11

\* timerfd_forward_deadline counts at least one period.
LEMMA PeriodsType ==
    ASSUME FdTypeOK, fdInterval # 0
    PROVE  Periods \in Nat \ {0}
<1>1. now \in Nat /\ next \in Nat /\ fdInterval \in Nat \ {0}
  BY TimerAssumption DEF FdTypeOK, HostTypeOK
<1>2. CASE now >= next
  <2>1. now - next \in Nat
    BY <1>1, <1>2
  <2>2. (now - next) \div fdInterval \in Nat
    BY <1>1, <2>1, DivFits
  <2>3. QED
    BY <1>2, <2>2 DEF Periods
<1>3. CASE ~(now >= next)
  BY <1>3 DEF Periods
<1>4. QED
  BY <1>2, <1>3

\* Every step of a timerfd and its host timer keeps the invariant.
LEMMA FdStep == FdInv /\ [FdNext]_<<timerVars, tfdVars>> => FdInv'
<1> SUFFICES ASSUME FdInv, [FdNext]_<<timerVars, tfdVars>> PROVE FdInv'
  OBVIOUS
<1> USE DEF FdInv
<1>0. /\ now \in Nat /\ first \in Nat /\ next \in Nat /\ fdInterval \in Nat /\ end \in Nat
      /\ expirations \in Nat /\ reads \in Nat /\ gen \in Nat /\ cbGen \in Nat
      /\ FdCounted \in Nat /\ MaxTime \in Nat /\ MaxSets \in Nat
  BY TimerAssumption DEF FdTypeOK, HostTypeOK, FdCounted
<1>h. /\ SleepCoversDeadline /\ DeadInv /\ interval = 0 /\ cbGen <= gen /\ HostTypeOK
  BY DEF FdHostInv, FdTypeOK
<1>1. CASE Tick /\ UNCHANGED tfdVars
  <2>1. now' \in 0..MaxTime /\ now' = now + 1 /\ UNCHANGED hostVars
    BY <1>0, <1>1 DEF Tick
  <2>2. FdTypeOK' /\ FdHostInv'
    BY <1>1, <1>h, <2>1 DEF FdTypeOK, HostTypeOK, FdHostInv, SleepCoversDeadline, DeadInv
  <2>3. CallbackDue' => CallbackDue
    BY <2>1 DEF CallbackDue, CallbackIsCurrent
  <2>4. QED
    BY <1>0, <1>1, <2>1, <2>2, <2>3, FdSame
<1>2. CASE FdThread
  <2>1. CASE ThreadExpire
    <3>1. /\ thread = "ready" /\ active /\ ~dead /\ ~freed /\ now >= end
          /\ thread' = "callback" /\ cbGen' = gen /\ active' = FALSE
          /\ UNCHANGED <<now, end, interval, dead, gen, wake, freed>> /\ UNCHANGED tfdVars
      BY <1>2, <1>h, <2>1 DEF FdThread, ThreadExpire, DeadInv
    <3>2. FdTypeOK'
      BY <1>h, <3>1 DEF FdTypeOK, HostTypeOK, ThreadStates
    <3>3. FdHostInv'
      BY <1>0, <1>h, <3>1 DEF FdHostInv, SleepCoversDeadline, DeadInv
    <3>4. ~expired /\ first # 0 /\ next <= end
      BY <3>1 DEF FdCountInv
    <3>5. next <= now
      BY <1>0, <3>1, <3>4
    <3>6. fdInterval = 0 => FdCounted = 0
      BY <3>1 DEF FdCountInv
    <3>7. FdCounted' = FdCounted /\ Flag' = Flag
      BY <3>1 DEF FdCounted, Flag
    <3>8. FdCountInv'
      BY <1>0, <3>1, <3>4, <3>5, <3>6, <3>7 DEF FdCountInv
    <3>9. QED
      BY <3>2, <3>3, <3>8
  <2>2. CASE ThreadSleep \/ ThreadTimeout \/ ThreadReturn \/ ThreadExit
    <3>1. /\ thread' \notin {"callback", "current"} /\ thread' \in ThreadStates /\ wake' \in Nat
          /\ UNCHANGED <<now, end, interval, active, dead, gen, cbGen, freed>> /\ UNCHANGED tfdVars
          /\ active => thread' # "none"
      BY <1>2, <1>h, <2>2 DEF FdThread, ThreadSleep, ThreadTimeout, ThreadReturn, ThreadExit,
         HostTypeOK, ThreadStates
    <3>2. FdTypeOK'
      BY <1>h, <3>1 DEF FdTypeOK, HostTypeOK
    <3>3. SleepCoversDeadline' /\ (freed' => thread' = "none")
      <4>1. thread' = "sleep" => active /\ wake' = end
        BY <2>2 DEF ThreadSleep, ThreadTimeout, ThreadReturn, ThreadExit
      <4>2. freed => FALSE
        BY <1>h, <2>2 DEF DeadInv, ThreadSleep, ThreadTimeout, ThreadReturn, ThreadExit
      <4>3. QED
        BY <1>0, <3>1, <4>1, <4>2 DEF SleepCoversDeadline
    <3>4. FdHostInv'
      BY <1>h, <3>1, <3>3 DEF FdHostInv, DeadInv
    <3>5. QED
      BY <1>0, <3>1, <3>2, <3>4, FdSame DEF CallbackDue
  <2>3. QED
    BY <1>2, <2>1, <2>2 DEF FdThread, ThreadStep
<1>3. CASE FdCallback
  <2>1. CASE FdCallbackCheck
    <3>1. /\ thread = "callback" /\ thread' = IF CallbackIsCurrent THEN "current" ELSE "returning"
          /\ UNCHANGED <<now, end, interval, active, dead, gen, cbGen, wake, freed>>
          /\ UNCHANGED tfdVars
      BY <2>1 DEF FdCallbackCheck
    <3>2. FdTypeOK' /\ FdHostInv'
      BY <1>h, <3>1 DEF FdTypeOK, HostTypeOK, ThreadStates, FdHostInv, SleepCoversDeadline, DeadInv
    <3>3. CallbackDue' => CallbackDue
      BY <3>1 DEF CallbackDue
    <3>4. QED
      BY <1>0, <3>1, <3>2, <3>3, FdSame
  <2>2. CASE FdCallbackCount
    <3>1. /\ thread = "current" /\ thread' = "returning"
          /\ UNCHANGED <<now, end, interval, active, dead, gen, cbGen, wake, freed,
                         next, fdInterval, open, first, reads>>
      BY <2>2 DEF FdCallbackCount
    <3>2. HostTypeOK' /\ FdHostInv' /\ ~CallbackDue'
      BY <1>h, <3>1 DEF HostTypeOK, ThreadStates, FdHostInv, SleepCoversDeadline, DeadInv, CallbackDue
    <3>3. CallbackDue
      BY <3>1 DEF CallbackDue
    <3>4. ~active /\ ~expired
      BY <3>3 DEF FdCountInv
    <3>5. first # 0 /\ next <= now /\ (fdInterval = 0 => FdCounted = 0)
      BY <3>3, <3>4 DEF FdCountInv
    <3>6. expired' = TRUE /\ expirations' = expirations + 1
      BY <2>2, <3>4 DEF FdCallbackCount
    <3>7. FdTypeOK'
      BY <1>0, <3>1, <3>2, <3>6 DEF FdTypeOK
    <3>8. FdCounted' = FdCounted + 1 /\ Flag' = 1 /\ Flag = 0
      BY <1>0, <3>1, <3>4, <3>6 DEF FdCounted, Flag
    <3>9. next = first + FdCounted * fdInterval
      BY <1>0, <3>5, <3>8 DEF FdCountInv
    <3>10. FdCounted' - 1 = FdCounted /\ FdCounted' - Flag' = FdCounted
      BY <1>0, <3>8
    <3>11. FdCountInv'
      BY <1>0, <3>1, <3>2, <3>4, <3>5, <3>6, <3>8, <3>9, <3>10 DEF FdCountInv
    <3>12. QED
      BY <3>2, <3>7, <3>11
  <2>3. QED
    BY <1>3, <2>1, <2>2 DEF FdCallback
<1>4. ASSUME NEW v \in Values, NEW i \in Intervals, NEW absolute \in BOOLEAN,
             FdSettime(v, i, absolute)
      PROVE  FdInv'
  <2> DEFINE at == Deadline(v, absolute)
  <2>1. at \in Nat /\ i \in Nat
    BY <1>0, TimerAssumption DEF Deadline
  <2> HIDE DEF at
  <2>2. CASE ProgramFails(at) /\ UNCHANGED <<fdVars, first, reads>>
    <3>1. UNCHANGED timerVars /\ UNCHANGED tfdVars
      BY <1>4, <2>2 DEF ProgramFails, TimerSetFails, FdSettime
    <3>2. QED
      BY <3>1 DEF FdTypeOK, HostTypeOK, FdHostInv, SleepCoversDeadline, DeadInv, FdCountInv,
         FdCounted, Flag, CallbackDue, CallbackIsCurrent
  <2>3. ASSUME Program(at), fdInterval' = i, next' = at, expirations' = 0, expired' = FALSE,
               first' = at, reads' = 0
        PROVE  FdInv'
    <3>1. /\ HostTypeOK' /\ FdHostInv' /\ ~CallbackDue'
          /\ active' => at # 0 /\ at <= end'
      BY <1>4, <2>1, <2>3, Programmed DEF FdSettime
    <3>2. FdTypeOK'
      BY <1>4, <2>1, <2>3, <3>1 DEF FdSettime, FdTypeOK
    <3>3. FdCounted' = 0 /\ Flag' = 0
      BY <2>3 DEF FdCounted, Flag
    <3>4. FdCountInv'
      BY <2>1, <2>3, <3>1, <3>3 DEF FdCountInv
    <3>5. QED
      BY <3>1, <3>2, <3>4
  <2>4. QED
    BY <1>4, <2>2, <2>3 DEF FdSettime, at
<1>5. CASE Read
  <2>1. CASE Refresh
    <3>1. /\ reads' = reads + expirations + Periods - 1 /\ expirations' = 0 /\ LockFree
          /\ UNCHANGED <<open, first>>
      BY <1>5, <2>1 DEF Read, Refresh
    <3>2. expirations # 0 /\ Periods \in Nat
      BY <1>0, <1>5, <2>1, PeriodsType DEF Read, Refresh, NeedsRefresh
    <3>3. reads' \in Nat /\ FdCounted' = FdCounted + Periods - 1
      BY <1>0, <3>1, <3>2 DEF FdCounted
    <3>4. QED
      BY <2>1, <3>1, <3>3, Refreshed DEF FdTypeOK
  <2>2. CASE ~Refresh
    <3>1. /\ ~NeedsRefresh /\ reads' = reads + expirations /\ expirations' = 0
          /\ expired' = (expired /\ fdInterval # 0)
          /\ UNCHANGED <<timerVars, next, fdInterval, open, first>>
      BY <1>5, <2>2 DEF Read
    <3>2. expired' = FALSE
      BY <3>1 DEF NeedsRefresh
    <3>3. FdCounted' = FdCounted /\ Flag' = 0 /\ reads' \in Nat
      BY <1>0, <3>1, <3>2 DEF FdCounted, Flag
    <3>4. CallbackDue' <=> CallbackDue
      BY <3>1 DEF CallbackDue, CallbackIsCurrent
    <3>5. FdTypeOK' /\ FdHostInv'
      BY <3>1, <3>2, <3>3 DEF FdTypeOK, HostTypeOK, FdHostInv, SleepCoversDeadline, DeadInv
    <3>6. CASE expired
      <4>1. fdInterval = 0
        BY <3>1, <3>6 DEF NeedsRefresh
      <4>2. FdCounted = 1 /\ first # 0 /\ ~active /\ ~CallbackDue /\ next = first
        BY <1>0, <3>6, <4>1 DEF FdCountInv, Flag
      <4>3. FdCountInv'
        BY <1>0, <3>1, <3>2, <3>3, <3>4, <4>1, <4>2 DEF FdCountInv
      <4>4. QED
        BY <3>5, <4>3
    <3>7. CASE ~expired
      <4>1. Flag = 0
        BY <3>7 DEF Flag
      <4>2. FdCountInv'
        BY <1>0, <3>1, <3>2, <3>3, <3>4, <4>1 DEF FdCountInv
      <4>3. QED
        BY <3>5, <4>2
    <3>8. QED
      BY <3>6, <3>7
  <2>3. QED
    BY <2>1, <2>2
<1>6. CASE Gettime
  <2>1. /\ LockFree /\ Refresh /\ expirations' = expirations + Periods - 1
        /\ UNCHANGED <<open, first, reads>>
    BY <1>6 DEF Gettime
  <2>2. Periods \in Nat /\ Periods # 0
    BY <1>0, <2>1, PeriodsType DEF Refresh, NeedsRefresh
  <2>3. expirations' \in Nat /\ FdCounted' = FdCounted + Periods - 1
    BY <1>0, <2>1, <2>2 DEF FdCounted
  <2>4. QED
    BY <1>0, <2>1, <2>3, Refreshed DEF FdTypeOK
<1>7. CASE RefreshFails \/ UNCHANGED <<timerVars, tfdVars>>
  <2>1. UNCHANGED <<timerVars, tfdVars>>
    BY <1>7 DEF RefreshFails, ProgramFails, TimerSetFails
  <2>2. QED
    BY <2>1 DEF FdTypeOK, HostTypeOK, FdHostInv, SleepCoversDeadline, DeadInv, FdCountInv,
       FdCounted, Flag, CallbackDue, CallbackIsCurrent
<1>8. CASE Close
  <2>1. /\ active' = FALSE /\ dead' = TRUE /\ thread' = Notified /\ ~dead /\ open' = FALSE
        /\ UNCHANGED <<now, end, interval, gen, cbGen, wake, freed>>
        /\ UNCHANGED <<fdVars, first, reads>>
    BY <1>8 DEF Close, TimerFreeBegin
  <2>2. FdTypeOK' /\ FdHostInv'
    BY <1>h, <2>1 DEF FdTypeOK, HostTypeOK, ThreadStates, Notified, FdHostInv,
       SleepCoversDeadline, DeadInv
  <2>3. (CallbackDue' => CallbackDue) /\ ~active'
    BY <2>1 DEF CallbackDue, CallbackIsCurrent, Notified
  <2>4. FdCounted' = FdCounted /\ Flag' = Flag
    BY <2>1 DEF FdCounted, Flag
  <2>5. FdCountInv'
    BY <1>0, <2>1, <2>3, <2>4 DEF FdCountInv
  <2>6. QED
    BY <2>2, <2>5
<1>9. CASE CloseEnd
  <2>1. /\ freed' = TRUE /\ dead /\ thread = "none"
        /\ UNCHANGED <<now, end, interval, active, dead, gen, cbGen, thread, wake>>
        /\ UNCHANGED tfdVars
    BY <1>9 DEF CloseEnd, TimerFreeEnd, Running
  <2>2. FdTypeOK' /\ FdHostInv'
    BY <1>h, <2>1 DEF FdTypeOK, HostTypeOK, FdHostInv, SleepCoversDeadline, DeadInv
  <2>3. QED
    BY <1>0, <2>1, <2>2, FdSame DEF CallbackDue
<1>10. QED
  BY <1>1, <1>2, <1>3, <1>4, <1>5, <1>6, <1>7, <1>8, <1>9 DEF FdNext

\* A new timerfd satisfies the invariant.
LEMMA FdBegin == FdInit => FdInv
<1> SUFFICES ASSUME FdInit PROVE FdInv
  OBVIOUS
<1>1. FdTypeOK
  <2>1. /\ now \in 0..MaxTime /\ gen \in 0..MaxSets /\ cbGen \in 0..MaxSets /\ end \in Nat
        /\ interval \in Nat /\ wake \in Nat /\ next \in Nat /\ fdInterval \in Nat
        /\ first \in Nat /\ expirations \in Nat /\ reads \in Nat
    BY TimerAssumption, SMT DEF FdInit, HostInit
  <2>2. /\ active \in BOOLEAN /\ dead \in BOOLEAN /\ freed \in BOOLEAN /\ expired \in BOOLEAN
        /\ open \in BOOLEAN /\ thread \in ThreadStates /\ ~active
    BY Zenon DEF FdInit, HostInit, ThreadStates
  <2>3. QED
    BY <2>1, <2>2, Zenon DEF FdTypeOK, HostTypeOK
<1>2. FdHostInv /\ ~CallbackDue /\ ~active /\ ~expired /\ first = 0
  BY DEF FdInit, HostInit, FdHostInv, SleepCoversDeadline, DeadInv, CallbackDue
<1>3. FdCounted = 0
  BY DEF FdInit, FdCounted
<1>4. QED
  BY <1>1, <1>2, <1>3 DEF FdInv, FdCountInv

\* What the invariant says about the counts.
LEMMA FdCounts == FdInv => NoPeriodLost
<1> SUFFICES ASSUME FdInv PROVE NoPeriodLost
  OBVIOUS
<1>0. /\ now \in Nat /\ first \in Nat /\ next \in Nat /\ fdInterval \in Nat /\ FdCounted \in Nat
      /\ FdCountInv
  BY TimerAssumption DEF FdInv, FdTypeOK, HostTypeOK, FdCounted
<1>1. FdCounted <= DueBy(now)
  <2>1. CASE FdCounted = 0
    <3>1. DueBy(now) \in Nat
      <4>1. CASE first = 0 \/ now < first \/ fdInterval = 0
        BY <4>1 DEF DueBy
      <4>2. CASE ~(first = 0 \/ now < first \/ fdInterval = 0)
        <5>1. now - first \in Nat /\ fdInterval \in Nat \ {0}
          BY <1>0, <4>2
        <5>2. (now - first) \div fdInterval \in Nat
          BY <5>1, DivFits
        <5>3. QED
          BY <4>2, <5>2 DEF DueBy
      <4>3. QED
        BY <4>1, <4>2
    <3>2. QED
      BY <2>1, <3>1
  <2>2. CASE FdCounted # 0
    <3>1. first # 0 /\ now >= first + (FdCounted - 1) * fdInterval
      BY <1>0, <2>2 DEF FdCountInv
    <3>2. (FdCounted - 1) * fdInterval \in Nat
      BY <1>0, <2>2
    <3>3. now - first \in Nat /\ (FdCounted - 1) * fdInterval <= now - first
      BY <1>0, <3>1, <3>2
    <3>4. CASE fdInterval = 0
      <4>1. FdCounted = 1
        BY <1>0, <2>2, <3>4 DEF FdCountInv
      <4>2. QED
        BY <1>0, <3>1, <3>3, <3>4, <4>1 DEF DueBy
    <3>5. CASE fdInterval # 0
      <4>1. FdCounted - 1 <= (now - first) \div fdInterval
        BY <1>0, <2>2, <3>3, <3>5, PeriodsFit
      <4>2. (now - first) \div fdInterval \in Nat
        BY <1>0, <3>3, <3>5, DivFits
      <4>3. DueBy(now) = (now - first) \div fdInterval + 1
        BY <1>0, <3>1, <3>3, <3>5 DEF DueBy
      <4>4. QED
        BY <1>0, <4>1, <4>2, <4>3
    <3>6. QED
      BY <3>4, <3>5
  <2>3. QED
    BY <2>1, <2>2
<1>2. ASSUME first # 0, fdInterval # 0
      PROVE  /\ (next - first) % fdInterval = 0
             /\ FdCounted = (next - first) \div fdInterval + Flag
  <2> DEFINE k == FdCounted - Flag
  <2>1. k \in Nat /\ Flag \in Nat /\ FdCounted = k + Flag
    BY <1>0 DEF FdCountInv, Flag
  <2>2. next = first + k * fdInterval
    BY <1>0, <1>2 DEF FdCountInv
  <2> HIDE DEF k
  <2>3. next - first = k * fdInterval
    BY <1>0, <2>1, <2>2
  <2>4. (k * fdInterval) % fdInterval = 0 /\ (k * fdInterval) \div fdInterval = k
    BY <1>0, <1>2, <2>1, Whole
  <2>5. QED
    BY <2>1, <2>3, <2>4
<1>3. QED
  BY <1>1, <1>2 DEF NoPeriodLost, FdCounted, Flag

\* No period of a timerfd is lost, counted twice or counted early, for every clock bound,
\* interval and number of settings.
THEOREM NoPeriodLostHolds == FdSpec => []NoPeriodLost
<1>1. FdInit => FdInv
  BY FdBegin
<1>2. FdInv /\ [FdNext]_<<timerVars, tfdVars>> => FdInv'
  BY FdStep
<1>3. FdInv => NoPeriodLost
  BY FdCounts
<1>4. QED
  BY <1>1, <1>2, <1>3, PTL DEF FdSpec

----------------------------------------------------------------------------
(* The composition *)

\* The invariant of whichever client owns the timer.
TimersInv ==
    \/ owner = "posix" /\ PosixTimerInv /\ CountInv /\ NoTimerFd
    \/ owner = "timerfd" /\ FdInv /\ NoPosixTimer

\* A host timer serves either client as each was proved to be served alone: in the
\* specification that the model checker runs, a timer is never freed in use, no signal is
\* early or double, the last successful setting is in force, and no period of a timerfd
\* is lost.
THEOREM TimersSafe ==
    TimersSpec => [](NoUseAfterFree /\ NotMoreThanDue /\ SettingInForce /\ NoPeriodLost)
<1>1. TimersInit => TimersInv
  <2>1. Init => PosixTimerInv /\ CountInv
    BY InvInit, CountInit
  <2>2. QED
    BY <2>1, FdBegin DEF TimersInit, TimersInv
<1>2. TimersInv /\ [TimersNext]_timersVars => TimersInv'
  <2> SUFFICES ASSUME TimersInv, [TimersNext]_timersVars PROVE TimersInv'
    OBVIOUS
  <2>1. CASE owner = "posix" /\ PosixTimerInv /\ CountInv /\ NoTimerFd
    <3>1. [Next]_vars /\ UNCHANGED <<tfdVars, owner>>
      BY <2>1 DEF TimersNext, OfPosix, OfTimerFd, timersVars
    <3>2. PosixTimerInv' /\ CountInv'
      BY <2>1, <3>1, TypeStep, InvStep, CountStep DEF PosixTimerInv
    <3>3. NoTimerFd'
      BY <2>1, <3>1 DEF NoTimerFd
    <3>4. QED
      BY <2>1, <3>1, <3>2, <3>3 DEF TimersInv
  <2>2. CASE owner = "timerfd" /\ FdInv /\ NoPosixTimer
    <3>1. [FdNext]_<<timerVars, tfdVars>> /\ UNCHANGED <<posixVars, owner>>
      BY <2>2 DEF TimersNext, OfPosix, OfTimerFd, timersVars, vars, posixVars
    <3>2. FdInv'
      BY <2>2, <3>1, FdStep
    <3>3. NoPosixTimer'
      BY <2>2, <3>1 DEF NoPosixTimer, posixVars
    <3>4. QED
      BY <2>2, <3>1, <3>2, <3>3 DEF TimersInv
  <2>3. QED
    BY <2>1, <2>2 DEF TimersInv
<1>3. TimersInv => NoUseAfterFree /\ NotMoreThanDue /\ SettingInForce /\ NoPeriodLost
  <2>1. ASSUME PosixTimerInv, CountInv, NoTimerFd
        PROVE  NoUseAfterFree /\ NotMoreThanDue /\ SettingInForce /\ NoPeriodLost
    <3>1. NoUseAfterFree
      BY <2>1 DEF PosixTimerInv, DeadInv, NoUseAfterFree
    <3>2. NoPeriodLost
      BY <2>1 DEF NoPeriodLost, NoTimerFd, DueBy
    <3>3. SettingInForce
      BY <2>1 DEF CountInv
    <3>4. QED
      BY <2>1, <3>1, <3>2, <3>3, CountBounds
  <2>2. ASSUME FdInv, NoPosixTimer
        PROVE  NoUseAfterFree /\ NotMoreThanDue /\ SettingInForce /\ NoPeriodLost
    <3>1. NoUseAfterFree
      BY <2>2 DEF FdInv, FdHostInv, DeadInv, NoUseAfterFree
    <3>2. NotMoreThanDue
      BY <2>2 DEF NotMoreThanDue, NoPosixTimer, Due
    <3>3. SettingInForce
      BY <2>2 DEF SettingInForce, NoPosixTimer
    <3>4. QED
      BY <2>2, <3>1, <3>2, <3>3, FdCounts
  <2>3. QED
    BY <2>1, <2>2 DEF TimersInv
<1>4. QED
  BY <1>1, <1>2, <1>3, PTL DEF TimersSpec
=============================================================================
