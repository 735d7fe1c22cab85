--------------------------- MODULE ThreadSignals ---------------------------
(***************************************************************************)
(* Signals of a multithreaded process (kernel/signal.c and                 *)
(* kernel/signal-delivery.c): private and shared pending sets, the choice  *)
(* of the thread to wake, the mask changes that hand a shared signal over  *)
(* to another thread, job control stop and continue, thread exit.          *)
(*                                                                         *)
(* Each critical section under the shared sighand lock is one action.  A   *)
(* mask change releases that lock before signal_retarget_shared_pending    *)
(* takes pids_lock and the sighand lock again, so it is two.  A wakeup is  *)
(* one step: module WaitFor is about how it is brought about.              *)
(*                                                                         *)
(* Every signal here has a handler that runs with the signal blocked, or   *)
(* is a stop signal with the default action.  Fatal and ignored signals    *)
(* are not generated, no thread is traced or in sigtimedwait, and no exec  *)
(* is under way (exec_task is NULL).                                       *)
(***************************************************************************)
EXTENDS Integers, FiniteSets

CONSTANTS Threads,  \* threads of the group
          Leader,   \* group->leader
          Outside,  \* a task of another process
          Sigs, StopSigs, ContSigs

ASSUME ThreadSignalsAssumption ==
    /\ Leader \in Threads
    /\ Outside \notin Threads
    /\ StopSigs \subseteq Sigs
    /\ ContSigs \subseteq Sigs
    /\ StopSigs \cap ContSigs = {}

VARIABLES pending,   \* task->pending of each thread
          shared,    \* group->shared_pending
          blocked,   \* task->blocked
          hasSaved,  \* task->has_saved_mask: sigsuspend, until the next delivery
          saved,     \* task->saved_mask
          state,     \* what each thread does
          newly,     \* newly_blocked of a mask change still to be retargeted
          stopped,   \* group->stopped
          continued  \* group->continued

vars == <<pending, shared, blocked, hasSaved, saved, state, newly, stopped,
          continued>>

savedVars == <<hasSaved, saved>>

\* run: executing or polling; retarget, retarget_stop: between the two halves
\* of a mask change (then stop); asleep: in wait_for; stopped: waiting on
\* stopped_cond; dead: exiting.
States == {"run", "retarget", "retarget_stop", "asleep", "stopped", "dead"}

Init ==
    /\ pending = [t \in Threads |-> {}]
    /\ shared = {}
    /\ blocked \in [Threads -> SUBSET Sigs]
    /\ hasSaved = [t \in Threads |-> FALSE]
    /\ saved = [t \in Threads |-> {}]
    /\ state = [t \in Threads |-> "run"]
    /\ newly = [t \in Threads |-> {}]
    /\ stopped = FALSE
    /\ continued = FALSE

Live(t) == state[t] # "dead"

----------------------------------------------------------------------------
(* Who is woken *)

\* task_wants_signal_locked, evaluated by task cur with the pending sets pend
\* and the stop flag stop.
Wants(t, sig, cur, pend, stop) ==
    /\ Live(t)
    /\ sig \notin blocked[t]
    /\ ~stop
    /\ t = cur \/ pend[t] \ blocked[t] = {}

\* select_process_signal_receiver_locked: the suggested thread, then the
\* leader, then any thread that wants the signal.
Receivers(sug, sig, cur, pend, stop) ==
    LET W(t) == Wants(t, sig, cur, pend, stop) IN
    IF W(sug) THEN {sug}
    ELSE IF W(Leader) THEN {Leader}
    ELSE {t \in Threads : W(t)}

\* wake_signal_task_unlocked for every thread of ts.
Woken(ts) == [t \in Threads |->
                 IF t \in ts /\ state[t] = "asleep" THEN "run" ELSE state[t]]

----------------------------------------------------------------------------
(* Threads *)

\* signal_pending_mask_locked & ~blocked
Deliverable(t) == (pending[t] \cup shared) \ blocked[t]

\* Wrong variant: wait_for does not look for signals first.
SleepUnchecked(t) ==
    /\ state[t] = "run"
    /\ state' = [state EXCEPT ![t] = "asleep"]
    /\ UNCHANGED <<pending, shared, blocked, savedVars, newly, stopped, continued>>

\* A system call sleeps in wait_for, which first checks for signals.
Sleep(t) ==
    /\ state[t] = "run"
    /\ Deliverable(t) = {}
    /\ state' = [state EXCEPT ![t] = "asleep"]
    /\ UNCHANGED <<pending, shared, blocked, savedVars, newly, stopped, continued>>

\* The awaited event happens.
Awake(t) ==
    /\ state[t] = "asleep"
    /\ ~hasSaved[t]
    /\ state' = [state EXCEPT ![t] = "run"]
    /\ UNCHANGED <<pending, shared, blocked, savedVars, newly, stopped, continued>>

\* The temporary mask is over.
ForgetSaved(t) ==
    /\ hasSaved' = [hasSaved EXCEPT ![t] = FALSE]
    /\ saved' = [saved EXCEPT ![t] = {}]

\* Replace the mask; what became blocked is left for the retarget step.
SetMask(t, mask) ==
    /\ blocked' = [blocked EXCEPT ![t] = mask]
    /\ newly' = [newly EXCEPT ![t] = mask \ blocked[t]]

\* task_sigprocmask
Sigprocmask(t, mask) ==
    /\ state[t] = "run" /\ ~hasSaved[t]
    /\ SetMask(t, mask)
    /\ state' = [state EXCEPT ![t] = "retarget"]
    /\ UNCHANGED <<pending, shared, savedVars, stopped, continued>>

\* task_sigsuspend: a temporary mask; the wait that follows ends with a signal.
Sigsuspend(t, mask) ==
    /\ state[t] = "run" /\ ~hasSaved[t]
    /\ hasSaved' = [hasSaved EXCEPT ![t] = TRUE]
    /\ saved' = [saved EXCEPT ![t] = blocked[t]]
    /\ SetMask(t, mask)
    /\ state' = [state EXCEPT ![t] = "retarget"]
    /\ UNCHANGED <<pending, shared, stopped, continued>>

\* signal_retarget_shared_pending: for each shared signal that became blocked,
\* wake a thread that wants it.
Retarget(t) ==
    /\ state[t] \in {"retarget", "retarget_stop"}
    /\ \E wake \in [shared \cap newly[t] -> SUBSET Threads] :
          /\ \A sig \in DOMAIN wake :
                LET rs == Receivers(t, sig, t, pending, stopped) IN
                IF rs = {} THEN wake[sig] = {} ELSE \E r \in rs : wake[sig] = {r}
          /\ state' = [Woken(UNION {wake[sig] : sig \in DOMAIN wake}) EXCEPT
                          ![t] = IF @ = "retarget" THEN "run" ELSE "stopped"]
    /\ newly' = [newly EXCEPT ![t] = {}]
    /\ UNCHANGED <<pending, shared, blocked, savedVars, stopped, continued>>

\* signal_prepare_delivery_locked: the mask in force after the delivery.
Restored(t) == IF hasSaved[t] THEN saved[t] ELSE blocked[t]

\* task_poll_one_signal finds nothing to deliver.
PollIdle(t) ==
    /\ state[t] = "run"
    /\ hasSaved[t]
    /\ Deliverable(t) = {}
    /\ SetMask(t, Restored(t))
    /\ ForgetSaved(t)
    /\ state' = [state EXCEPT ![t] = "retarget"]
    /\ UNCHANGED <<pending, shared, stopped, continued>>

\* task_poll_one_signal takes one signal, private ones first, and runs the
\* handler, or stops the group.
PollTake(t, sig) ==
    /\ state[t] = "run"
    /\ \/ /\ sig \in pending[t] \ blocked[t]
          /\ pending' = [pending EXCEPT ![t] = @ \ {sig}]
          /\ UNCHANGED shared
       \/ /\ pending[t] \ blocked[t] = {}
          /\ sig \in shared \ blocked[t]
          /\ shared' = shared \ {sig}
          /\ UNCHANGED pending
    /\ ForgetSaved(t)
    /\ IF sig \in StopSigs
       THEN /\ stopped' = TRUE
            /\ continued' = FALSE
            /\ SetMask(t, Restored(t))
            /\ state' = [state EXCEPT ![t] = "retarget_stop"]
       ELSE /\ UNCHANGED <<stopped, continued>>
            /\ SetMask(t, Restored(t) \cup {sig})
            /\ state' = [state EXCEPT ![t] = "retarget"]

\* A thread on its way back to the guest waits while the group is stopped, and
\* leaves when it is not (handle_interrupt, wait_until_continued).
EnterStop(t) ==
    /\ state[t] = "run" /\ stopped
    /\ state' = [state EXCEPT ![t] = "stopped"]
    /\ UNCHANGED <<pending, shared, blocked, savedVars, newly, stopped, continued>>

LeaveStop(t) ==
    /\ state[t] = "stopped" /\ ~stopped
    /\ state' = [state EXCEPT ![t] = "run"]
    /\ UNCHANGED <<pending, shared, blocked, savedVars, newly, stopped, continued>>

\* Wrong variant: an exiting thread keeps the shared signals it was chosen for.
ExitSilently(t) ==
    /\ state[t] = "run"
    /\ state' = [state EXCEPT ![t] = "dead"]
    /\ pending' = [pending EXCEPT ![t] = {}]
    /\ ForgetSaved(t)
    /\ UNCHANGED <<shared, blocked, newly, stopped, continued>>

\* do_exit: not eligible any more, the thread offers the shared signals it did
\* not block to the others.
Exit(t) ==
    LET others(sig) == {r \in Threads \ {t} : Wants(r, sig, t, pending, stopped)}
        pick(sig) == IF Leader \in others(sig) THEN {Leader} ELSE others(sig)
    IN
    /\ state[t] = "run"
    /\ \E wake \in [shared \ blocked[t] -> SUBSET Threads] :
          /\ \A sig \in DOMAIN wake :
                IF pick(sig) = {} THEN wake[sig] = {}
                                  ELSE \E r \in pick(sig) : wake[sig] = {r}
          /\ state' = [Woken(UNION {wake[sig] : sig \in DOMAIN wake}) EXCEPT
                          ![t] = "dead"]
    /\ pending' = [pending EXCEPT ![t] = {}]
    /\ ForgetSaved(t)
    /\ UNCHANGED <<shared, blocked, newly, stopped, continued>>

----------------------------------------------------------------------------
(* Senders *)

\* prepare_job_control_signal_locked
Discards(sig) == IF sig \in StopSigs THEN ContSigs
                 ELSE IF sig \in ContSigs THEN StopSigs ELSE {}

\* Wrong variant: only the shared queue is purged.
PurgedSharedOnly(sig) == pending

\* discard_group_signal_locked over the threads of the group.
Purged(sig) == [t \in Threads |-> pending[t] \ Discards(sig)]

\* resume_group_for_signal
Resume(sig) ==
    IF sig \in ContSigs
    THEN stopped' = FALSE /\ continued' = (continued \/ stopped)
    ELSE UNCHANGED <<stopped, continued>>

CanSend(cur) == IF cur = Outside THEN TRUE ELSE state[cur] = "run"

\* send_signal_locked: a signal for one thread, from task cur.
SendThread(cur, t, sig) ==
    LET pend == Purged(sig)
        stop == stopped /\ sig \notin ContSigs
    IN
    /\ CanSend(cur) /\ Live(t)
    /\ Resume(sig)
    /\ shared' = shared \ Discards(sig)
    /\ pending' = [pend EXCEPT ![t] = @ \cup {sig}]
    /\ state' = IF sig \notin pend[t] /\ Wants(t, sig, cur, pend, stop)
                THEN Woken({t}) ELSE state
    /\ UNCHANGED <<blocked, savedVars, newly>>

\* send_process_signal_locked: a signal for the process.
SendProcess(cur, sug, sig) ==
    LET pend == Purged(sig)
        shr  == shared \ Discards(sig)
        stop == stopped /\ sig \notin ContSigs
        rs   == Receivers(sug, sig, cur, pend, stop)
    IN
    /\ CanSend(cur) /\ \E t \in Threads : Live(t)
    /\ Resume(sig)
    /\ pending' = pend
    /\ shared' = shr \cup {sig}
    /\ IF sig \in shr \/ rs = {} THEN UNCHANGED state
                                 ELSE \E r \in rs : state' = Woken({r})
    /\ UNCHANGED <<blocked, savedVars, newly>>

----------------------------------------------------------------------------

ThreadStep(t) ==
    \/ Sleep(t) \/ Awake(t)
    \/ \E mask \in SUBSET Sigs : Sigprocmask(t, mask) \/ Sigsuspend(t, mask)
    \/ Retarget(t)
    \/ PollIdle(t)
    \/ \E sig \in Sigs : PollTake(t, sig)
    \/ EnterStop(t) \/ LeaveStop(t)
    \/ Exit(t)

Next ==
    \/ \E t \in Threads : ThreadStep(t)
    \/ \E cur \in Threads \cup {Outside}, t \in Threads, sig \in Sigs :
          SendThread(cur, t, sig) \/ SendProcess(cur, t, sig)

Spec == Init /\ [][Next]_vars

----------------------------------------------------------------------------
(* Properties *)

\* The comment in wait_for_common: whichever of queueing and publishing the
\* condition comes first, no wakeup is lost.  A thread never sleeps on a private
\* signal it does not block.
NoWakeupLost ==
    \A t \in Threads : state[t] = "asleep" => pending[t] \ blocked[t] = {}

\* The first stop sets stopped, and SIGCONT turns stopped into continued.
NeverStopped == ~stopped /\ ~continued

\* In a group that has never been stopped a thread never sleeps on a private
\* signal it does not block: the wakeup sent with the signal is the only one it
\* will get (wake_signal_task_unlocked).
NoLostPrivateSignal == NeverStopped => NoWakeupLost

\* A shared signal that some thread would take has a thread that will: one that
\* is awake and does not block it, or one about to hand it over.  The choice of
\* the receiver is made once, when the signal is sent; mask changes, handlers,
\* sigsuspend and thread exits may all invalidate it
\* (signal_retarget_shared_pending).  Again for a group never stopped.
SharedSignalHasTaker ==
    NeverStopped =>
    \A sig \in shared :
       (\E t \in Threads : Live(t) /\ sig \notin blocked[t])
          => \E t \in Threads :
                \/ state[t] \notin {"asleep", "dead"} /\ sig \notin blocked[t]
                \/ sig \in newly[t]

\* SIGCONT and stop signals cancel each other when they are generated, in every
\* queue of the group, and a group that is reported continued is not stopped.
JobControlExclusive ==
    LET all == shared \cup UNION {pending[t] : t \in Threads} IN
    /\ all \cap StopSigs = {} \/ all \cap ContSigs = {}
    /\ ~(stopped /\ continued)
=============================================================================
