------------------------------ MODULE WaitFor ------------------------------
(***************************************************************************)
(* Interruptible condition waits: wait_for_common of util/sync.c against   *)
(* the signal sender of kernel/signal.c (send_signal_locked and            *)
(* wake_signal_task_unlocked).                                             *)
(*                                                                         *)
(* One guest task, the Waiter, sleeps on condition variables, each         *)
(* protected by a lock of its own.  Other host threads, the Peers, send it *)
(* signals or notify a condition.  Every mutex is explicit:                *)
(*   "pids"     pids_lock, held by a sender from selection to return;      *)
(*   "sighand"  the task's sighand->lock (pending, blocked, waiting);      *)
(*   "reg"      the task's waiting_cond_lock (the published condition);    *)
(*   "wait"     any other lock passed to wait_for (futex_lock, tty->lock). *)
(* The code calls wait_for with pids_lock (do_wait), with the sighand lock *)
(* (sigsuspend, pause, sigtimedwait) and with other locks; one task makes  *)
(* all these calls, so a sender that backs off may find it asleep with     *)
(* another lock than before.                                               *)
(*                                                                         *)
(* The thread group is not stopped here: the effect of group->stopped on   *)
(* task_wants_signal_locked is the subject of module ThreadSignals.        *)
(***************************************************************************)
EXTENDS FiniteSets

CONSTANTS Waiter,      \* the task that sleeps
          Peers,       \* host threads of other tasks
          None,        \* no owner
          Sigs,        \* signal numbers
          Unblockable, \* SIGKILL, SIGSTOP
          StopSigs,    \* JOB_CONTROL_STOP_MASK
          ContSigs,    \* SIGCONT
          Ignored      \* signals whose disposition is "ignore"

WaitLocks == {"pids", "sighand", "wait"}  \* locks given to wait_for
Locks     == WaitLocks \cup {"reg"}

ASSUME WaitForAssumption ==
    /\ Waiter \notin Peers
    /\ None \notin Peers \cup {Waiter}
    /\ Unblockable \subseteq Sigs
    /\ StopSigs \subseteq Sigs
    /\ ContSigs \subseteq Sigs
    /\ Ignored \subseteq Sigs

VARIABLES owner,      \* holder of each mutex
          registered, \* waiting_cond # NULL
          waitLock,   \* lock of the running or the last wait; waiting_lock
                      \* when registered
          pending,    \* signal_pending_mask of the Waiter
          blocked,    \* current->blocked
          waiting,    \* current->waiting, the set of a running sigtimedwait
          wpc,        \* where the Waiter is
          kind,       \* which entry point it called
          timed,      \* whether a timeout was passed
          rc,         \* result of the running or the last wait
          ready,      \* the predicate the caller of wait_for waits for
          ppc         \* where each Peer is

vars == <<owner, registered, waitLock, pending, blocked, waiting, wpc, kind,
          timed, rc, ready, ppc>>

callVars == <<waitLock, kind, timed>>  \* what the sleeping call was given

Kinds   == {"wait_for", "ignore_signals", "sigtimedwait"}
Results == {"0", "EINTR", "ETIMEDOUT"}
WaiterStates == {"run", "register", "check", "sleep", "asleep", "reacquire",
                 "unregister", "recheck", "return"}
PeerStates == {"idle", "send", "wake", "hold", "notify", "relock", "event"}

TypeOK ==
    /\ owner \in [Locks -> Peers \cup {Waiter, None}]
    /\ registered \in BOOLEAN
    /\ waitLock \in WaitLocks
    /\ pending \subseteq Sigs
    /\ blocked \subseteq Sigs \ Unblockable
    /\ waiting \subseteq Sigs \ Unblockable
    /\ wpc \in WaiterStates
    /\ kind \in Kinds
    /\ timed \in BOOLEAN
    /\ rc \in Results
    /\ ready \in BOOLEAN
    /\ ppc \in [Peers -> PeerStates]

Init ==
    /\ owner = [l \in Locks |-> None]
    /\ registered = FALSE
    /\ waitLock = "wait"
    /\ pending = {}
    /\ blocked = {}
    /\ waiting = {}
    /\ wpc = "run"
    /\ kind = "wait_for"
    /\ timed = FALSE
    /\ rc = "0"
    /\ ready = FALSE
    /\ ppc = [p \in Peers |-> "idle"]

Free(l)       == owner[l] = None
Acquire(l, t) == owner' = [owner EXCEPT ![l] = t]
Release(ls)   == owner' = [l \in Locks |-> IF l \in ls THEN None ELSE owner[l]]

\* The sighand lock is free for the Waiter, or is the lock it already holds.
SighandUsable == waitLock = "sighand" \/ Free("sighand")

SignalPending == pending \ blocked # {}   \* is_signal_pending
EffectiveBlocked == blocked \ waiting     \* blocked & ~waiting

----------------------------------------------------------------------------
(* The Waiter outside a wait. *)

\* task_sigprocmask: replace the mask, never including SIGKILL or SIGSTOP.
Sigprocmask ==
    /\ wpc = "run"
    /\ Free("sighand")
    /\ blocked' \in SUBSET (Sigs \ Unblockable)
    /\ UNCHANGED <<owner, registered, pending, waiting, wpc, callVars, rc,
                   ready, ppc>>

\* receive_signals: take every unblocked pending signal.
ReceiveSignals ==
    /\ wpc = "run"
    /\ Free("sighand")
    /\ SignalPending
    /\ pending' = pending \cap blocked
    /\ UNCHANGED <<owner, registered, blocked, waiting, wpc, callVars, rc,
                   ready, ppc>>

\* A caller takes lock l, finds its predicate false and calls wait_for or
\* wait_for_ignore_signals with that lock held.
CallWait(k, t, l) ==
    /\ wpc = "run"
    /\ Free(l)
    /\ Acquire(l, Waiter)
    /\ waitLock' = l
    /\ ready' = FALSE
    /\ kind' = k
    /\ timed' = t
    /\ wpc' = "register"
    /\ UNCHANGED <<registered, pending, blocked, waiting, rc, ppc>>

\* sys_rt_sigtimedwait up to its first wait: a pending signal of the set is
\* taken at once, another deliverable one gives EINTR, otherwise sleep.
CallSigtimedwait(set, t) ==
    /\ wpc = "run"
    /\ Free("sighand")
    /\ \/ /\ \E s \in pending \cap set : pending' = pending \ {s}
          /\ UNCHANGED <<owner, waiting, callVars, wpc, ready>>
       \/ /\ pending \cap set = {}
          /\ pending \ (blocked \cup set) = {}
          /\ Acquire("sighand", Waiter)
          /\ waitLock' = "sighand"
          /\ waiting' = set
          /\ kind' = "sigtimedwait"
          /\ timed' = t
          /\ ready' = FALSE
          /\ wpc' = "register"
          /\ UNCHANGED pending
    /\ UNCHANGED <<registered, blocked, rc, ppc>>

----------------------------------------------------------------------------
(* wait_for_common, one action per lock it takes. *)

\* lock(waiting_cond_lock) and publish the condition and its lock.
Register ==
    /\ wpc = "register"
    /\ Free("reg")
    /\ Acquire("reg", Waiter)
    /\ registered' = TRUE
    /\ wpc' = "check"
    /\ UNCHANGED <<pending, blocked, waiting, callVars, rc, ready, ppc>>

\* Wrong variant: the early return leaves waiting_cond published.
RecheckLeavesRegistration ==
    /\ wpc = "check"
    /\ kind = "wait_for"
    /\ SighandUsable
    /\ SignalPending
    /\ Release({"reg"})
    /\ rc' = "EINTR"
    /\ wpc' = "return"
    /\ UNCHANGED <<registered, pending, blocked, waiting, callVars, ready, ppc>>

\* The recheck of pending with waiting_cond_lock still held.
RecheckFindsSignal ==
    /\ wpc = "check"
    /\ kind = "wait_for"
    /\ SighandUsable
    /\ SignalPending
    /\ registered' = FALSE
    /\ Release({"reg"})
    /\ rc' = "EINTR"
    /\ wpc' = "return"
    /\ UNCHANGED <<pending, blocked, waiting, callVars, ready, ppc>>

\* Wrong variant: sleep without looking at pending again.
RecheckSkipped ==
    /\ wpc = "check"
    /\ Release({"reg"})
    /\ wpc' = "sleep"
    /\ UNCHANGED <<registered, pending, blocked, waiting, callVars, rc,
                   ready, ppc>>

RecheckFindsNothing ==
    /\ wpc = "check"
    /\ kind = "wait_for" => SighandUsable /\ ~SignalPending
    /\ Release({"reg"})
    /\ wpc' = "sleep"
    /\ UNCHANGED <<registered, pending, blocked, waiting, callVars, rc,
                   ready, ppc>>

\* pthread_cond_wait: release waitLock and sleep in one step.
Sleep ==
    /\ wpc = "sleep"
    /\ Release({waitLock})
    /\ wpc' = "asleep"
    /\ UNCHANGED <<registered, pending, blocked, waiting, callVars, rc,
                   ready, ppc>>

\* POSIX lets pthread_cond_wait return without a broadcast.
SpuriousWakeup ==
    /\ wpc = "asleep"
    /\ rc' = "0"
    /\ wpc' = "reacquire"
    /\ UNCHANGED <<owner, registered, pending, blocked, waiting, callVars,
                   ready, ppc>>

Timeout ==
    /\ wpc = "asleep"
    /\ timed
    /\ rc' = "ETIMEDOUT"
    /\ wpc' = "reacquire"
    /\ UNCHANGED <<owner, registered, pending, blocked, waiting, callVars,
                   ready, ppc>>

Reacquire ==
    /\ wpc = "reacquire"
    /\ Free(waitLock)
    /\ Acquire(waitLock, Waiter)
    /\ wpc' = "unregister"
    /\ UNCHANGED <<registered, pending, blocked, waiting, callVars, rc,
                   ready, ppc>>

Unregister ==
    /\ wpc = "unregister"
    /\ Free("reg")
    /\ registered' = FALSE
    /\ wpc' = "recheck"
    /\ UNCHANGED <<owner, pending, blocked, waiting, callVars, rc, ready,
                   ppc>>


Recheck ==
    /\ wpc = "recheck"
    /\ kind = "wait_for" /\ rc = "0" => SighandUsable
    /\ rc' = IF kind = "wait_for" /\ rc = "0" /\ SignalPending
             THEN "EINTR" ELSE rc
    /\ wpc' = "return"
    /\ UNCHANGED <<owner, registered, pending, blocked, waiting, callVars,
                   ready, ppc>>

----------------------------------------------------------------------------
(* Back in the caller of wait_for, waitLock held. *)

WaitAgain ==
    /\ kind # "sigtimedwait"
    /\ rc = "0"
    /\ ~ready
    /\ wpc' = "register"
    /\ UNCHANGED <<owner, pending, waiting>>

WaitDone ==
    /\ kind # "sigtimedwait"
    /\ rc # "0" \/ ready
    /\ Release({waitLock})
    /\ wpc' = "run"
    /\ UNCHANGED <<pending, waiting>>

\* The loop of sys_rt_sigtimedwait after wait_for_ignore_signals.
SigtimedwaitTakes ==
    /\ kind = "sigtimedwait"
    /\ \E s \in pending \cap waiting : pending' = pending \ {s}
    /\ waiting' = {}
    /\ Release({"sighand"})
    /\ wpc' = "run"

SigtimedwaitFails ==
    /\ kind = "sigtimedwait"
    /\ pending \cap waiting = {}
    /\ rc = "ETIMEDOUT" \/ pending \ (blocked \cup waiting) # {}
    /\ waiting' = {}
    /\ Release({"sighand"})
    /\ wpc' = "run"
    /\ UNCHANGED pending

SigtimedwaitAgain ==
    /\ kind = "sigtimedwait"
    /\ pending \cap waiting = {}
    /\ rc = "0"
    /\ pending \ (blocked \cup waiting) = {}
    /\ wpc' = "register"
    /\ UNCHANGED <<owner, pending, waiting>>

Return ==
    /\ wpc = "return"
    /\ \/ WaitAgain
       \/ WaitDone
       \/ SigtimedwaitTakes
       \/ SigtimedwaitFails
       \/ SigtimedwaitAgain
    /\ UNCHANGED <<registered, blocked, callVars, rc, ready, ppc>>

----------------------------------------------------------------------------
(* A Peer sends a signal: send_signal takes pids_lock and calls            *)
(* send_signal_locked.                                                     *)

SendBegin(p) ==
    /\ ppc[p] = "idle"
    /\ Free("pids")
    /\ Acquire("pids", p)
    /\ ppc' = [ppc EXCEPT ![p] = "send"]
    /\ UNCHANGED <<registered, pending, blocked, waiting, wpc, callVars, rc,
                   ready>>

\* prepare_job_control_signal_locked: a stop signal discards SIGCONT and
\* SIGCONT discards the stop signals, when they are generated.
Discards(sig) == IF sig \in StopSigs THEN ContSigs
                 ELSE IF sig \in ContSigs THEN StopSigs ELSE {}

\* task_wants_signal_locked for a live, unstopped task that is not the sender.
Wants(sig, pend) ==
    \/ sig \in Unblockable \ StopSigs
    \/ sig \notin EffectiveBlocked /\ pend \ EffectiveBlocked = {}

\* A new signal is queued and the task wants it: go on to wake it, without
\* the sighand lock.
EnqueueAndWake(p, sig) ==
    LET pend == pending \ Discards(sig) IN
    /\ sig \notin Ignored \/ sig \in blocked
    /\ sig \notin pend
    /\ Wants(sig, pend)
    /\ pending' = pend \cup {sig}
    /\ ppc' = [ppc EXCEPT ![p] = "wake"]
    /\ UNCHANGED owner

\* The signal is ignored, already pending, or not wanted now.
EnqueueOnly(p, sig) ==
    LET pend == pending \ Discards(sig)
        dropped == sig \in Ignored /\ sig \notin blocked
    IN
    /\ dropped \/ sig \in pend \/ ~Wants(sig, pend)
    /\ pending' = IF dropped THEN pend ELSE pend \cup {sig}
    /\ ppc' = [ppc EXCEPT ![p] = "idle"]
    /\ Release({"pids"})

Send(p, sig) ==
    /\ ppc[p] = "send"
    /\ Free("sighand")
    /\ EnqueueAndWake(p, sig) \/ EnqueueOnly(p, sig)
    /\ UNCHANGED <<registered, blocked, waiting, wpc, callVars, rc, ready>>

(* wake_signal_task_unlocked after it dropped the sighand lock. *)

WakeLock(p) ==
    /\ ppc[p] = "wake"
    /\ Free("reg")
    /\ Acquire("reg", p)
    /\ ppc' = [ppc EXCEPT ![p] = "hold"]
    /\ UNCHANGED <<registered, pending, blocked, waiting, wpc, callVars, rc,
                   ready>>

\* No condition is published: nothing to notify.
WakeNobody(p) ==
    /\ ~registered
    /\ Release({"reg"})
    /\ ppc' = [ppc EXCEPT ![p] = "relock"]

\* Wrong variant: the sender does not recognise its own lock.
NeverMine(p) == FALSE

\* lock_owned_by_current(waiting_lock): do_wait sleeps with pids_lock, which
\* the sender holds.
LockMine(p) == owner[waitLock] = p

\* trylock(waiting_lock) succeeds, or this thread already owns that lock.
WakeTrylock(p) ==
    /\ registered
    /\ Free(waitLock) \/ LockMine(p)
    /\ Acquire(waitLock, p)
    /\ ppc' = [ppc EXCEPT ![p] = "notify"]

\* EBUSY: release waiting_cond_lock and start again.
WakeRetry(p) ==
    /\ registered
    /\ ~Free(waitLock) /\ ~LockMine(p)
    /\ Release({"reg"})
    /\ ppc' = [ppc EXCEPT ![p] = "wake"]

Wake(p) ==
    /\ ppc[p] = "hold"
    /\ WakeNobody(p) \/ WakeTrylock(p) \/ WakeRetry(p)
    /\ UNCHANGED <<registered, pending, blocked, waiting, wpc, callVars, rc,
                   ready>>

\* pthread_cond_broadcast.
Broadcast ==
    IF wpc = "asleep" THEN wpc' = "reacquire" /\ rc' = "0"
                      ELSE UNCHANGED <<wpc, rc>>

\* notify, then unlock the wait lock unless it was the sender's own.
WakeNotify(p) ==
    /\ ppc[p] = "notify"
    /\ Broadcast
    /\ Release({"reg", waitLock} \ {"pids"})
    /\ ppc' = [ppc EXCEPT ![p] = "relock"]
    /\ UNCHANGED <<registered, pending, blocked, waiting, callVars, ready>>

\* Retake the sighand lock, then unwind through send_signal.
SendEnd(p) ==
    /\ ppc[p] = "relock"
    /\ Free("sighand")
    /\ Release({"pids"})
    /\ ppc' = [ppc EXCEPT ![p] = "idle"]
    /\ UNCHANGED <<registered, pending, blocked, waiting, wpc, callVars, rc,
                   ready>>

----------------------------------------------------------------------------
(* A Peer makes the awaited predicate true: the ordinary use of a          *)
(* condition (a futex wake, a child exit, terminal input).                 *)

EventBegin(p, l) ==
    /\ ppc[p] = "idle"
    /\ Free(l)
    /\ Acquire(l, p)
    /\ ppc' = [ppc EXCEPT ![p] = "event"]
    /\ UNCHANGED <<registered, pending, blocked, waiting, wpc, callVars, rc,
                   ready>>

\* The condition that is notified is the Waiter's if it goes with the lock that
\* the Peer holds.
EventNotify(p) ==
    /\ ppc[p] = "event"
    /\ IF owner[waitLock] = p THEN ready' = TRUE /\ Broadcast
                              ELSE UNCHANGED <<ready, wpc, rc>>
    /\ Release({l \in Locks : owner[l] = p})
    /\ ppc' = [ppc EXCEPT ![p] = "idle"]
    /\ UNCHANGED <<registered, pending, blocked, waiting, callVars>>

----------------------------------------------------------------------------

WaitStep ==
    \/ Register \/ RecheckFindsSignal \/ RecheckFindsNothing \/ Sleep
    \/ Reacquire \/ Unregister \/ Recheck \/ Return

Call ==
    \/ Sigprocmask
    \/ ReceiveSignals
    \/ \E k \in {"wait_for", "ignore_signals"}, t \in BOOLEAN, l \in WaitLocks :
          CallWait(k, t, l)
    \/ \E set \in SUBSET (Sigs \ Unblockable), t \in BOOLEAN :
          CallSigtimedwait(set, t)

SendStep(p) == WakeLock(p) \/ Wake(p) \/ WakeNotify(p) \/ SendEnd(p)

PeerStep(p) ==
    \/ SendBegin(p)
    \/ \E sig \in Sigs : Send(p, sig)
    \/ SendStep(p)
    \/ \E l \in WaitLocks : EventBegin(p, l)
    \/ EventNotify(p)

Next == Call \/ WaitStep \/ SpuriousWakeup \/ Timeout \/ \E p \in Peers : PeerStep(p)

Spec == Init /\ [][Next]_vars

(***************************************************************************)
(* Fairness: every host thread keeps running (weak fairness of the steps   *)
(* that need no lock), and a thread blocked in pthread_mutex_lock gets the *)
(* mutex if it is released again and again (strong fairness).  Nothing is  *)
(* assumed of timeouts, spurious wakeups, new calls or new signals.        *)
(***************************************************************************)
LockingStep ==
    \/ Register \/ RecheckFindsSignal \/ RecheckFindsNothing
    \/ Reacquire \/ Unregister \/ Recheck

LockingSend(p) ==
    WakeLock(p) \/ SendEnd(p) \/ \E sig \in Sigs : Send(p, sig)

Fairness ==
    /\ SF_vars(LockingStep)
    /\ WF_vars(Sleep \/ Return)
    /\ \A p \in Peers :
          /\ SF_vars(LockingSend(p))
          /\ WF_vars(Wake(p) \/ WakeNotify(p) \/ EventNotify(p))

FairSpec == Spec /\ Fairness

----------------------------------------------------------------------------
(* Properties *)

\* A pending signal that the sleeping call must react to.
Deliverable ==
    \/ kind = "wait_for" /\ SignalPending
    \/ kind = "sigtimedwait" /\ pending \ EffectiveBlocked # {}

\* A sender that queued its signal and has not yet notified.
WakeInFlight == \E p \in Peers : ppc[p] \in {"wake", "hold", "notify"}

\* The claim of the comment in wait_for_common: whatever the order of the
\* registration and of the queueing, no wakeup is lost.  The task never sleeps
\* on a deliverable signal unless some sender is still on its way to notify it.
NoLostSignal == wpc = "asleep" /\ Deliverable => WakeInFlight

\* wait_for_common leaves no stale registration: whenever the task runs outside
\* a wait, waiting_cond is NULL, and a sender that holds the registration lock
\* only ever broadcasts on a condition whose lock it owns.
RegistrationExact ==
    /\ wpc \in {"run", "register", "return"} => ~registered
    /\ wpc \in {"sleep", "asleep", "reacquire"} => registered
    /\ \A p \in Peers : ppc[p] = "notify" => registered /\ owner[waitLock] = p

\* sync.h: "Will never return _ETIMEDOUT if timeout is NULL", and
\* wait_for_ignore_signals "will never return _EINTR".
ResultAllowed ==
    wpc = "return" =>
        /\ rc = "ETIMEDOUT" => timed
        /\ rc = "EINTR" => kind = "wait_for"

\* A call interrupted by a deliverable signal comes back: neither the trylock
\* loop of wake_signal_task_unlocked nor the lock hand-over of the wait can
\* keep it asleep for ever (unless the signal is discarded by SIGCONT).
SignalEndsWait ==
    (wpc \notin {"run", "return"} /\ Deliverable) ~> (wpc = "run" \/ ~Deliverable)
=============================================================================
