-------------------------------- MODULE Poll --------------------------------
(***************************************************************************)
(* A poll object of fs/poll.c, as used by epoll and by poll, select and    *)
(* the socket waits: registrations of descriptors, waiters that share one  *)
(* host back end and one notify pipe, wakeups, signals, closing            *)
(* descriptors and the destruction of the object.                          *)
(*                                                                         *)
(* Lock order is fd->poll_lock, then poll->lock.  A section under          *)
(* poll->lock is one action; the lock is a variable because a waiter       *)
(* holds it over several actions while signal senders, which do not take   *)
(* it, go on, and because poll_destroy takes the two locks the other way   *)
(* round.  fd->poll_lock is held from the moment a wakeup or a close has   *)
(* it until its turn on poll->lock.  There is one kind of event.  An       *)
(* operation on a descriptor makes its poll_wakeup before the next one     *)
(* starts.                                                                 *)
(***************************************************************************)
EXTENDS Integers, FiniteSets

CONSTANTS Tasks,     \* tasks that wait
          Plain,     \* descriptors that only poll_wakeup announces
          Host,      \* sockets, which the host back end watches as well
          Slots,     \* poll_fd records
          Modes,     \* subset of {"level", "edge", "oneshot"}
          PipeSize,  \* bytes the notify pipe takes
          Capacity,  \* events one wait can return
          MaxOps,    \* bound on calls and events from outside
          None

Fds == Plain \cup Host
Destroyer == "destroyer"

ASSUME PollAssumption ==
    /\ Plain \cap Host = {}
    /\ None \notin Fds \cup Tasks \cup {Destroyer, "waker", "closer"}
    /\ Destroyer \notin Tasks
    /\ Modes \subseteq {"level", "edge", "oneshot"}
    /\ IsFiniteSet(Slots) /\ IsFiniteSet(Fds) /\ Cardinality(Slots) = Cardinality(Fds)
    /\ {PipeSize, Capacity} \subseteq Nat \ {0}
    /\ MaxOps \in Nat

VARIABLES
    pollLock,   \* who holds poll->lock over several steps
    destroy,    \* poll_destroy: no, drain, sweep, yield, done
    waiters, exclusive,
    bytes,      \* unread bytes in the notify pipe; -1: the pipe is closed
    slot,       \* the poll_fd records
    edge,       \* edges the host back end has to report for a socket
    ready,      \* a read would not block
    owes,       \* the poll_wakeup a descriptor's operation still has to make
    fdLock,     \* holder of fd->poll_lock: None, "waker" or "closer"
    fdState,    \* open, closing (no reference left) or gone
    guestRef,   \* the guest still has the descriptor
    closer,     \* who dropped the last reference
    phase,      \* of each task in poll_wait_deadline
    got,        \* events (records) the host back end gave the task
    held,       \* sockets the task holds a reference to
    pending,    \* the task has a signal that it does not block
    wasPending, \* pending_at_registration
    sender,     \* a sender has queued a signal and not yet looked for a poll
    notifyFd,   \* task->waiting_poll_active, waiting_poll_notify_fd
    ops

pollVars == <<destroy, waiters, exclusive, bytes>>
fdVars == <<ready, owes, fdLock, fdState, guestRef, closer>>
callVars == <<phase, got, held>>
signalVars == <<pending, wasPending, sender, notifyFd>>
vars == <<pollLock, pollVars, slot, edge, fdVars, callVars, signalVars, ops>>

\* none: no memory; free: on pollfd_freelist; used: registered.  fd is None in
\* the tombstone of a closed wake-only target.  fresh is history: something to
\* report since the record was last reported.
Unused == [st |-> "none", fd |-> None, mode |-> "level", wake |-> FALSE,
           trig |-> FALSE, forced |-> FALSE, enabled |-> FALSE, fresh |-> FALSE]

Registered(f, mode, wake) ==
    [Unused EXCEPT !.st = "used", !.fd = f, !.mode = mode, !.wake = wake,
                   !.enabled = TRUE, !.fresh = TRUE]

\* A new object, or one to which every descriptor has been added, eventfds
\* possibly as wake-only targets.
InitSlots ==
    LET at == CHOOSE b \in [Slots -> Fds] : \A r, s \in Slots : r # s => b[r] # b[s] IN
    \/ slot = [s \in Slots |-> Unused]
    \/ \E mode \in Modes, W \in {{}, Plain} :
          slot = [s \in Slots |-> Registered(at[s], mode, at[s] \in W)]

Init ==
    /\ pollLock = None
    /\ destroy = "no" /\ waiters = 0 /\ exclusive = FALSE /\ bytes = -1
    /\ InitSlots
    /\ edge = [f \in Host |-> FALSE]
    /\ ready = [f \in Fds |-> FALSE]
    /\ owes = [f \in Fds |-> "none"]
    /\ fdLock = [f \in Fds |-> None]
    /\ fdState = [f \in Fds |-> "open"]
    /\ guestRef = [f \in Fds |-> TRUE]
    /\ closer = [f \in Fds |-> None]
    /\ phase = [t \in Tasks |-> "out"]
    /\ got = [t \in Tasks |-> {}]
    /\ held = [t \in Tasks |-> {}]
    /\ pending = [t \in Tasks |-> FALSE]
    /\ wasPending = [t \in Tasks |-> FALSE]
    /\ sender = [t \in Tasks |-> FALSE]
    /\ notifyFd = [t \in Tasks |-> FALSE]
    /\ ops = 0

Used == {s \in Slots : slot[s].st = "used"}
Of(f) == {s \in Used : slot[s].fd = f}
Destroying == destroy # "no"
Unlocked == pollLock = None /\ destroy # "done"

\* poll_notify_waiters_locked: a full pipe already has a notification.
Notified == IF bytes = -1 \/ bytes = PipeSize THEN bytes ELSE bytes + 1

\* What the host back end reports: registered sockets that are ready, or whose
\* edge it has not reported yet.
Watched(s) == slot[s].fd \in Host /\ ~slot[s].wake /\ slot[s].enabled
HostEvents ==
    {s \in Used : Watched(s) /\ IF slot[s].mode = "edge" THEN edge[slot[s].fd]
                                                          ELSE ready[slot[s].fd]}

----------------------------------------------------------------------------
(* Registration: poll_add_fd_impl, poll_mod_fd, poll_del_fd, poll_rearm_fd *)

\* Both locks are free and the object accepts operations (else EBADF).
MayChange(f) ==
    /\ guestRef[f]
    /\ fdLock[f] = None /\ Unlocked /\ ~Destroying

\* A record from the freelist, or a new one if it is empty.
FromFreelist(s) ==
    IF \E r \in Slots : slot[r].st = "free"
    THEN slot[s].st = "free"
    ELSE \E r \in Slots : slot[r].st = "none" /\ s = CHOOSE q \in Slots : slot[q].st = "none"

\* The host back end starts anew: it reports what is there.
Rewatched(f) == IF f \in Host THEN [edge EXCEPT ![f] = ready[f]] ELSE edge

\* Wrong variant: the waiters are not told.
AddSilently(f, s, mode, wake) ==
    /\ MayChange(f)
    /\ Of(f) = {} /\ FromFreelist(s)
    /\ slot' = [slot EXCEPT ![s] = Registered(f, mode, wake)]
    /\ edge' = IF wake THEN edge ELSE Rewatched(f)
    /\ UNCHANGED <<pollLock, pollVars, fdVars, callVars, signalVars>>

Add(f, s, mode, wake) ==
    /\ MayChange(f)
    /\ Of(f) = {} /\ FromFreelist(s)
    /\ slot' = [slot EXCEPT ![s] = Registered(f, mode, wake)]
    /\ edge' = IF wake THEN edge ELSE Rewatched(f)
    /\ bytes' = Notified
    /\ UNCHANGED <<pollLock, destroy, waiters, exclusive, fdVars, callVars, signalVars>>

\* The host back end refuses: the record goes to the freelist.
AddFails(f, s) ==
    /\ MayChange(f)
    /\ f \in Host /\ Of(f) = {} /\ FromFreelist(s)
    /\ slot' = [slot EXCEPT ![s] = [Unused EXCEPT !.st = "free"]]
    /\ UNCHANGED <<pollLock, pollVars, edge, fdVars, callVars, signalVars>>

Mod(f, mode) ==
    /\ MayChange(f)
    /\ \E s \in Of(f) :
          /\ slot' = [slot EXCEPT ![s] = Registered(f, mode, slot[s].wake)]
          /\ edge' = IF slot[s].wake THEN edge ELSE Rewatched(f)
    /\ bytes' = Notified
    /\ UNCHANGED <<pollLock, destroy, waiters, exclusive, fdVars, callVars, signalVars>>

\* Wrong variant: the record is freed, not kept for later use.
DelFrees(f) ==
    /\ MayChange(f)
    /\ \E s \in Of(f) : slot' = [slot EXCEPT ![s] = Unused]
    /\ UNCHANGED <<pollLock, pollVars, edge, fdVars, callVars, signalVars>>

Del(f) ==
    /\ MayChange(f)
    /\ \E s \in Of(f) : slot' = [slot EXCEPT ![s] = [Unused EXCEPT !.st = "free"]]
    /\ UNCHANGED <<pollLock, pollVars, edge, fdVars, callVars, signalVars>>

\* A socket was replaced by another host descriptor.
Rearm(f) ==
    /\ MayChange(f)
    /\ \E s \in Of(f) :
          /\ Watched(s)
          /\ slot' = [slot EXCEPT ![s].trig = FALSE]
    /\ edge' = Rewatched(f)
    /\ bytes' = Notified
    /\ UNCHANGED <<pollLock, destroy, waiters, exclusive, fdVars, callVars, signalVars>>

----------------------------------------------------------------------------
(* Events *)

\* An eventfd is written or emptied; poll_wakeup follows without the fd's lock.
Change(f, r) ==
    /\ f \in Plain /\ guestRef[f] /\ owes[f] = "none"
    /\ r \/ ready[f]
    /\ ready' = [ready EXCEPT ![f] = r]
    /\ owes' = [owes EXCEPT ![f] = IF r THEN "read" ELSE "write"]
    /\ UNCHANGED <<pollLock, pollVars, slot, edge, fdLock, fdState, guestRef, closer,
                   callVars, signalVars>>

\* Data arrives at a socket, or the guest reads it: no poll_wakeup.
HostChange(f, r) ==
    /\ f \in Host /\ guestRef[f]
    /\ r \/ ready[f]
    /\ ready' = [ready EXCEPT ![f] = r]
    /\ edge' = [edge EXCEPT ![f] = r]
    /\ slot' = [s \in Slots |-> IF s \in Of(f) /\ r THEN [slot[s] EXCEPT !.fresh = TRUE]
                                ELSE slot[s]]
    /\ UNCHANGED <<pollLock, pollVars, owes, fdLock, fdState, guestRef, closer,
                   callVars, signalVars>>

WakeupLock(f) ==
    /\ owes[f] # "none" /\ fdLock[f] = None
    /\ fdLock' = [fdLock EXCEPT ![f] = "waker"]
    /\ UNCHANGED <<pollLock, pollVars, slot, edge, ready, owes, fdState, guestRef,
                   closer, callVars, signalVars, ops>>

\* poll_wakeup_impl, its turn on poll->lock
Wakeup(f) ==
    LET read == owes[f] = "read"
        hit  == {s \in Of(f) : slot[s].enabled}
    IN
    /\ fdLock[f] = "waker"
    /\ Of(f) = {} \/ Unlocked
    /\ slot' = [s \in Slots |->
                  IF s \in hit /\ read
                  THEN [slot[s] EXCEPT !.trig = FALSE, !.fresh = TRUE,
                                       !.forced = @ \/ slot[s].wake]
                  ELSE slot[s]]
    /\ bytes' = IF hit # {} THEN Notified ELSE bytes
    /\ fdLock' = [fdLock EXCEPT ![f] = None]
    /\ owes' = [owes EXCEPT ![f] = "none"]
    /\ UNCHANGED <<pollLock, destroy, waiters, exclusive, edge, ready, fdState, guestRef,
                   closer, callVars, signalVars, ops>>

----------------------------------------------------------------------------
(* fd_close *)

\* The descriptors nobody refers to any more; who has to close them.
Dropped(who, open, holds) ==
    LET last == {f \in Fds : /\ fdState[f] = "open" /\ ~open[f]
                             /\ \A t \in Tasks : f \notin holds[t]}
    IN
    /\ fdState' = [f \in Fds |-> IF f \in last THEN "closing" ELSE fdState[f]]
    /\ closer' = [f \in Fds |-> IF f \in last THEN who ELSE closer[f]]

\* The guest closes a descriptor that no operation of its own is using.
Close(f) ==
    /\ guestRef[f] /\ owes[f] = "none"
    /\ guestRef' = [guestRef EXCEPT ![f] = FALSE]
    /\ Dropped(None, guestRef', held)
    /\ UNCHANGED <<pollLock, pollVars, slot, edge, ready, owes, fdLock, callVars, signalVars>>

CleanupLock(f) ==
    /\ fdState[f] = "closing" /\ fdLock[f] = None
    /\ fdLock' = [fdLock EXCEPT ![f] = "closer"]
    /\ UNCHANGED <<pollLock, pollVars, slot, edge, ready, owes, fdState, guestRef,
                   closer, callVars, signalVars, ops>>

\* poll_cleanup_fd: a wake-only record stays behind without its descriptor.  What
\* the descriptor had to report ends with it.
Cleanup(f) ==
    /\ fdLock[f] = "closer"
    /\ Of(f) = {} \/ Unlocked
    /\ slot' = [s \in Slots |->
                  IF s \notin Of(f) THEN slot[s]
                  ELSE IF slot[s].wake
                       THEN [slot[s] EXCEPT !.fd = None, !.forced = TRUE, !.fresh = TRUE]
                       ELSE [Unused EXCEPT !.st = "free"]]
    /\ bytes' = IF \E s \in Of(f) : slot[s].wake THEN Notified ELSE bytes
    /\ fdLock' = [fdLock EXCEPT ![f] = None]
    /\ fdState' = [fdState EXCEPT ![f] = "gone"]
    /\ closer' = [closer EXCEPT ![f] = None]
    /\ ready' = [ready EXCEPT ![f] = FALSE]
    /\ edge' = [g \in Host |-> edge[g] /\ g # f]
    /\ UNCHANGED <<pollLock, destroy, waiters, exclusive, owes, guestRef, callVars,
                   signalVars, ops>>

----------------------------------------------------------------------------
(* poll_wait_deadline *)

Goto(t, p) == phase' = [phase EXCEPT ![t] = p]

\* Enter with poll->lock, the first waiter opening the pipe.  A signal-safe wait
\* shares the object with nobody (EBUSY); under the task's two signal locks it
\* notes whether a signal is pending and publishes the pipe to senders.  If the
\* pipe cannot be made, the call fails and leaves nothing behind.
WaitEnter(t, s) ==
    /\ phase[t] = "out" /\ Unlocked /\ ~Destroying
    /\ ~exclusive /\ (s => waiters = 0)
    /\ pollLock' = t
    /\ waiters' = waiters + 1
    /\ exclusive' = s
    /\ bytes' = IF waiters = 0 THEN 0 ELSE bytes
    /\ wasPending' = [wasPending EXCEPT ![t] = s /\ pending[t]]
    /\ notifyFd' = [notifyFd EXCEPT ![t] = s]
    /\ Goto(t, "scan")
    /\ UNCHANGED <<destroy, slot, edge, fdVars, got, held, pending, sender, ops>>

\* release_pipe: unregister from senders; the last waiter closes the pipe.
Leave(t) ==
    /\ notifyFd' = [notifyFd EXCEPT ![t] = FALSE]
    /\ wasPending' = [wasPending EXCEPT ![t] = FALSE]
    /\ waiters' = waiters - 1
    /\ exclusive' = FALSE
    /\ bytes' = IF waiters = 1 THEN -1 ELSE bytes
    /\ pollLock' = None
    /\ Goto(t, "out")

Reportable(s) ==
    /\ slot[s].st = "used" /\ slot[s].enabled
    /\ slot[s].forced \/ (~slot[s].wake /\ ready[slot[s].fd])
    /\ ~(slot[s].mode = "edge" /\ slot[s].trig)
Able == {s \in Slots : Reportable(s)}

Reported(r) == [r EXCEPT !.fresh = FALSE, !.forced = FALSE,
                         !.trig = @ \/ r.mode = "edge",
                         !.enabled = r.mode # "oneshot"]

\* Look at every registration; report as many as the caller takes.
ScanReports(t) ==
    /\ phase[t] = "scan" /\ Able # {}
    /\ \E D \in SUBSET Able :
          /\ Cardinality(D) = IF Cardinality(Able) < Capacity THEN Cardinality(Able)
                                                              ELSE Capacity
          /\ slot' = [s \in Slots |-> IF s \in D THEN Reported(slot[s]) ELSE slot[s]]
    /\ Leave(t)
    /\ UNCHANGED <<destroy, edge, fdVars, got, held, pending, sender, ops>>

ScanNothing(t) ==
    /\ phase[t] = "scan" /\ Able = {}
    /\ Goto(t, "check")
    /\ UNCHANGED <<pollLock, pollVars, slot, edge, fdVars, got, held, signalVars, ops>>

\* EINTR for a signal; 0 at the deadline; ENOMEM if there is no memory for the
\* list of sockets.
CheckLeaves(t) ==
    /\ phase[t] = "check"
    /\ Leave(t)
    /\ UNCHANGED <<destroy, slot, edge, fdVars, got, held, pending, sender, ops>>

\* No signal: hold the registered sockets that are still referenced, unlock, and
\* go to the host's epoll_wait or kevent.
CheckSleeps(t) ==
    /\ phase[t] = "check"
    /\ ~pending[t] /\ ~wasPending[t]
    /\ held' = [held EXCEPT ![t] = {f \in Host : /\ fdState[f] = "open"
                                                 /\ \E s \in Of(f) : ~slot[s].wake}]
    /\ pollLock' = None
    /\ Goto(t, "host")
    /\ UNCHANGED <<pollVars, slot, edge, fdVars, got, signalVars, ops>>

HostReturn(t) ==
    /\ phase[t] = "host"
    /\ bytes > 0 \/ HostEvents # {}
    /\ got' = [got EXCEPT ![t] = HostEvents]
    /\ edge' = [f \in Host |-> edge[f] /\ \A s \in HostEvents : slot[s].fd # f]
    /\ Goto(t, "back")
    /\ UNCHANGED <<pollLock, pollVars, slot, fdVars, held, signalVars, ops>>

\* The end of a time slice, or a host signal from anywhere.
HostGiveUp(t) ==
    /\ phase[t] = "host"
    /\ Goto(t, "idle")
    /\ UNCHANGED <<pollLock, pollVars, slot, edge, fdVars, got, held, signalVars, ops>>

\* What the host said is evaluated in a section of its own under poll->lock; the
\* sockets are given up after it.  The wait ends if the object is going away, or
\* if nothing came and the deadline has passed.
Back(t) ==
    LET heed == ~Destroying /\ phase[t] = "back" IN
    /\ phase[t] \in {"back", "idle"} /\ Unlocked
    /\ slot' = [s \in Slots |->
                  IF heed /\ s \in got[t] /\ slot[s].st = "used" /\ slot[s].enabled
                  THEN [slot[s] EXCEPT !.trig = FALSE] ELSE slot[s]]
    /\ bytes' = IF heed /\ bytes > 0 THEN bytes - 1 ELSE bytes
    /\ got' = [got EXCEPT ![t] = {}]
    /\ held' = [held EXCEPT ![t] = {}]
    /\ Dropped(t, guestRef, held')
    /\ \/ ~Destroying /\ Goto(t, "relock")
       \/ ~heed /\ Goto(t, "quit")
    /\ UNCHANGED <<pollLock, destroy, waiters, exclusive, edge, ready, owes, fdLock, guestRef,
                   signalVars, ops>>

\* The closes that fell to this task are done.
Closed(t) == \A f \in Fds : closer[f] # t

Relock(t) ==
    /\ phase[t] = "relock" /\ Unlocked /\ Closed(t)
    /\ pollLock' = t
    /\ Goto(t, "scan")
    /\ UNCHANGED <<pollVars, slot, edge, fdVars, got, held, signalVars, ops>>

Quit(t) ==
    /\ phase[t] = "quit" /\ Unlocked /\ Closed(t)
    /\ Leave(t)
    /\ UNCHANGED <<destroy, slot, edge, fdVars, got, held, pending, sender, ops>>

----------------------------------------------------------------------------
(* Signals: wake_signal_task_unlocked *)

\* Queued under the sighand lock, which is then given up.
SignalQueue(t) ==
    /\ ~pending[t] /\ ~sender[t]
    /\ pending' = [pending EXCEPT ![t] = TRUE]
    /\ sender' = [sender EXCEPT ![t] = TRUE]
    /\ UNCHANGED <<pollLock, pollVars, slot, edge, fdVars, callVars, wasPending, notifyFd>>

\* Wrong variant: the sender relies on the host signal alone.
SignalWakeHostOnly(t) ==
    /\ sender[t]
    /\ sender' = [sender EXCEPT ![t] = FALSE]
    /\ UNCHANGED <<pollLock, pollVars, slot, edge, fdVars, callVars, pending, wasPending,
                   notifyFd, ops>>

\* wake_poll_wait_locked, under waiting_cond_lock only.
SignalWake(t) ==
    /\ sender[t]
    /\ sender' = [sender EXCEPT ![t] = FALSE]
    /\ bytes' = IF notifyFd[t] THEN Notified ELSE bytes
    /\ UNCHANGED <<pollLock, destroy, waiters, exclusive, slot, edge, fdVars, callVars,
                   pending, wasPending, notifyFd, ops>>

\* The task takes the signal after the call, or a sibling takes it any time.
SignalTaken(t) ==
    /\ pending[t]
    /\ pending' = [pending EXCEPT ![t] = FALSE]
    /\ UNCHANGED <<pollLock, pollVars, slot, edge, fdVars, callVars, wasPending, sender,
                   notifyFd, ops>>

----------------------------------------------------------------------------
(* poll_destroy *)

DestroyBegin ==
    /\ pollLock = None /\ ~Destroying
    /\ destroy' = "drain"
    /\ bytes' = Notified
    /\ UNCHANGED <<pollLock, waiters, exclusive, slot, edge, fdVars, callVars, signalVars, ops>>

\* The waiters are gone, or the descriptor in the way had its turn.
DestroyLock ==
    /\ destroy \in {"drain", "yield"} /\ waiters = 0
    /\ pollLock = None
    /\ pollLock' = Destroyer
    /\ destroy' = "sweep"
    /\ UNCHANGED <<waiters, exclusive, bytes, slot, edge, fdVars, callVars, signalVars, ops>>

FdBusy(s) == slot[s].fd # None /\ fdLock[slot[s].fd] # None

\* Remove one registration; a tombstone has no descriptor to lock.
DestroyRemove(s) ==
    /\ destroy = "sweep" /\ s \in Used
    /\ ~FdBusy(s)
    /\ slot' = [slot EXCEPT ![s] = Unused]
    /\ UNCHANGED <<pollLock, pollVars, edge, fdVars, callVars, signalVars, ops>>

\* Wrong variant: wait for fd->poll_lock with poll->lock held.
NeverGivesWay(s) == FALSE

\* trylock failed: let go, so that the holder can finish.
GivesWay(s) == FdBusy(s)

DestroyYield(s) ==
    /\ destroy = "sweep" /\ s \in Used
    /\ GivesWay(s)
    /\ pollLock' = None
    /\ destroy' = "yield"
    /\ UNCHANGED <<waiters, exclusive, bytes, slot, edge, fdVars, callVars, signalVars, ops>>

\* The freelist and the object itself are released.
DestroyEnd ==
    /\ destroy = "sweep" /\ Used = {}
    /\ destroy' = "done"
    /\ pollLock' = None
    /\ slot' = [s \in Slots |-> Unused]
    /\ UNCHANGED <<waiters, exclusive, bytes, edge, fdVars, callVars, signalVars, ops>>

----------------------------------------------------------------------------

WaitStep(t) ==
    \/ ScanReports(t) \/ ScanNothing(t) \/ CheckLeaves(t) \/ CheckSleeps(t)
    \/ HostReturn(t) \/ HostGiveUp(t)
    \/ Back(t) \/ Relock(t) \/ Quit(t)

FdStep(f) == WakeupLock(f) \/ Wakeup(f) \/ CleanupLock(f) \/ Cleanup(f)

\* Calls on descriptors, events and signals, MaxOps of them while the object exists.
FdCall(f) ==
    \/ \E s \in Slots : \/ \E mode \in Modes, wake \in BOOLEAN : Add(f, s, mode, wake)
                        \/ AddFails(f, s)
    \/ \E mode \in Modes : Mod(f, mode)
    \/ Del(f) \/ Rearm(f)
    \/ \E r \in BOOLEAN : Change(f, r) \/ HostChange(f, r)
    \/ Close(f)

FromOutside ==
    /\ ops < MaxOps /\ destroy # "done"
    /\ ops' = ops + 1
    /\ \/ \E f \in Fds : FdCall(f)
       \/ \E t \in Tasks : SignalQueue(t)

DestroyStep ==
    \/ DestroyBegin \/ DestroyLock \/ DestroyEnd
    \/ \E s \in Slots : DestroyRemove(s) \/ DestroyYield(s)

Next ==
    \/ \E t \in Tasks : \/ WaitStep(t) \/ SignalWake(t) \/ SignalTaken(t)
                         \/ \E s \in BOOLEAN : WaitEnter(t, s)
    \/ \E f \in Fds : FdStep(f)
    \/ DestroyStep
    \/ FromOutside

Spec == Init /\ [][Next]_vars

----------------------------------------------------------------------------
(* Properties *)

Asleep(t) == phase[t] = "host"

\* t will look at every registration before it sleeps again.
WillScan(t) == phase[t] \in {"scan", "back", "relock"}

\* Waiters share one pipe, and each reads at most one byte of it per wakeup.  As
\* long as a wait has room for every registration, an event that nobody has
\* reported still never goes unnoticed while a task sleeps: the host wait will
\* return, or a waiter is on its way to the scan, or the wakeup has yet to come.
NoEventLost ==
    Cardinality(Slots) <= Capacity =>
       \A s \in Used :
          Reportable(s) /\ slot[s].fresh /\ ~Destroying /\ (\E t \in Tasks : Asleep(t))
             => \/ bytes > 0
                \/ HostEvents # {}
                \/ \E t \in Tasks : WillScan(t)
                \/ slot[s].fd # None /\ owes[slot[s].fd] = "read"

\* poll, select and socket waits with a signal mask: a signal that comes between
\* the look at the pending set and the host wait is not slept on.
SignalNoticed ==
    \A t \in Tasks :
       notifyFd[t] /\ Asleep(t) /\ pending[t] => bytes > 0 \/ sender[t]

\* A pointer the host back end returned names a record that still exists; a
\* registration names a descriptor that still exists; and nobody is inside the
\* object once it is released.
MemorySafe ==
    /\ \A t \in Tasks : \A s \in got[t] : slot[s].st # "none"
    /\ \A s \in Used : slot[s].fd # None => fdState[slot[s].fd] # "gone"
    /\ destroy = "done" => Used = {} /\ \A t \in Tasks : phase[t] = "out"

\* A waiting task has a step that needs neither time nor a host signal.
WaiterCanGoOn(t) ==
    \/ phase[t] \in {"scan", "check"}
    \/ phase[t] = "host" /\ (bytes > 0 \/ HostEvents # {})
    \/ phase[t] \in {"back", "idle"} /\ Unlocked
    \/ phase[t] \in {"relock", "quit"} /\ Unlocked /\ Closed(t)

\* A wakeup or a close of f has a step.
FdCanGoOn(f) ==
    \/ owes[f] # "none" /\ fdLock[f] = None
    \/ fdState[f] = "closing" /\ fdLock[f] = None
    \/ fdLock[f] # None /\ (Of(f) = {} \/ Unlocked)

\* The destruction itself has a step.
DestroyerCanGoOn ==
    \/ destroy \in {"drain", "yield"} /\ waiters = 0 /\ pollLock = None
    \/ destroy = "sweep" /\ (Used = {} \/ \E s \in Used : ~FdBusy(s) \/ GivesWay(s))

\* poll_destroy takes the two locks in the order opposite to every other path and
\* waits for waiters that it has to wake.  Until it is done, somebody inside can
\* always go on without help from time, host signals or further calls.
DestroyNeverStuck ==
    destroy \notin {"no", "done"} =>
       \/ DestroyerCanGoOn
       \/ \E t \in Tasks : WaiterCanGoOn(t)
       \/ \E f \in Fds : FdCanGoOn(f)
=============================================================================
