# iSH multi-arch: TLA+ models of the kernel core

iSH runs Linux user programs (i386 and AArch64 guests) inside one host process.
Its `kernel/` directory re-implements the Linux process model on host threads:
every guest thread is a host thread, a guest lock is a host mutex, a signal is
a bit in a set plus a wakeup that somebody has to bring about. This project
models that core, checks it with TLC on small instances and proves the
invariants that matter most with TLAPS.

Paths below are relative to the repository's root.

## 1. Inventory

| Part | State it keeps | Operations | Talks to | What is hard | What makes it correct |
|---|---|---|---|---|---|
| Condition waits (`util/sync.c`) | the condition a task sleeps on (`waiting_cond`, `waiting_lock`) | `wait_for`, `wait_for_ignore_signals`, `notify` | every blocking call; signal senders | two lock orders, a signal between the last look and the sleep | no task sleeps on a deliverable signal; no stale registration |
| Signal queues (`kernel/signal-queue.c`, `kernel/signal-delivery.c`) | per task and per group: pending set, list of nodes, node-less bits; per user: count of nodes | enqueue under three policies, take, discard, flush | senders, pollers, exec, exit, timers | allocation failures half-way, accounts shared by processes | the pending set is exact, accounts are exact, limits hold, order per signal |
| Signals of a group (`kernel/signal.c`) | private and shared pending sets, masks, saved masks, stop state | kill, tgkill, sigprocmask, sigsuspend, delivery, stop, continue | waits, queues, life cycle | a chosen receiver blocks the signal or exits before it polls | every deliverable signal has somebody awake to take it |
| Thread group (`kernel/task.c`, `exit.c`, `fork.c`) | thread list, leader, pid table, exit status, exec marker | clone, exit, exit_group, exec, fatal signals, reap | signals, timers, parent | clone, group exit and exec all at once | the pid table is exact, a group action reaches every thread, exec and group exit end |
| Futexes (`kernel/futex.c`) | hash of counted objects, FIFO queues of wait records | WAIT, WAKE, REQUEUE, waitv | guest memory, waits | requeue moves a sleeping waiter; wake races timeout | no lost, no swallowed wake; exact reference counts |
| Timers (`util/timer.c`, `kernel/time.c`) | deadline, interval, generation, timer thread | set, expire, callback, free; timerfd read/gettime | signals, poll | callbacks outside the lock; free waits for the thread | nothing stale, nothing lost, nothing freed in use |
| Process tree, wait (`kernel/exit.c`, `group.c`) | parents, process groups, sessions, sleepers in `do_wait` | fork, clone, exit, reparent, wait, setpgid, setsid | life cycle, signals, tty | children handed from thread to thread while somebody waits; a last pass after a signal; pid reuse | nobody sleeps on a zombie it waits for, no zombie is out of reach, no pid is given to a stranger |
| Poll, epoll (`fs/poll.c`, `kernel/epoll.c`) | registrations and their free list, waiters, notify pipe, host back end | add, modify, delete, rearm, wake, wait, close, destroy | descriptors, signals | destroy against close in opposite lock orders, several waiters on one pipe, a signal against the host poll | no lost event, no missed signal, no use after free, destruction ends |
| Mapped files (`guest/memory/file-pager.c`, `page-backing.c`, `kernel/fs-task.c`, `kernel/aarch64-file-mapping-service.c`) | host file, a weak pager slot in the inode, resident pages with generations, orphaned pagers | read, write, truncate, fsync, map, page in, store, write back, drain | descriptors, guest memory, i386 mappings | stores between any two steps of a write-back; the last reference drains, and the drain may fail | all paths see one file; fsync is durable; no data dropped with the cache |
| Terminals (`fs/tty.c`, `fs/pty.c`) | buffers, termios, sessions, hangup | open, input, read, hangup | life cycle, signals | lock dropped during driver writes | no input after hangup, no dead driver |
| Sockets (`fs/sock.c`) | unix peers, in-flight descriptors | send, receive, close, collection | descriptors | cycles of in-flight sockets | nothing reachable collected |
| Guest address spaces (`guest/memory/`) | mappings, page tables, TLBs | map, protect, fork, copy on write | futex keys, files | stale translations | no stale translation |
| Everything else | | | | | see `PROJECT.json`, components |

The hazards of this code, each at its line and with the properties that watch
it, are listed in `PROJECT.json`.

## 2. Modules

```
WaitFor         how a task falls asleep and how a signal wakes it
ThreadSignals   who is woken for which signal      (a wakeup is one step)
ThreadGroup     life and death of the threads      (SIGKILL only)
SignalQueue     what "pending" is made of          (nodes, bits, accounts)
Futex           the futex core
Timer           the host timer thread
  PosixTimer    EXTENDS Timer: signal timers
  TimerFd       EXTENDS Timer: timerfd
  Timers        EXTENDS both: either client of a host timer
ProcessTree     parents, process groups, sessions and do_wait
Poll            one poll object, its waiters, descriptors and signals
CoherentFile    abstract: a file that every path sees the same
FilePager       INSTANCE CoherentFile: the page cache that implements it
X_proofs        EXTENDS X, TLAPS: theorems (PosixTimer and TimerFd in Timers_proofs,
                WaitFor and Futex in Waits_proofs)
MCX             EXTENDS X: symmetry and constant values for TLC
```

The cut between the first four modules follows the locks. `WaitFor` has every
mutex of the wakeup as a variable and shows that "send, then wake" reaches a
sleeper. The other modules rely on this and make a critical section, wakeup
included, one action. `ThreadSignals` and `ThreadGroup` reduce a queue to its
pending set; `SignalQueue` shows that the pending set says what the queue holds.

### WaitFor

State: owner of each mutex (`pids_lock`, `sighand->lock`, `waiting_cond_lock`,
the wait lock), whether `waiting_cond` is published, the waiter's place in
`wait_for_common`, each sender's place in `wake_signal_task_unlocked`, and
`pending`, `blocked`, `waiting` of the task. `waitLock` is the mutex of the
call under way: the code sleeps with `pids_lock` (`do_wait`), with the sighand
lock (`sigsuspend`, `pause`, `sigtimedwait`) and with locks that no sender holds,
and each gives another protocol between sleeper and sender.
One action is one stretch between lock operations. The sender's trylock loop is
three actions (lock, try, back off).

### SignalQueue

A list is a set of stamped nodes. `signal_enqueue_locked` is allocate, charge,
link, and removal is unlink, release, because `pending_accounts_lock` is
global while the sighand lock is the process's own: other processes act in
between, the same process does not. Allocation may fail at each attempt. Resource
limits are fixed per process. The discard of job control is an
operation that may happen at any time.

### ThreadSignals

Masks, private and shared pending sets, sleeping and stopped threads. A mask
change is two actions, as the code gives up the sighand lock before
`signal_retarget_shared_pending`. Handlers run with their signal blocked and
restore the mask. Fatal and ignored signals, ptrace and exec are left to the other modules
or out.

### ThreadGroup

One action per section under `pids_lock` (or the sighand lock of a poll).
`clone` is three (reserve a pid, publish, release), `do_exit` is two
(`exiting`, then the rest), `exec` is begin, wait, finish. Task structures and pids are finite pools and are reused.
Two history variables serve `ReportedStatus`: `asked`, what each thread itself gave
to `exit` or `exit_group`, and `first`, the reason to end the process (a fatal
signal or an `exit_group`) that came first. The code has neither; it has one
`group_exit_code` and the status of the leader, which a thread that an exec
swept away also sets.

### Futex

Every critical section under `futex_lock` is one action. A sleeping thread is
`asleep` until a wake, a timeout or a signal makes it `ready`; only then does
it need the lock and look at its wait record, so everything may happen in that
gap. A `FUTEX_WAIT` whose host wait timed out while its deadline is still ahead
(a limited wait, a host clock that runs ahead) goes back to sleep, and does so
without a look at its woken index (`LongWaitAgain`). Keys are resolved keys. A
queue is a sequence of records; wakes and moves take what they select from it by
rank (`Select`), which says the same as the loops over the list and needs no
recursion. The guest's side is external: it stores to a word and wakes
afterwards. `FutexInit`, `FutexNext` and so on have their prefix because
`Waits_proofs` extends `WaitFor` too.

### Timer, PosixTimer, TimerFd, Timers

`Timer` is the host timer with its thread (none, asleep, calling back, ...),
deadline, interval, generation. `PosixTimer` adds the slot and the callback
that sends a signal, `TimerFd` the descriptor that counts periods when it is
read. A callback is two actions: it takes its client's lock (`pids_lock`, or the
descriptor's lock) and asks, under `timer->lock`, whether it is current
(`CallbackCheck`), and it sends or counts and gives the client's lock up
(`CallbackSend`, `FdCallbackCount`). Settings and reads need the client's lock and
stay out of the gap (`LockFree`); `timer_free` needs `timer->lock` alone and may
begin in it, so a callback may send although the deletion has begun. A setting
that cannot create the thread writes back the four fields it has changed
(`TimerSetFails`). The program's 1 ns wait for an absolute deadline in the past is a
deadline that has passed. `Timers` is what TLC runs: the variable `owner` says
which of the two clients created the timer.

### ProcessTree

One record per pid: life (`run`, `exiting`, `dead` for a leader whose process
lives on, `zombie`), leader, parent, process group, session, and the wait it is
in. Every section under `pids_lock` is one action; `do_exit` is two
(`ExitBegin`, `ExitFinish`: reparent, leave the thread list, become a zombie or
be reaped automatically, notify both processes), `do_wait` is a pass over the
children (`Pass`), the sleep, and a pass again after every wakeup, the one after
a signal included. Pids are reused when `pid_empty` allows it.

### Poll

A poll object with its two locks: `poll->lock` is a variable where somebody
holds it over several steps, `fd->poll_lock` is held by a wakeup or a close from
its first lock to its turn on `poll->lock`. Records come from `pollfd_freelist`
and go back to it, because the host back end hands out raw pointers
to them (`got`). A wait is: enter and register for signals, scan, check for
signals, host wait without the lock, back, drain one byte, give up references,
scan again. Descriptors change state and owe a `poll_wakeup` (`owes`); the last
reference of a descriptor closes it, possibly in the hands of a waiter.
`poll_destroy` is begin, wait for waiters, then per record a trylock or a yield.

### CoherentFile and FilePager

`CoherentFile` is the promise: one content, which only a program's own
store, write or truncation changes; a write takes effect cell by cell.
`FilePager` is the code: the host file, the pager in the inode's weak slot,
its resident pages, `file_io_lock`, and what every thread is doing. A store
needs the page's lock alone and may come between any two steps of a read,
write, truncation or write-back. The generation counters of a page are kept as
the comparisons the code makes: `dirty`, and `fresh` for the copy being
written. A pager whose last reference goes drains; if that fails it is revived
with the list of orphans as its holder, and those who found it draining sleep
until they are told. The refinement mapping (`File`) takes a cell from the resident
page if there is one and otherwise from the host file, and treats an operation that has
changed the host file and not yet the pages as changes still to come.

## 3. Runs

All bounds are CONSTANTS in the .cfg files.

| Run | Question | Bounds and why they are enough |
|---|---|---|
| `wait` | Can any order of registration, queueing, trylock and sleep lose a signal, with any of the three kinds of wait lock, and does an interrupted wait come back? | one waiter and two senders, so that one sender can back off while another one wakes; `SIGKILL`, a stop signal and `SIGCONT`, which cancel each other; no bound on the number of calls |
| `futex` | WAIT, waitv, WAKE and REQUEUE against stores, timeouts, signals and failed allocations; does a store and its wake end the wait for the old value? | one waiter on vectors of two words (equal words included), one on single words, one waker; two words, limits 1 and 2: one waiter woken, one moved |
| `signals` | Does every deliverable signal keep a taker while masks change, handlers run and threads exit; do stop and continue cancel each other in every queue? | two threads: the chosen receiver and its successor; one stop signal and `SIGCONT`, any number of sends |
| `group` | clone, exit, exit_group, exec, kill and tgkill in every order; which status does the parent see, and do committed exits and execs end? | three tasks and three pids: caller, leader and a clone under way; one exit code, which differs from `SIGKILL` and from the 0 that the peers of an exec leave with, so that a status which is overwritten or taken from the wrong thread shows |
| `timers` | settings, failed settings, expiry, callbacks on the way, deletion in every order; are lazily counted periods exact? | five ticks, three settings, intervals 0, 1 and 2: a setting can be replaced twice before a callback of the first one runs; several periods pass unread |
| `queue` | Do pending set, nodes and bits agree, with failing allocations, in both queues of a process, and is the account exact and the limit kept while two processes charge and release it? | two processes of one user with limits 1 and 2, so that one fills what the other may still use; `Senders` says who sends what: `SIGKILL`, a fault signal and a real-time signal (also from a timer) to a thread, the fault signal from a timer to its group, the real-time signal to the other process; three nodes in one behaviour |
| `file_pager` | Do all paths see one file, and is nothing lost, while pagers are created, drained, revived and destroyed? Refinement of `CoherentFile`. | two threads, a page of two cells (one in, one past the file at first), three pagers (installed, candidate, successor), three calls (a mapping of the host file counts as one, several may be open at a time), two stores, one failure at any host call |
| `poll` | Events, signals, closes and destruction against two waiters on one object | an eventfd and a socket, level, edge and one-shot; a pipe of two bytes, so that it can be full; three calls or events from outside, waits unbounded; waiters are symmetric |
| `process_tree` | exit, reparenting, wait, setpgid and setsid in every order | four pids (pid 1, a parent with two threads or two children), births and reuse unbounded, one sleeper at a time; pids other than 1 are symmetric |

Deadlock is checked in `wait`, `futex` and `file_pager` (where the explicit step
`Quiet` lets programs stop between operations and nowhere else). In the others
the system may really stop: a deleted timer, a dead process, a destroyed poll
object, a bound on settings, nodes or ticks that is used up.

Three runs show what the code does against what its comments say. They check the
promise without reservation; the passing runs check the same promise for the
behaviours that do not meet the case, so that everything else stays covered.

* `signals_stopped_sleeper` (`NoWakeupLost`): a thread asleep in `wait_for` while
  its group is stopped is not woken for a signal, and `SIGCONT` does not make up
  for it (`kernel/signal.c:246`). `NoLostPrivateSignal` and
  `SharedSignalHasTaker` therefore speak of groups that were never stopped.
* `group_tgkill` (`GroupExitCarried`): a thread-directed `SIGKILL` to a thread
  that already is in `do_exit` commits the group exit, but nobody tells the
  sleeping siblings (`kernel/signal.c:226`). `GroupExitCompletes`
  therefore leaves out the behaviours with a thread-directed `SIGKILL`
  (the history variable `tgkilled`).
* `file_hole` (`CleanPageIsFile`): a write that starts past the end of the file
  leaves a hole that is zero in the host file, while the resident tail page
  keeps what a mapping stored past the old end and still counts as clean
  (`kernel/fs-task.c:318`); `ftruncate` zeroes the same range. `file_pager`
  has `HoleWrites = FALSE`: programs write at or before the end.

Each property of a passing run has a mutant in `PROJECT.json`: a wrong variant of
one definition, kept beside it in the module, under which TLC finds the property
violated.

Facts about the code met on the way, which the models contain or leave room for and no run
calls right or wrong:

* Zombies that pid 1 inherits, and zombies that `setpgid` moves into a group
  somebody waits for, notify nobody (`ProcessTree`, history variable `silent`).
* `setpgid(0, 0)` from a thread that is not the leader names the process group
  after the thread.
* A poll with timeout zero never asks the host back end, so it does not see a
  host edge it has not been told of; an edge that is pending at a scan is
  reported by the scan and again by the back end.
* A wait whose buffer is smaller than the set of ready records wakes nobody for the rest.
* Plain `epoll_wait` registers no notify pipe with the task: a signal between its check
  and the host wait is noticed at the end of the slice or by the host's `EINTR`.
  `SignalNoticed` speaks of the waits that do register.

## 4. Fairness

* `WaitFor`: host threads keep running (weak fairness of steps that need no
  lock); a thread in `pthread_mutex_lock` gets a mutex that is released again
  and again (strong fairness). A sender's trylock loop gets no such promise: it
  may lose every race, so its end is not claimed. What is claimed, that the
  interrupted wait returns, holds because the lock it loses to is the waiter's own.
* `ThreadGroup`: the sections of one call follow one another; a thread polls
  its signals at every return from a system call however often other actions
  intervene (strong fairness of the poll). No sleep ends by itself, nobody has
  to call or send anything.
* `Futex`: a thread that stopped sleeping gets `futex_lock`; a guest that stored
  goes on to its wake. Timeouts are never forced. A `FUTEX_WAIT` that is woken
  in the gap of `LongWaitAgain` may sleep on to its deadline; `StoreEndsWait`
  leaves this case out.
* `Timers`: the host schedules the timer thread, its callback and
  a deletion under way. Time need not pass.
* `ThreadSignals` claims no liveness: delivery takes private signals first,
  so a stream of private signals can starve a shared one.
* `FilePager`, `Poll` and `ProcessTree` state no fairness. That a sleeper will
  be told is the invariant `SleeperHasWaker`, that a destruction can always go
  on the invariant `DestroyNeverStuck` (the guard of some step of those inside is
  true), that no
  waiter sleeps on what it waits for `NoEventLost` and `NoChildMissed`. The
  yield loop of `poll_destroy` may lose every race, so its end is not claimed.

## 5. Proofs

The theorems hold for every value of the constants that satisfies the named
assumption of the module (`WaitForAssumption`, `FutexAssumption`, `QueueAssumption`,
`ThreadSignalsAssumption`, `ThreadGroupAssumption`, `TimerAssumption`,
`TreeAssumption`, `PollAssumption`, `SizesAssumption`): any number of threads,
pids, signals, descriptors, pages and so on, where the runs have two or three.
The assumptions say that constants are numbers where the code has numbers, that
names are distinct, and that sets which the code counts are finite; TLC
evaluates them in every run. A type invariant is part of every inductive invariant
and is covered by the proof alone. `ResultAllowed`, `StandardOnce`,
`SleepCoversDeadline` and `NoUseAfterFree` have proofs and no run.

**Waits_proofs.** Of the condition wait: `TypeCorrect`, `NoLostSignalHolds`, `RegistrationExactHolds`,
`ResultAllowedHolds`: any number of senders and signals, every wait lock.
`NoLostSignal` is not inductive: it says nothing of the waiter before it
sleeps. `WaitForInv` adds who owns which mutex at which step (`OwnerInv`), when
the condition is published (`RegisteredInv`), that only `sigtimedwait` waits
for blocked signals and does so with the sighand lock (`WaitingInv`), and that from
the recheck on a deliverable signal has a sender that will notify (`LostInv`).
The last part is why the recheck under `waiting_cond_lock` is needed.

Of the futex core: `FutexTypeCorrect`, `ObjectsExactHolds`, `NoMissedWakeHolds`
and the action property `WakeNotSwallowedHolds`: any number of threads and words,
vectors of any length, any limits. `FutexInv` adds that a record nobody moved is on
the object of the word it was made for and that a running thread has no records
(`RecordInv`), and extends `NoMissedWake` from the sleepers to those whose sleep has
just ended (`WordInv`): a waitv and a long `FUTEX_WAIT` go back to sleep from
there. `ObjectsExact` is proved in its two halves, reference counts
(`RefcountExact`, the number of records that name the object) and queues (`QueueExact`). What a selection from a queue
contains would be an induction over sequences for a recursive definition. With ranks it
follows from the bijection between the selected places and `1..n`; the lemmas
on `Select`, on the two parts of a split queue and on the concatenation that a
requeue makes are stated once and cited by WAKE, REQUEUE and every way out of a
wait.

**SignalQueue_proofs.** `TypeCorrect`, `PendingExactHolds`, `StandardOnceHolds`,
`AccountExactHolds`, `LimitRespectedHolds`, `FifoPerSignalHolds`: any number of
processes, users, signals, nodes and any limits. `QueueInv` adds that a node is
in one place, the list it was made for or the hands of the process that works on
that list (`Places`), and that what an enqueue found out before it allocated
still holds when it links (`Lock`), which is what the sighand lock is for.
Accounts are equal to the cardinality of the set of charged nodes; each step
adds or removes one node of that set. The limit is proved on top: a charge is
admitted only below the limit of the process that asks, the account then counts
every node of the user that was charged before (stamps are in the order of
charges), and later releases can only make that set smaller. The order (`FifoInv`) needs that no two nodes of a list have the same
stamp, and that a node about to be linked is newer than everything its queue
holds or has given out.

**ThreadSignals_proofs.** `TypeCorrect`, `NoLostPrivateSignalHolds`,
`SharedSignalHasTakerHolds`, `JobControlExclusiveHolds`. The three invariants
need one addition, `NewlyInv`: what a mask change has still to hand over is
blocked by its thread, and only a thread between the two halves of a mask change
has anything to hand over. The argument for a shared signal rests on the one for
private signals: a thread that could take a shared signal and is not chosen has
a private signal to take (`task_wants_signal_locked`), so it is awake
(`UnwillingIsAwake`). Retargeting and exit are two uses of one lemma
(`HandOverKeeps`); every mask change, by system call or by delivery, is an
instance of another (`MaskStepKeeps`).

**ThreadGroup_proofs.** `TypeCorrect`, `PidTableExactHolds`,
`GroupActionReachesAllHolds`, `ExecNotTurnedOnItselfHolds`,
`ReportedStatusHolds`. `ThreadGroupInv` adds which phases are on the thread list
(`ListInv`), that a clone and its child belong together (`CloneInv`), who has
which pid (`PidInv`), that `SIGKILL` is pending only for the sake of a group
action (`KillInv`: otherwise an exec could meet a signal from nowhere), and
where exit codes come from (`CodeInv`, `StatusInv`). `ReportedStatus` is an
action property; `ReasonInv` ties the history to the code's fields: the first
reason is what the group exit has recorded, and without one the status of a
leader that leaves is what it was asked to leave with, because a swept leader
is replaced before anything is reported. Most steps only move
listed threads from phase to phase; the lemma `MovesKeepTable` deals with the
table for all of them, so that clone, exec's exchange of pids, exit and reap
remain.

**Timers_proofs.** Of signal timers: `TypeCorrect`, `SleepCoversDeadlineHolds`,
`NoUseAfterFreeHolds`, `NoStaleSignalHolds`, `SettingInForceHolds`, `NotMoreThanDueHolds`.
`PosixTimerInv` adds that the generation of the timer numbers the setting in
force and that of a callback the setting it belongs to (`GenerationInv`), and
what a dying timer may still do (`DeadInv`). `NoStaleSignal` is an action
property; it follows from `GenerationInv`, from the lock that keeps settings out between
the callback's check and its signal, and from the wait of `timer_free` for the
thread. `CountInv` ties the number of signals of a setting to the deadline an
armed timer waits for: it is the first one plus as many intervals as were
signalled or are about to be by a callback under way. `SettingInForce` follows
from it: what the timer does is what the last successful setting asked for. Of timerfd:
`NoPeriodLostHolds`; `FdInv` keeps the deadline a whole number of
intervals from the first one, and what was read plus what can be read equal to
that number. `TimersSafe` carries both over to the composed specification that
the run checks: whoever owns the host timer, its client's invariant is kept and
the other client's variables are untouched.

**ProcessTree_proofs.** `TypeCorrect`, `NoOrphanHolds`, `IdsExactHolds` and the
action property `NoChildMissedHolds`. `TreeInv` adds that every thread belongs
to a process of the table and a zombie process has no other thread
(`MemberInv`), that no process is the child of its own thread (`ForeignParent`,
without which reparenting within a group could make a cycle), that a pid in use
which also names a group or session belongs to that session (`NumberInv`, which the reuse
of pids needs), and that nobody sleeps on a zombie it was told of (`ToldInv`).

**Poll_proofs.** `TypeCorrect`, `MemorySafeHolds`, `SignalNoticedHolds`,
`NoEventLostHolds`, `DestroyNeverStuckHolds`. `PollInv` adds that `poll->waiters` counts the tasks inside and the
pipe is open while there is one (`CountInv`), that destruction goes on only
without them (`DestroyInv`), how long raw record pointers are kept (`GotInv`),
what keeps a descriptor open (`FdInv`), that a wait which publishes its pipe to
signal senders is alone (`AloneInv`), and for events the statement from the end
of the scan on (`EventInv`). `NoEventLost` has the condition that a wait has room
for every record; the code does wake nobody for the rest otherwise (section 3).
`DestroyNeverStuck` needs, on top of this, at which steps `poll->lock` is held
(`LockInv`), that from the destroyer's write on there is a
byte in the pipe as long as somebody is inside (`PipeInv`: nobody reads the pipe any
more), and that a close which fell to a waiter is under way (`CloserInv`). Two
tasks that take the two locks in opposite orders meet in a state where one of them
gives way, which is the `trylock` of `poll_destroy`.

**FilePager_proofs.** `OneCacheHolds`, `RefsExactHolds`, `SleeperHasWakerHolds`,
`UndurableKeptHolds`, `FsyncDurableHolds`, `CleanPageIsFileHolds` and the
refinement of `CoherentFile`, `ImplementsFileHolds`. `HoldInv` says for every
label of a thread what it holds (`SeatInv`), which life a held pager has (`LifeInv`) and that reference counts
are numbers of holders (`RefsInv`); steps are grouped by what they do to the
holders. `PagerInv` adds `file_io_lock` (`LockInv`), the page under write-back
(`SnapInv`) and the host sync that is still owed (`UnsyncedInv`). For a sleeper
the argument is that one thread at most works on the end of a pager, that it
is awake, and that it notifies when the slot changes.
`DataInv` is about contents: which of page, copy and host file agree at each
label of a write (`WriteOf`), a change of size (`ResizeOf`) and a write-back
(`CopyOf`), what lies past the end (`TailInv`) and that clean pages are the host
file but for cells an operation has still to change (`CleanInv`). `OwedInv` is
about durability: a cell that an fsync owes is in the host file or in a dirty page
which nothing is about to call clean (`InPage`), and in a page the fsync has
still to visit or has copied (`FsyncOf`); a drain has all dirty pages ahead of it,
for nobody stores through a draining pager (`DrainOf`).
The refinement adds `CallInv`, what a thread has called and what its read has
found. Every step of the cache is shown to be one of `Call`, `Begin`, `Apply`,
`Store`, `Read` and `Return` of the file, or none of its business
(`FileStep`). Contents are compared cell by cell: page-in, write-back, drain,
the end of a pager and its revival may move a cell between page and host file
because the two agree there (`ContentKept`, from `CleanInv` and `TailInv`); a write or
a change of size gives the cells that are not resident their new value with the
host call and the others with the commit (`WriteRefines`, `ResizeRefines`,
`CommitWriteRefines`, `CommitResizeRefines`).
What is said of contents has the hypothesis
`~HoleWrites`; the run `file_hole` shows that they go wrong without it. That
copies are never taken for `None` is the assumption `CopyAssumption`.

**Only model-checked.** The liveness properties `SignalEndsWait`, `StoreEndsWait`,
`GroupExitCompletes`, `ExecEnds`, `EveryDeadlineSignalled`, `DeleteEnds` and
`DeadlineMakesReadable`: the prover has no rules for fairness. The properties of the
three runs that expect a violation are refuted, so there is nothing to prove. Every
other property of a run has a theorem.

## 6. Not modelled

Most of the repository's lines are tests, instruction emulation, the
dispatch of system calls and the conversion of their structures, path
walking and host file systems, and the Apple platform code: sequential or
bit-level code whose correctness is a matter of values and not of order, and
which the repository's unit tests compare with the real thing. The models
cover the parts where threads meet.

* Instruction emulation, ELF loading, conversion of guest structures, path
  walking, file systems.
* Key construction of futexes (which addresses are the same word), guest page
  faults, robust lists.
* ptrace; alternative stacks and signal frames; dispositions that change while
  a signal is pending.
* `PosixTimer`: `SIGEV_NONE`, and a `SIGEV_THREAD_ID` whose thread is gone (nothing is
  sent then).
* `ProcessTree`: exec by a thread that is not the leader (`kernel/task.c:785`; the
  caller takes the leader's pid and its place among the siblings; `ThreadGroup` has
  it for one process), processes that the host starts with a session of their own
  (`kernel/init.c:77`), waiting for stops and continues, `WNOHANG` and `WNOWAIT` (which change
  nothing in the tree), vfork's wait, controlling terminals, the end of pid 1.
* `Poll`: `host_only` registrations and `poll_wakeup_internal`, several
  registrations of one descriptor, combinations of edge and one-shot, the order
  of the list, the restart of listening sockets.
* `FilePager`: `sendfile` between two files (the order of two inode locks),
  `O_APPEND` and shared offsets, private mappings and copy on write, the LOADING
  state of a page (nobody but the holder of `file_io_lock` meets it).
* Terminals, sockets, page tables and TLBs: see the plan.
* `KTIME_MAX` saturation in `timerfd_forward_deadline`: model times are unbounded.
* Changes of resource limits while signals are queued.

## 7. Plan

The number of runs is kept small: a component whose invariants are proved gives
its run up or shares one with a module that composes it.

Done: `WaitFor`, `Futex`, `ThreadSignals`, `ThreadGroup`, `Timer` with
`PosixTimer`, `TimerFd` and `Timers`, `SignalQueue`, `FilePager` with
`CoherentFile`, `Poll`, `ProcessTree`; proofs of the safety properties of all of
them and of the refinement of `CoherentFile`, as section 5 says.

Next, in this order:

1. Abstract specifications for more modules: a condition wait as one atomic
   "release, sleep until signalled" (by `WaitFor`), a futex as a bag of waiters
   per word (by `Futex`), a timerfd as an eager counter of periods (by
   `TimerFd`), a queue as a bag of pending signals (by `SignalQueue`).
2. `RobustFutex`: `EXTENDS Futex`; a robust mutex as C libraries implement it
   (a waiter always leaves the WAITERS bit set), list and `list_op_pending`
   (`kernel/futex.c:1408`), death at every step. Property: no lock stays with a
   dead owner while somebody waits.
3. `Tty` and pty pairs (the lock dropped in `tty_echo`, `fs/tty.c:326`);
   `UnixScm` (collection of sockets in flight, `fs/sock.c:5195`); the Apple
   command session.
