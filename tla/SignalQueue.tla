---------------------------- MODULE SignalQueue ----------------------------
(***************************************************************************)
(* The queues of pending signals: kernel/signal-queue.c and the taking     *)
(* half of kernel/signal-delivery.c.                                       *)
(*                                                                         *)
(* Every task and every thread group has a pending set, a list of siginfo  *)
(* nodes and two sets of signals that are pending without a node           *)
(* ("bit only": the node could not be allocated or charged).  A node is    *)
(* charged to the account of a uid, and the accounts are shared by all     *)
(* processes under pending_accounts_lock, while a process's own queues are *)
(* protected by its sighand lock.  So an operation of one process is a     *)
(* short sequence of steps (allocate, charge, link; or unlink, release)    *)
(* which the operations of the other processes may interleave with.        *)
(*                                                                         *)
(* A list is the set of its nodes; a node carries a stamp, and the order   *)
(* of the list is the order of the stamps (list_add_tail).                 *)
(***************************************************************************)
EXTENDS Integers, FiniteSets

CONSTANTS
    Procs,        \* processes, each with its sighand lock
    Uids,         \* real uids that nodes are charged to
    Signals,      \* the signal numbers in use
    SIGKILL,
    SIGRTMIN,     \* signals below are standard signals
    Synchronous,  \* SIGNAL_SYNCHRONOUS_MASK
    Senders,      \* bound: which senders there are, as <<queue, signal, timer>>,
                  \* timer: it is a POSIX timer (SI_TIMER)
    Limit,        \* RLIMIT_SIGPENDING of each process
    MaxNodes      \* bound: nodes allocated in a behaviour

ASSUME QueueAssumption ==
    /\ IsFiniteSet(Procs)
    /\ Signals \subseteq Nat
    /\ SIGKILL \in Nat
    /\ SIGRTMIN \in Nat
    /\ SIGKILL < SIGRTMIN
    /\ Synchronous \subseteq Signals
    /\ Limit \in [Procs -> Nat]
    /\ MaxNodes \in Nat

VARIABLES
    pending,         \* [Queues -> set of signals]
    bit_only,        \* pending without a node, not from a timer
    timer_bit_only,  \* pending without a node, from a POSIX timer
    queue,           \* [Queues -> set of nodes]
    account,         \* [Uids -> Nat], 0: no account is linked
    request,         \* the node a process has allocated and not yet charged, if any
    held,            \* nodes charged to an account but in no list
    linking,         \* the process is about to link (not release) what it holds
    last,            \* history: stamp of the last node taken, per queue and signal
    stamp            \* stamp of the next node

qvars == <<pending, bit_only, timer_bit_only, queue>>
vars == <<qvars, account, request, held, linking, last, stamp>>

Policies == {"FORCE", "LEGACY", "EXPLICIT"}

\* task->pending and group->shared_pending of each process.
Queues == Procs \X {"task", "group"}
Owner(q) == q[1]
QueuesOf(p) == {q \in Queues : Owner(q) = p}

Requests == {r \in [queue : Queues, sig : Signals, timer : BOOLEAN,
                    policy : Policies, uid : Uids] :
                <<r.queue, r.sig, r.timer>> \in Senders}

\* struct sigqueue.  limited: the charge was subject to RLIMIT_SIGPENDING.
Nodes == [id : Nat, queue : Queues, sig : Signals, timer : BOOLEAN,
          limited : BOOLEAN, uid : Uids]

Standard(sig) == sig < SIGRTMIN

NodesOf(q, sig) == {n \in queue[q] : n.sig = sig}

\* Wrong variant: the newest node first.
FirstIsNewest(q, sig) ==
    {n \in NodesOf(q, sig) : \A m \in NodesOf(q, sig) : n.id >= m.id}

\* find_queued_signal: the first node of the list with that signal, if any.
First(q, sig) ==
    {n \in NodesOf(q, sig) : \A m \in NodesOf(q, sig) : n.id <= m.id}

\* The sighand lock of p is free: no operation on p's queues is under way.
Idle(p) == request[p] = {} /\ held[p] = {}

Init ==
    /\ pending = [q \in Queues |-> {}]
    /\ bit_only = [q \in Queues |-> {}]
    /\ timer_bit_only = [q \in Queues |-> {}]
    /\ queue = [q \in Queues |-> {}]
    /\ account = [u \in Uids |-> 0]
    /\ request = [p \in Procs |-> {}]
    /\ held = [p \in Procs |-> {}]
    /\ linking = [p \in Procs |-> FALSE]
    /\ last = [q \in Queues |-> [s \in Signals |-> -1]]
    /\ stamp = 0

----------------------------------------------------------------------------
(* enqueue_signal_locked *)

\* The two sets that record where a signal without a node came from.
AddBit(q, sig, timer) ==
    /\ pending' = [pending EXCEPT ![q] = @ \union {sig}]
    /\ bit_only' = [bit_only EXCEPT
            ![q] = (@ \ {sig}) \union (IF timer THEN {} ELSE {sig})]
    /\ timer_bit_only' = [timer_bit_only EXCEPT
            ![q] = (@ \ {sig}) \union (IF timer THEN {sig} ELSE {})]

\* The same for a real-time signal, whose earlier bits stay.
AddAnotherBit(q, sig, timer) ==
    /\ pending' = [pending EXCEPT ![q] = @ \union {sig}]
    /\ bit_only' = [bit_only EXCEPT
            ![q] = @ \union (IF timer THEN {} ELSE {sig})]
    /\ timer_bit_only' = [timer_bit_only EXCEPT
            ![q] = @ \union (IF timer THEN {sig} ELSE {})]

\* enqueue_without_node: sigqueue() reports EAGAIN, everyone else keeps the
\* bit.  A standard signal that is already pending is replaced here (FORCE).
WithoutNode(r) ==
    /\ r.policy = "EXPLICIT" => UNCHANGED <<pending, bit_only, timer_bit_only>>
    /\ r.policy # "EXPLICIT" =>
          IF Standard(r.sig)
          THEN AddBit(r.queue, r.sig, r.timer)
          ELSE AddAnotherBit(r.queue, r.sig, r.timer)

\* SIGKILL never has a node; the bit remembers the first sender only.
EnqueueKill(r) ==
    /\ r.sig = SIGKILL
    /\ IF SIGKILL \in pending[r.queue]
       THEN UNCHANGED <<pending, bit_only, timer_bit_only>>
       ELSE AddBit(r.queue, SIGKILL, r.timer)
    /\ UNCHANGED <<queue, account, request, held, linking, last, stamp>>

\* A pending standard signal absorbs the new one, unless FORCE brings the
\* siginfo that the pending one lacks.
Coalesces(r) ==
    /\ Standard(r.sig)
    /\ r.sig \in pending[r.queue]
    /\ r.policy # "FORCE" \/ NodesOf(r.queue, r.sig) # {}

EnqueueCoalesced(r) ==
    /\ r.sig # SIGKILL
    /\ Coalesces(r)
    /\ UNCHANGED vars

\* malloc of the node fails.
EnqueueNoMemory(r) ==
    /\ r.sig # SIGKILL
    /\ ~Coalesces(r)
    /\ WithoutNode(r)
    /\ UNCHANGED <<queue, account, request, held, linking, last, stamp>>

\* malloc of the node succeeds; the charge follows.
EnqueueAllocated(r) ==
    /\ r.sig # SIGKILL
    /\ ~Coalesces(r)
    /\ stamp < MaxNodes
    /\ request' = [request EXCEPT ![Owner(r.queue)] = {r}]
    /\ UNCHANGED <<qvars, account, held, linking, last, stamp>>

Enqueue(p) ==
    /\ Idle(p)
    /\ \E r \in Requests :
        /\ Owner(r.queue) = p
        /\ \/ EnqueueKill(r)
           \/ EnqueueCoalesced(r)
           \/ EnqueueNoMemory(r)
           \/ EnqueueAllocated(r)

Limited(r) ==
    ~(r.policy = "FORCE" \/ (r.policy = "LEGACY" /\ Standard(r.sig)))

\* Wrong variant: the limit is compared with the process's own nodes.
OverOwnLimit(r) ==
    /\ Limited(r)
    /\ Cardinality(UNION {queue[q] : q \in QueuesOf(Owner(r.queue))}) >= Limit[Owner(r.queue)]

\* charge_pending refuses: the limit is reached (with no account linked the
\* count is 0).
OverLimit(r) == Limited(r) /\ account[r.uid] >= Limit[Owner(r.queue)]

\* charge_pending fails: over the limit, or no memory for a new account.
ChargeFails(p) ==
    /\ \E r \in request[p] :
        /\ OverLimit(r) \/ account[r.uid] = 0
        /\ WithoutNode(r)
    /\ request' = [request EXCEPT ![p] = {}]
    /\ UNCHANGED <<queue, account, held, linking, last, stamp>>

\* charge_pending succeeds: the count goes up under pending_accounts_lock
\* before the node is linked.
Charge(p) ==
    /\ stamp < MaxNodes
    /\ \E r \in request[p] :
        /\ ~OverLimit(r)
        /\ account' = [account EXCEPT ![r.uid] = @ + 1]
        /\ held' = [held EXCEPT ![p] =
              {[id |-> stamp, queue |-> r.queue, sig |-> r.sig,
                timer |-> r.timer, limited |-> Limited(r), uid |-> r.uid]}]
    /\ request' = [request EXCEPT ![p] = {}]
    /\ linking' = [linking EXCEPT ![p] = TRUE]
    /\ stamp' = stamp + 1
    /\ UNCHANGED <<qvars, last>>

\* The node replaces the fallback bits of a standard signal and is linked.
Link(p) ==
    /\ linking[p]
    /\ \E n \in held[p] :
        /\ queue' = [queue EXCEPT ![n.queue] = @ \union {n}]
        /\ pending' = [pending EXCEPT ![n.queue] = @ \union {n.sig}]
        /\ LET replaced == IF Standard(n.sig) THEN {n.sig} ELSE {} IN
            /\ bit_only' = [bit_only EXCEPT ![n.queue] = @ \ replaced]
            /\ timer_bit_only' =
                  [timer_bit_only EXCEPT ![n.queue] = @ \ replaced]
    /\ held' = [held EXCEPT ![p] = {}]
    /\ linking' = [linking EXCEPT ![p] = FALSE]
    /\ UNCHANGED <<account, request, last, stamp>>

----------------------------------------------------------------------------
(* Removing *)

\* Wrong variant: the nodes are freed and their account is not told.
UnlinkUncharged(p, nodes) ==
    /\ queue' = [q \in Queues |-> queue[q] \ nodes]
    /\ UNCHANGED <<held, account, request, linking, stamp>>

\* The nodes leave the lists of p; signal_queue_release follows for each.
Unlink(p, nodes) ==
    /\ queue' = [q \in Queues |-> queue[q] \ nodes]
    /\ held' = [held EXCEPT ![p] = nodes]
    /\ UNCHANGED <<account, request, linking, stamp>>

\* signal_queue_release: the account loses one node, and is freed at 0.
Release(p) ==
    /\ ~linking[p]
    /\ \E n \in held[p] :
        /\ account' = [account EXCEPT ![n.uid] = @ - 1]
        /\ held' = [held EXCEPT ![p] = @ \ {n}]
    /\ UNCHANGED <<qvars, request, linking, last, stamp>>

\* Synchronous faults first, then the lowest number.
Selected(available) ==
    LET chosen == IF available \intersect Synchronous # {}
                  THEN available \intersect Synchronous
                  ELSE available
    IN CHOOSE s \in chosen : \A t \in chosen : s <= t

\* dequeue_pending_locked: the pending bit stays while another node or a
\* fallback bit of the signal remains.
TakeNode(q, sig) ==
    /\ \E n \in First(q, sig) :
        /\ Unlink(Owner(q), {n})
        /\ pending' = [pending EXCEPT ![q] =
              IF NodesOf(q, sig) = {n} /\ sig \notin bit_only[q] \union timer_bit_only[q]
              THEN @ \ {sig} ELSE @]
        /\ last' = [last EXCEPT ![q][sig] = n.id]
    /\ UNCHANGED <<bit_only, timer_bit_only>>

\* No node: the bits are consumed and a default siginfo is delivered.
TakeBit(q, sig) ==
    /\ NodesOf(q, sig) = {}
    /\ pending' = [pending EXCEPT ![q] = @ \ {sig}]
    /\ bit_only' = [bit_only EXCEPT ![q] = @ \ {sig}]
    /\ timer_bit_only' = [timer_bit_only EXCEPT ![q] = @ \ {sig}]
    /\ UNCHANGED <<queue, account, request, held, linking, last, stamp>>

\* signal_take_unblocked_locked: the task's own queue before the group's.
Take(p) ==
    /\ Idle(p)
    /\ \E blocked \in SUBSET Signals :
        LET own == pending[<<p, "task">>] \ blocked
            shared == pending[<<p, "group">>] \ blocked
            q == <<p, IF own # {} THEN "task" ELSE "group">>
            available == IF own # {} THEN own ELSE shared
        IN /\ available # {}
           /\ \/ TakeNode(q, Selected(available))
              \/ TakeBit(q, Selected(available))

\* Wrong variant: the fallback bits survive the discard.
DiscardKeepsBits(p, sig) ==
    /\ Idle(p)
    /\ Unlink(p, UNION {NodesOf(q, sig) : q \in QueuesOf(p)})
    /\ pending' = [q \in Queues |-> IF Owner(q) = p THEN pending[q] \ {sig} ELSE pending[q]]
    /\ UNCHANGED <<bit_only, timer_bit_only, last>>

\* discard_group_signal_locked: a job control signal, or an action that
\* becomes "ignore", removes the signal everywhere in the process.
Discard(p, sig) ==
    /\ Idle(p)
    /\ Unlink(p, UNION {NodesOf(q, sig) : q \in QueuesOf(p)})
    /\ pending' = [q \in Queues |-> IF Owner(q) = p THEN pending[q] \ {sig} ELSE pending[q]]
    /\ bit_only' = [q \in Queues |-> IF Owner(q) = p THEN bit_only[q] \ {sig} ELSE bit_only[q]]
    /\ timer_bit_only' = [q \in Queues |->
          IF Owner(q) = p THEN timer_bit_only[q] \ {sig} ELSE timer_bit_only[q]]
    /\ UNCHANGED last

\* signal_flush_pending, signal_flush_group_pending: the exit of a task, and
\* of the last task of the group.
Flush(q) ==
    /\ Idle(Owner(q))
    /\ Unlink(Owner(q), queue[q])
    /\ pending' = [pending EXCEPT ![q] = {}]
    /\ bit_only' = [bit_only EXCEPT ![q] = {}]
    /\ timer_bit_only' = [timer_bit_only EXCEPT ![q] = {}]
    /\ UNCHANGED last

TimerNodes(q) == {n \in queue[q] : n.timer}

\* flush_timer_queue_locked: what stays pending in q once the timers' nodes
\* and bits are gone.
AfterTimerFlush(q) ==
    LET removed == timer_bit_only[q] \union {n.sig : n \in TimerNodes(q)}
        remaining == {n.sig : n \in queue[q] \ TimerNodes(q)}
    IN pending[q] \ (removed \ (remaining \union bit_only[q]))

\* signal_flush_exec_timer_pending: exec drops the signals of the timers that
\* died with the old image.
FlushTimers(p) ==
    /\ Idle(p)
    /\ Unlink(p, UNION {TimerNodes(q) : q \in QueuesOf(p)})
    /\ pending' = [q \in Queues |->
          IF Owner(q) = p THEN AfterTimerFlush(q) ELSE pending[q]]
    /\ timer_bit_only' = [q \in Queues |->
          IF Owner(q) = p THEN {} ELSE timer_bit_only[q]]
    /\ UNCHANGED <<bit_only, last>>

----------------------------------------------------------------------------
Next ==
    \/ \E p \in Procs :
        \/ Enqueue(p)
        \/ Charge(p)
        \/ ChargeFails(p)
        \/ Link(p)
        \/ Release(p)
        \/ Take(p)
        \/ \E sig \in Signals : Discard(p, sig)
        \/ FlushTimers(p)
    \/ \E q \in Queues : Flush(q)

Spec == Init /\ [][Next]_vars

----------------------------------------------------------------------------
(* Properties *)

AllNodes ==
    (UNION {queue[q] : q \in Queues}) \union (UNION {held[p] : p \in Procs})
Charged(u) == {n \in AllNodes : n.uid = u}

\* Every variable keeps its type; in particular the count of an account never
\* goes below zero (the assertion in signal_queue_release).
TypeOK ==
    /\ pending \in [Queues -> SUBSET Signals]
    /\ bit_only \in [Queues -> SUBSET Signals]
    /\ timer_bit_only \in [Queues -> SUBSET Signals]
    /\ queue \in [Queues -> SUBSET Nodes]
    /\ account \in [Uids -> Nat]
    /\ request \in [Procs -> SUBSET Requests]
    /\ held \in [Procs -> SUBSET Nodes]
    /\ linking \in [Procs -> BOOLEAN]
    /\ last \in [Queues -> [Signals -> Int]]
    /\ stamp \in Nat

\* The pending set says exactly what the queue holds: a signal is pending iff
\* it has a node or a fallback bit.  A bit too many makes a poll loop spin on
\* nothing and delivers a made-up SI_USER signal; a bit too few strands a node
\* that nothing will ever look at (dequeue_pending_locked, flush_timer_queue_locked).
PendingExact ==
    \A q \in Queues :
        pending[q] = {n.sig : n \in queue[q]} \union bit_only[q] \union timer_bit_only[q]

\* The account of a uid counts exactly the nodes charged to it, whichever
\* process queued them and however the processes' operations interleave: no
\* leaked charge locks the uid out of sigqueue(), and no account is freed
\* while a node still points to it (charge_pending, signal_queue_release).
AccountExact == \A u \in Uids : account[u] = Cardinality(Charged(u))

\* The nodes of a uid's account that were charged no later than n.
ChargedBy(u, n) == {m \in Charged(u) : m.id <= n.id}

\* RLIMIT_SIGPENDING: a node that the limit applies to was charged within the limit
\* of its process, counting what any process had queued for the same uid by then,
\* also when several processes charge and release the account at the same time
\* (charge_pending checks and counts in one section).
LimitRespected ==
    \A u \in Uids : \A n \in Charged(u) :
        n.limited => Cardinality(ChargedBy(u, n)) <= Limit[Owner(n.queue)]

\* A standard signal is pending at most once in a queue: one node or one
\* fallback bit, never both, also after a FORCE enqueue replaced a bit and
\* after one that failed half-way (enqueue_signal_locked).
StandardOnce ==
    \A q \in Queues : \A s \in {t \in Signals : Standard(t)} :
        /\ \A n, m \in NodesOf(q, s) : n = m
        /\ NodesOf(q, s) # {} => s \notin bit_only[q] \union timer_bit_only[q]
        /\ s \notin bit_only[q] \intersect timer_bit_only[q]

\* Nodes of one signal leave a queue in the order they entered it, whatever
\* takes, discards and flushes happen in between (POSIX real-time signals).
FifoPerSignal ==
    \A q \in Queues : \A n \in queue[q] : last[q][n.sig] < n.id
=============================================================================
