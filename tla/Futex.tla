------------------------------- MODULE Futex -------------------------------
(***************************************************************************)
(* The futex core of kernel/futex.c: reference counted futex objects in a  *)
(* hash table, FIFO wait queues, FUTEX_WAIT, FUTEX_WAKE, FUTEX_REQUEUE and *)
(* futex_waitv, with timeouts, signals and allocation failures.            *)
(*                                                                         *)
(* Every critical section of the code runs under the global futex_lock, so *)
(* each is one action; wait_for gives the lock up while a thread sleeps    *)
(* and a thread that stops sleeping needs it again before it looks at its  *)
(* own wait record.  "asleep" and "ready" are the two sides of that gap.   *)
(* Keys are resolved futex keys: the translation of guest addresses to     *)
(* keys, and the page faults it can take, precede the critical section.    *)
(***************************************************************************)
EXTENDS Integers, Sequences, SequencesExt, FiniteSetsExt

CONSTANTS Waiters,  \* guest threads that wait
          Wakers,   \* guest threads that store, wake and requeue
          Keys,     \* futex keys (words of guest memory)
          Values,   \* contents of a word
          MaxVector,\* longest vector given to futex_waitv
          Calls,    \* sleeping calls each waiter makes: "wait", "waitv"
          Counts    \* wake and requeue limits passed by the guest

Threads == Waiters \cup Wakers

NoKey == <<>>
NoRecords == <<>>
Moved == <<>>
EINTR == -4
ETIMEDOUT == -110

ASSUME FutexAssumption ==
    /\ MaxVector \in Nat \ {0}
    /\ Calls \in [Waiters -> SUBSET {"wait", "waitv"}]
    /\ Counts \subseteq Nat
    /\ IsFiniteSet(Waiters) /\ IsFiniteSet(Wakers)
    /\ NoKey \notin Keys

VARIABLES word,     \* guest memory
          refcount, \* futex->refcount; 0: no object with this key exists
          queue,    \* futex->queue, a sequence of wait records <<thread, index>>
          state,    \* "run", "asleep" in wait_for, or "ready" to reacquire
          waitv,    \* whether the running call is futex_waitv
          asked,    \* history: the <<key, expected value>> of each record of
                    \* the running call, Moved once it was requeued
          futex,    \* futex[t][i]: the object of t's i-th wait record
          woken,    \* group.woken_index (0 for SIZE_MAX)
          err,      \* what wait_for returned
          returned, \* the result if the last step ended a wait, else 0
          owes      \* key whose waiters a thread is about to wake after a store

futexVars == <<word, refcount, queue, state, waitv, asked, futex, woken, err,
          returned, owes>>

recordVars == <<waitv, asked, futex>>

VectorsOf(call) == UNION {[1..n -> Keys \X Values] :
                              n \in 1..(IF call = "wait" THEN 1 ELSE MaxVector)}

FutexInit ==
    /\ word \in [Keys -> Values]
    /\ refcount = [k \in Keys |-> 0]
    /\ queue = [k \in Keys |-> <<>>]
    /\ state = [t \in Threads |-> "run"]
    /\ waitv = [t \in Threads |-> FALSE]
    /\ asked = [t \in Threads |-> NoRecords]
    /\ futex = [t \in Threads |-> NoRecords]
    /\ woken = [t \in Threads |-> 0]
    /\ err = [t \in Threads |-> 0]
    /\ returned = 0
    /\ owes = [t \in Threads |-> NoKey]

----------------------------------------------------------------------------
(* Objects and queues *)

Times(k, ks) == Cardinality({i \in DOMAIN ks : ks[i] = k})

\* futex_get_or_create_unlocked, and futex_put_unlocked, for each key of ks.
Get(refs, ks) == [k \in Keys |-> refs[k] + Times(k, ks)]
Put(refs, ks) == [k \in Keys |-> refs[k] - Times(k, ks)]

\* futex_get_or_create_unlocked can fail only when it has to allocate.
MayFailAt(ks, i) == refcount[ks[i]] = 0 /\ \A j \in 1..(i - 1) : ks[j] # ks[i]

\* The elements of q at the positions in S, in their order.
Rank(S, i) == Cardinality({j \in S : j <= i})
AtRank(S, n) == CHOOSE i \in S : Rank(S, i) = n
Select(q, S) == [n \in 1..Cardinality(S) |-> q[AtRank(S, n)]]

\* list_add_tail of every wait record, each on the queue of its object.
Enqueue(t, ks) ==
    [k \in Keys |-> queue[k] \o Select([i \in DOMAIN ks |-> <<t, i>>],
                                       {i \in DOMAIN ks : ks[i] = k})]

Unlink(records) ==
    [k \in Keys |-> Select(queue[k], {n \in DOMAIN queue[k] : queue[k][n] \notin records})]

\* Wrong variant: only the first record of a vector leaves its queue.
DequeueFirst(t) == Unlink({<<t, 1>>})

\* list_remove_safe for every wait record of t.
Dequeue(t) == Unlink({t} \X (1..MaxVector))

----------------------------------------------------------------------------
(* Guest code *)

\* A guest thread stores to a futex word; a thread that uses the futex as it
\* is meant to be used then wakes every waiter of that word.
Store(t, k, v) ==
    /\ state[t] = "run" /\ owes[t] = NoKey
    /\ word' = [word EXCEPT ![k] = v]
    /\ owes' = [owes EXCEPT ![t] = k]
    /\ returned' = 0
    /\ UNCHANGED <<refcount, queue, state, recordVars, woken, err>>

\* A call that fails, with EAGAIN or ENOMEM, before it had any effect.
Fail ==
    /\ returned' = 0
    /\ UNCHANGED <<word, refcount, queue, state, recordVars, woken, err, owes>>

----------------------------------------------------------------------------
(* FUTEX_WAIT and futex_waitv up to the sleep *)

\* A word no longer holds the expected value: EAGAIN without waiting.
WaitMismatch(t, vec) ==
    /\ state[t] = "run" /\ owes[t] = NoKey
    /\ \E i \in DOMAIN vec : word[vec[i][1]] # vec[i][2]
    /\ Fail

\* The allocation of the i-th object fails; the first i - 1 are put back.
WaitNoMemory(t, vec) ==
    /\ state[t] = "run" /\ owes[t] = NoKey
    /\ \A i \in DOMAIN vec : word[vec[i][1]] = vec[i][2]
    /\ LET ks == [i \in DOMAIN vec |-> vec[i][1]] IN
       \E i \in DOMAIN ks :
          /\ MayFailAt(ks, i)
          /\ refcount' = Put(Get(refcount, SubSeq(ks, 1, i - 1)), SubSeq(ks, 1, i - 1))
    /\ returned' = 0
    /\ UNCHANGED <<word, queue, state, recordVars, woken, err, owes>>

\* Wrong variant: the value is not compared under futex_lock.
WaitBeginUnchecked(t, vec, v) ==
    /\ state[t] = "run" /\ owes[t] = NoKey
    /\ LET ks == [i \in DOMAIN vec |-> vec[i][1]] IN
       /\ refcount' = Get(refcount, ks)
       /\ queue' = Enqueue(t, ks)
       /\ futex' = [futex EXCEPT ![t] = ks]
    /\ asked' = [asked EXCEPT ![t] = vec]
    /\ waitv' = [waitv EXCEPT ![t] = v]
    /\ woken' = [woken EXCEPT ![t] = 0]
    /\ state' = [state EXCEPT ![t] = "asleep"]
    /\ returned' = 0
    /\ UNCHANGED <<word, err, owes>>

\* Every word holds its expected value and every object exists: all wait
\* records are queued and the thread sleeps, futex_lock released.
WaitBegin(t, vec, v) ==
    /\ state[t] = "run" /\ owes[t] = NoKey
    /\ \A i \in DOMAIN vec : word[vec[i][1]] = vec[i][2]
    /\ LET ks == [i \in DOMAIN vec |-> vec[i][1]] IN
       /\ refcount' = Get(refcount, ks)
       /\ queue' = Enqueue(t, ks)
       /\ futex' = [futex EXCEPT ![t] = ks]
    /\ asked' = [asked EXCEPT ![t] = vec]
    /\ waitv' = [waitv EXCEPT ![t] = v]
    /\ woken' = [woken EXCEPT ![t] = 0]
    /\ state' = [state EXCEPT ![t] = "asleep"]
    /\ returned' = 0
    /\ UNCHANGED <<word, err, owes>>

----------------------------------------------------------------------------
(* The end of a sleep.  wait_for returns 0 (spuriously), ETIMEDOUT or      *)
(* EINTR (a call without a timeout just never times out); a notify is in   *)
(* Wakes below.                                                            *)

StopSleeping(t, e) ==
    /\ state[t] = "asleep"
    /\ err' = [err EXCEPT ![t] = e]
    /\ state' = [state EXCEPT ![t] = "ready"]
    /\ returned' = 0
    /\ UNCHANGED <<word, refcount, queue, recordVars, woken, owes>>

\* Leave the call with result r: every record leaves its queue and gives up
\* its reference, on the object REQUEUE may have moved it to.
Leave(t, r) ==
    /\ refcount' = Put(refcount, futex[t])
    /\ queue' = Dequeue(t)
    /\ returned' = r
    /\ state' = [state EXCEPT ![t] = "run"]
    /\ futex' = [futex EXCEPT ![t] = NoRecords]
    /\ asked' = [asked EXCEPT ![t] = NoRecords]
    /\ woken' = [woken EXCEPT ![t] = 0]
    /\ err' = [err EXCEPT ![t] = 0]
    /\ waitv' = [waitv EXCEPT ![t] = FALSE]
    /\ UNCHANGED <<word, owes>>

\* futex_wait_locked after wait_for: a wakeup wins over a timeout or a signal.
WaitEnd(t) ==
    /\ state[t] = "ready" /\ ~waitv[t]
    /\ Leave(t, IF woken[t] # 0 THEN 0 ELSE err[t])

\* The deadline is still ahead when a host wait of limited length has timed out
\* (INT32_MAX seconds, or a host clock that runs ahead): sleep again.  The loop
\* does not look at the woken index.
LongWaitAgain(t) ==
    /\ state[t] = "ready" /\ ~waitv[t]
    /\ err[t] = ETIMEDOUT
    /\ state' = [state EXCEPT ![t] = "asleep"]
    /\ err' = [err EXCEPT ![t] = 0]
    /\ returned' = 0
    /\ UNCHANGED <<word, refcount, queue, recordVars, woken, owes>>

\* Wrong variant: the error of wait_for is looked at before the woken index.
WaitvEndErrorFirst(t) ==
    /\ state[t] = "ready" /\ waitv[t]
    /\ \/ err[t] = 0 /\ woken[t] # 0 /\ Leave(t, woken[t])
       \/ err[t] # 0 /\ Leave(t, err[t])

\* The loop of futex_waitv_locked: a wakeup gives the index, a signal or a
\* passed deadline an error.
WaitvEnd(t) ==
    /\ state[t] = "ready" /\ waitv[t]
    /\ \/ woken[t] # 0 /\ Leave(t, woken[t])
       \/ woken[t] = 0 /\ err[t] # 0 /\ Leave(t, err[t])

\* A spurious return, or the end of a one second slice of a realtime timeout:
\* sleep again.
WaitvAgain(t) ==
    /\ state[t] = "ready" /\ waitv[t]
    /\ woken[t] = 0
    /\ err[t] # EINTR
    /\ state' = [state EXCEPT ![t] = "asleep"]
    /\ err' = [err EXCEPT ![t] = 0]
    /\ returned' = 0
    /\ UNCHANGED <<word, refcount, queue, recordVars, woken, owes>>

----------------------------------------------------------------------------
(* FUTEX_WAKE and FUTEX_REQUEUE *)

Atmost(n, q) == IF n < Len(q) THEN n ELSE Len(q)

\* wake_waiters_locked on the first n records of queue k.  A group with several
\* woken records keeps the last index; its other records stay queued.
Wakes(k, n) ==
    LET hit == SubSeq(queue[k], 1, Atmost(n, queue[k]))
        Hits(t) == {i \in DOMAIN hit : hit[i][1] = t}
    IN
    /\ woken' = [t \in Threads |->
                    IF Hits(t) = {} THEN woken[t] ELSE hit[Max(Hits(t))][2]]
    /\ state' = [t \in Threads |->
                    IF Hits(t) # {} /\ state[t] = "asleep" THEN "ready" ELSE state[t]]
    /\ err' = [t \in Threads |->
                    IF Hits(t) # {} /\ state[t] = "asleep" THEN 0 ELSE err[t]]

Rest(k, n) == SubSeq(queue[k], Atmost(n, queue[k]) + 1, Len(queue[k]))

\* FUTEX_WAKE; a FUTEX_REQUEUE onto the same key has the same effect.
FutexWake(t, k, n) ==
    /\ state[t] = "run" /\ owes[t] = NoKey
    /\ Wakes(k, n)
    /\ queue' = [queue EXCEPT ![k] = Rest(k, n)]
    /\ returned' = 0
    /\ UNCHANGED <<word, refcount, recordVars, owes>>

\* The wake of all waiters (INT_MAX) that follows a Store.
WakeAll(t) ==
    /\ state[t] = "run" /\ owes[t] # NoKey
    /\ Wakes(owes[t], Len(queue[owes[t]]))
    /\ queue' = [queue EXCEPT ![owes[t]] = <<>>]
    /\ owes' = [owes EXCEPT ![t] = NoKey]
    /\ returned' = 0
    /\ UNCHANGED <<word, refcount, recordVars>>

\* Records moved by a REQUEUE that wakes n and moves at most m.
Candidates(k, n, m) ==
    LET rest == Rest(k, n) IN SubSeq(rest, 1, Atmost(m, rest))

\* The target object cannot be allocated: nothing has been woken yet.
RequeueNoMemory(t, src, dst, n, m) ==
    /\ state[t] = "run" /\ owes[t] = NoKey
    /\ src # dst
    /\ Candidates(src, n, m) # <<>>
    /\ refcount[dst] = 0
    /\ Fail

\* Wrong variant: the moved references stay with the source object.
RequeueKeepsReference(t, src, dst, n, m) ==
    /\ state[t] = "run" /\ owes[t] = NoKey
    /\ src # dst
    /\ Wakes(src, n)
    /\ LET moved == Candidates(src, n, m)
           rest  == Rest(src, n)
       IN
       /\ queue' = [queue EXCEPT ![src] = SubSeq(rest, Len(moved) + 1, Len(rest)),
                                 ![dst] = @ \o moved]
       /\ futex' = [s \in Threads |-> [i \in DOMAIN futex[s] |->
                       IF <<s, i>> \in ToSet(moved) THEN dst ELSE futex[s][i]]]
       /\ asked' = [s \in Threads |-> [i \in DOMAIN asked[s] |->
                       IF <<s, i>> \in ToSet(moved) THEN Moved ELSE asked[s][i]]]
    /\ returned' = 0
    /\ UNCHANGED <<word, refcount, waitv, owes>>

\* requeue_futex_locked with two different keys: wake n, then move the next m
\* to the tail of the target together with their references.
Requeue(t, src, dst, n, m) ==
    /\ state[t] = "run" /\ owes[t] = NoKey
    /\ src # dst
    /\ Wakes(src, n)
    /\ LET moved == Candidates(src, n, m)
           rest  == Rest(src, n)
       IN
       /\ queue' = [queue EXCEPT ![src] = SubSeq(rest, Len(moved) + 1, Len(rest)),
                                 ![dst] = @ \o moved]
       /\ refcount' = [refcount EXCEPT ![src] = @ - Len(moved), ![dst] = @ + Len(moved)]
       /\ futex' = [s \in Threads |-> [i \in DOMAIN futex[s] |->
                       IF <<s, i>> \in ToSet(moved) THEN dst ELSE futex[s][i]]]
       /\ asked' = [s \in Threads |-> [i \in DOMAIN asked[s] |->
                       IF <<s, i>> \in ToSet(moved) THEN Moved ELSE asked[s][i]]]
    /\ returned' = 0
    /\ UNCHANGED <<word, waitv, owes>>

----------------------------------------------------------------------------

FutexNext ==
    \/ \E t \in Waiters :
          \/ \E call \in Calls[t] : \E vec \in VectorsOf(call) :
                \/ WaitMismatch(t, vec)
                \/ WaitNoMemory(t, vec)
                \/ WaitBegin(t, vec, call = "waitv")
          \/ \E e \in {0, ETIMEDOUT, EINTR} : StopSleeping(t, e)
          \/ WaitEnd(t)
          \/ LongWaitAgain(t)
          \/ WaitvEnd(t)
          \/ WaitvAgain(t)
    \/ \E t \in Wakers :
          \/ \E k \in Keys, v \in Values : Store(t, k, v)
          \/ WakeAll(t)
          \/ \E k \in Keys, n \in Counts : FutexWake(t, k, n)
          \/ \E src, dst \in Keys, n, m \in Counts :
                \/ RequeueNoMemory(t, src, dst, n, m)
                \/ Requeue(t, src, dst, n, m)

FutexSpec == FutexInit /\ [][FutexNext]_futexVars

(***************************************************************************)
(* Fairness: a thread that stopped sleeping gets futex_lock and leaves; a  *)
(* guest thread that stored issues its wake.  Nothing is assumed of        *)
(* timeouts, signals or further calls.                                     *)
(***************************************************************************)
FutexFairness ==
    /\ \A t \in Waiters : WF_futexVars(WaitEnd(t) \/ WaitvEnd(t))
    /\ \A t \in Wakers : WF_futexVars(WakeAll(t))

FutexFairSpec == FutexSpec /\ FutexFairness

----------------------------------------------------------------------------
(* Properties *)

Waiting(t) == state[t] # "run"

\* The wait records that name the object of k.
Naming(k) == {w \in Threads \X (1..MaxVector) :
                 w[2] \in DOMAIN futex[w[1]] /\ futex[w[1]][w[2]] = k}

\* futex->refcount counts exactly the wait records that name the object, so an
\* object is neither freed under a waiter (REQUEUE moves references between
\* objects while the owner sleeps) nor leaked by an error path.
RefcountExact == \A k \in Keys : refcount[k] = Cardinality(Naming(k))

\* Queues and wait records agree: a queued record is queued once, on the object
\* its owner will put, only a wakeup takes a record out of its queue while the
\* owner waits, and an owner so woken does not sleep again in futex_waitv.
QueueExact ==
    /\ \A k \in Keys :
          /\ IsInjective(queue[k])
          /\ \A w \in ToSet(queue[k]) :
                /\ Waiting(w[1])
                /\ w[2] \in DOMAIN futex[w[1]]
                /\ futex[w[1]][w[2]] = k
    /\ \A t \in Threads :
          /\ \A i \in DOMAIN futex[t] :
                woken[t] = 0 => <<t, i>> \in ToSet(queue[futex[t][i]])
          /\ state[t] = "asleep" /\ waitv[t] => woken[t] = 0

\* Objects, queues and wait records agree through every interleaving of wakes,
\* requeues and waiters that give up.
ObjectsExact == RefcountExact /\ QueueExact

\* A record sleeps on a word that does not have the value it expected, and its
\* thread was not woken.
Outdated(t, i) ==
    /\ state[t] = "asleep" /\ woken[t] = 0 /\ i \in DOMAIN asked[t] /\ asked[t][i] # Moved
    /\ word[asked[t][i][1]] # asked[t][i][2]

\* FUTEX_WAIT's promise: comparing and queueing are one step for every waker.
\* A thread that sleeps on a word which no longer has the value it expected has
\* been woken or is about to be, by the thread that changed it.
NoMissedWake ==
    \A t \in Waiters, i \in 1..MaxVector :
       Outdated(t, i) => \E s \in Wakers : owes[s] = asked[t][i][1]

\* A wakeup spent on a thread is never hidden by a timeout or a signal that it
\* raced with: the woken thread reports success.
WakeNotSwallowed ==
    [][\A t \in Waiters :
          state[t] = "ready" /\ woken[t] # 0 /\ state'[t] = "run" => returned' >= 0]_futexVars

\* After a store and its wake, a thread that was waiting for the old value
\* leaves the wait, unless it was moved to another futex.  A FUTEX_WAIT
\* woken in the gap after a timeout of the host may sleep on to its deadline.
StoreEndsWait ==
    \A t \in Waiters, i \in 1..MaxVector :
       Outdated(t, i) ~> \/ state[t] = "run"
                         \/ i \in DOMAIN asked[t] /\ asked[t][i] = Moved
                         \/ ~waitv[t] /\ woken[t] # 0 /\ err[t] = ETIMEDOUT
=============================================================================
