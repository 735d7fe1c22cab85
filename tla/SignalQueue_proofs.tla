------------------------- MODULE SignalQueue_proofs -------------------------
(***************************************************************************)
(* Proofs about SignalQueue, for every set of processes, uids and signals  *)
(* and every limit: the pending sets are exact, a standard signal is       *)
(* pending once, the accounts count exactly the live nodes, and instances  *)
(* of one signal are taken in the order in which they were sent.           *)
(***************************************************************************)
EXTENDS SignalQueue, FiniteSetTheorems, TLAPS

\* TypeOK without the sign of the accounts, which follows from AccountExact.
Typed ==
    /\ pending \in [Queues -> SUBSET Signals]
    /\ bit_only \in [Queues -> SUBSET Signals]
    /\ timer_bit_only \in [Queues -> SUBSET Signals]
    /\ queue \in [Queues -> SUBSET Nodes]
    /\ account \in [Uids -> Int]
    /\ request \in [Procs -> SUBSET Requests]
    /\ held \in [Procs -> SUBSET Nodes]
    /\ linking \in [Procs -> BOOLEAN]
    /\ last \in [Queues -> [Signals -> Int]]
    /\ stamp \in Nat

\* A node is in one place: the list it was made for, or the hands of the
\* process whose list that is.
Places ==
    /\ \A q \in Queues : \A n \in queue[q] : n.queue = q /\ n.id < stamp
    /\ \A p \in Procs : \A n \in held[p] :
          Owner(n.queue) = p /\ n.id < stamp /\ n \notin queue[n.queue]

\* What the sighand lock guarantees to an enqueue that is under way: the
\* check for a pending standard signal is still valid at the link.
LockOf(p) ==
    /\ request[p] # {} => held[p] = {}
    /\ linking[p] => \E n \in Nodes : held[p] = {n}
    /\ \A r \in request[p] :
          /\ Owner(r.queue) = p
          /\ Standard(r.sig) => NodesOf(r.queue, r.sig) = {}
    /\ linking[p] => \A n \in held[p] :
          Standard(n.sig) => NodesOf(n.queue, n.sig) = {}

Lock == \A p \in Procs : LockOf(p)

\* AccountExact, and the counted sets are finite.
Accounts ==
    \A u \in Uids :
        /\ IsFiniteSet(Charged(u))
        /\ account[u] = Cardinality(Charged(u))

\* PendingExact and StandardOnce, signal by signal.
SignalOK(q, s) ==
    /\ s \in pending[q] <=>
          NodesOf(q, s) # {} \/ s \in bit_only[q] \/ s \in timer_bit_only[q]
    /\ Standard(s) =>
          /\ \A n, m \in NodesOf(q, s) : n = m
          /\ NodesOf(q, s) # {} => s \notin bit_only[q] /\ s \notin timer_bit_only[q]
          /\ ~(s \in bit_only[q] /\ s \in timer_bit_only[q])

Bits == \A q \in Queues, s \in Signals : SignalOK(q, s)

QueueInv == Typed /\ Places /\ Lock /\ Bits /\ Accounts

\* What the removing operations have in common: nodes of p's lists move into
\* p's hands.
Removes(p, S) ==
    /\ Idle(p)
    /\ Unlink(p, S)
    /\ \A n \in S : \E q \in QueuesOf(p) : n \in queue[q]

USE DEF qvars

\* What a request names.
LEMMA RequestFields ==
    \A r \in Requests : /\ r.queue \in Queues /\ r.sig \in Signals
                        /\ r.timer \in BOOLEAN /\ r.uid \in Uids
BY DEF Requests

\* The initial state satisfies the inductive invariant.
LEMMA InvInit == Init => QueueInv
<1> SUFFICES ASSUME Init PROVE QueueInv
  OBVIOUS
<1>1. Typed
  BY DEF Init, Typed
<1>2. Places /\ Lock /\ Bits
  BY DEF Init, Places, Lock, Bits, SignalOK, NodesOf, LockOf
<1>3. Accounts
  <2>1. AllNodes = {}
    BY DEF Init, AllNodes
  <2>2. \A u \in Uids : Charged(u) = {} /\ account[u] = 0
    BY <2>1 DEF Init, Charged
  <2>3. QED
    BY <2>2, FS_EmptySet DEF Accounts
<1>4. QED
  BY <1>1, <1>2, <1>3 DEF QueueInv

\* Typing is preserved by every step.
LEMMA TypeStep == Typed /\ [Next]_vars => Typed'
<1> SUFFICES ASSUME Typed, [Next]_vars PROVE Typed'
  OBVIOUS
<1> USE DEF Typed
<1>00. ASSUME NEW q \in Queues, NEW sig \in Signals, NEW timer, AddBit(q, sig, timer)
       PROVE  /\ pending' \in [Queues -> SUBSET Signals]
              /\ bit_only' \in [Queues -> SUBSET Signals]
              /\ timer_bit_only' \in [Queues -> SUBSET Signals]
  <2>1. CASE timer
    BY <1>00, <2>1 DEF AddBit
  <2>2. CASE ~timer
    BY <1>00, <2>2 DEF AddBit
  <2>3. QED
    BY <2>1, <2>2
<1>0. ASSUME NEW r \in Requests, WithoutNode(r)
      PROVE  /\ pending' \in [Queues -> SUBSET Signals]
             /\ bit_only' \in [Queues -> SUBSET Signals]
             /\ timer_bit_only' \in [Queues -> SUBSET Signals]
  <2>1. r.queue \in Queues /\ r.sig \in Signals
    BY DEF Requests
  <2>2. CASE r.policy = "EXPLICIT"
    BY <1>0, <2>2 DEF WithoutNode
  <2>3. CASE AddBit(r.queue, r.sig, r.timer)
    BY <2>1, <2>3, <1>00
  <2>4. CASE AddAnotherBit(r.queue, r.sig, r.timer)
    BY <2>1, <2>4 DEF AddAnotherBit
  <2>5. QED
    BY <1>0, <2>2, <2>3, <2>4 DEF WithoutNode
<1>01. ASSUME NEW p \in Procs, NEW S, Removes(p, S)
       PROVE  /\ queue' \in [Queues -> SUBSET Nodes]
              /\ held' \in [Procs -> SUBSET Nodes]
              /\ account' \in [Uids -> Int]
              /\ request' \in [Procs -> SUBSET Requests]
              /\ linking' \in [Procs -> BOOLEAN]
              /\ stamp' \in Nat
  <2>1. S \subseteq Nodes
    BY <1>01 DEF Removes, QueuesOf
  <2>2. QED
    BY <1>01, <2>1 DEF Removes, Unlink
<1>1. ASSUME NEW p \in Procs, Enqueue(p) PROVE Typed'
  <2>1. PICK r \in Requests : /\ Owner(r.queue) = p
                             /\ \/ EnqueueKill(r) \/ EnqueueCoalesced(r)
                                \/ EnqueueNoMemory(r) \/ EnqueueAllocated(r)
    BY <1>1 DEF Enqueue
  <2>2. CASE EnqueueKill(r)
    <3>1. CASE SIGKILL \in pending[r.queue]
      BY <2>2, <3>1 DEF EnqueueKill
    <3>2. CASE SIGKILL \notin pending[r.queue]
      BY <2>2, <3>2, <1>00 DEF EnqueueKill, Requests
    <3>3. QED
      BY <3>1, <3>2
  <2>3. CASE EnqueueCoalesced(r)
    BY <2>3 DEF EnqueueCoalesced, vars
  <2>4. CASE EnqueueNoMemory(r)
    BY <2>4, <1>0 DEF EnqueueNoMemory
  <2>5. CASE EnqueueAllocated(r)
    BY <2>5 DEF EnqueueAllocated
  <2>6. QED
    BY <2>1, <2>2, <2>3, <2>4, <2>5
<1>2. ASSUME NEW p \in Procs, Charge(p) PROVE Typed'
  <2>1. PICK r \in request[p] :
          /\ account' = [account EXCEPT ![r.uid] = @ + 1]
          /\ held' = [held EXCEPT ![p] =
               {[id |-> stamp, queue |-> r.queue, sig |-> r.sig,
                 timer |-> r.timer, limited |-> Limited(r), uid |-> r.uid]}]
    BY <1>2 DEF Charge
  <2>2. r \in Requests /\ r.timer \in BOOLEAN /\ Limited(r) \in BOOLEAN
    BY <2>1, QueueAssumption DEF Requests, Limited
  <2>3. [id |-> stamp, queue |-> r.queue, sig |-> r.sig, timer |-> r.timer,
         limited |-> Limited(r), uid |-> r.uid] \in Nodes
    BY <2>2 DEF Requests, Nodes
  <2>4. account' \in [Uids -> Int] /\ held' \in [Procs -> SUBSET Nodes]
    BY <2>1, <2>2, <2>3 DEF Requests
  <2>5. QED
    BY <1>2, <2>4 DEF Charge
<1>3. ASSUME NEW p \in Procs, ChargeFails(p) PROVE Typed'
  <2>1. PICK r \in request[p] : WithoutNode(r)
    BY <1>3 DEF ChargeFails
  <2>2. QED
    BY <1>3, <2>1, <1>0 DEF ChargeFails
<1>4. ASSUME NEW p \in Procs, Link(p) PROVE Typed'
  BY <1>4 DEF Link, Nodes
<1>5. ASSUME NEW p \in Procs, Release(p) PROVE Typed'
  BY <1>5 DEF Release, Nodes
<1>6. ASSUME NEW p \in Procs, Take(p) PROVE Typed'
  <2>0. PICK q \in QueuesOf(p) : \E s : TakeNode(q, s) \/ TakeBit(q, s)
    BY <1>6 DEF Take, QueuesOf, Queues, Owner
  <2>1. PICK sig : TakeNode(q, sig) \/ TakeBit(q, sig)
    BY <2>0
  <2>2. CASE TakeBit(q, sig)
    BY <2>2 DEF TakeBit
  <2>3. CASE TakeNode(q, sig)
    <3>1. PICK n \in First(q, sig) : /\ Unlink(Owner(q), {n})
                                    /\ last' = [last EXCEPT ![q][sig] = n.id]
      BY <2>3 DEF TakeNode
    <3>2. n \in queue[q] /\ n \in Nodes /\ n.id \in Int /\ n.sig = sig
      BY <3>1 DEF First, NodesOf, QueuesOf, Nodes
    <3>3. Removes(p, {n})
      BY <1>6, <2>1, <3>1, <3>2 DEF Take, Removes, QueuesOf
    <3>4. last' \in [Queues -> [Signals -> Int]]
      BY <3>1, <3>2 DEF QueuesOf, Nodes
    <3>5. QED
      BY <2>3, <3>3, <3>4, <1>01 DEF TakeNode
  <2>4. QED
    BY <2>1, <2>2, <2>3
<1>7. ASSUME NEW p \in Procs, NEW sig \in Signals, Discard(p, sig) PROVE Typed'
  <2>1. Removes(p, UNION {NodesOf(q, sig) : q \in QueuesOf(p)})
    BY <1>7 DEF Discard, Removes, NodesOf
  <2>2. QED
    BY <1>7, <2>1, <1>01 DEF Discard
<1>8. ASSUME NEW p \in Procs, FlushTimers(p) PROVE Typed'
  <2>1. Removes(p, UNION {TimerNodes(q) : q \in QueuesOf(p)})
    BY <1>8 DEF FlushTimers, Removes, TimerNodes
  <2>2. QED
    BY <1>8, <2>1, <1>01 DEF FlushTimers, AfterTimerFlush
<1>9. ASSUME NEW q \in Queues, Flush(q) PROVE Typed'
  <2>1. Removes(Owner(q), queue[q]) /\ Owner(q) \in Procs
    BY <1>9 DEF Flush, Removes, QueuesOf, Queues, Owner
  <2>2. QED
    BY <1>9, <2>1, <1>01 DEF Flush
<1>10. CASE UNCHANGED vars
  BY <1>10 DEF vars
<1>11. QED
  BY <1>1, <1>2, <1>3, <1>4, <1>5, <1>6, <1>7, <1>8, <1>9, <1>10 DEF Next

\* Taking a node, discarding and flushing only move nodes of the process's own
\* lists into its hands.
LEMMA RemovingActions ==
    ASSUME Typed, NEW p \in Procs
    PROVE  /\ \A q \in QueuesOf(p) : \A sig : Idle(p) /\ TakeNode(q, sig) =>
                 \E n \in First(q, sig) : Removes(p, {n})
           /\ \A sig : Discard(p, sig) =>
                 Removes(p, UNION {NodesOf(q, sig) : q \in QueuesOf(p)})
           /\ FlushTimers(p) => Removes(p, UNION {TimerNodes(q) : q \in QueuesOf(p)})
           /\ \A q \in QueuesOf(p) : Flush(q) => Removes(p, queue[q])
<1>1. ASSUME NEW q \in QueuesOf(p), NEW sig, Idle(p), TakeNode(q, sig)
      PROVE  \E n \in First(q, sig) : Removes(p, {n})
  BY <1>1, ZenonT(60) DEF TakeNode, First, NodesOf, Removes, QueuesOf
<1>2. ASSUME NEW sig, Discard(p, sig)
      PROVE  Removes(p, UNION {NodesOf(q, sig) : q \in QueuesOf(p)})
  BY <1>2 DEF Discard, Removes, NodesOf
<1>3. ASSUME FlushTimers(p)
      PROVE  Removes(p, UNION {TimerNodes(q) : q \in QueuesOf(p)})
  BY <1>3 DEF FlushTimers, Removes, TimerNodes
<1>4. ASSUME NEW q \in QueuesOf(p), Flush(q) PROVE Removes(p, queue[q])
  BY <1>4 DEF Flush, Removes, QueuesOf
<1>5. QED
  BY <1>1, <1>2, <1>3, <1>4

\* A live node is in a list or in the hands of a process.
InQueue(n) == \E q \in Queues : n \in queue[q]
InHand(n) == \E p \in Procs : n \in held[p]

\* Membership in AllNodes, before a step.
LEMMA AllNodesMember == \A n : n \in AllNodes <=> InQueue(n) \/ InHand(n)
<1> TAKE n
<1> DEFINE queued == UNION {queue[q] : q \in Queues}
           inHand == UNION {held[p] : p \in Procs}
<1>1. n \in queued <=> \E q \in Queues : n \in queue[q]
  BY Zenon
<1>2. n \in inHand <=> \E p \in Procs : n \in held[p]
  BY Zenon
<1>3. AllNodes = queued \union inHand
  BY Zenon DEF AllNodes
<1> HIDE DEF queued, inHand
<1>4. n \in AllNodes <=> n \in queued \/ n \in inHand
  BY <1>3
<1>5. QED
  BY <1>1, <1>2, <1>4 DEF InQueue, InHand

\* Membership in AllNodes, after a step.
LEMMA AllNodesMemberNext ==
    \A n : n \in AllNodes' <=> InQueue(n)' \/ InHand(n)'
<1> TAKE n
<1> DEFINE queued == UNION {queue'[q] : q \in Queues}
           inHand == UNION {held'[p] : p \in Procs}
<1>1. n \in queued <=> \E q \in Queues : n \in queue'[q]
  BY Zenon
<1>2. n \in inHand <=> \E p \in Procs : n \in held'[p]
  BY Zenon
<1>3. AllNodes' = queued \union inHand
  BY Zenon DEF AllNodes
<1> HIDE DEF queued, inHand
<1>4. n \in AllNodes' <=> n \in queued \/ n \in inHand
  BY <1>3
<1>5. QED
  BY <1>1, <1>2, <1>4 DEF InQueue, InHand

\* If neither the nodes nor the accounts change, the accounts stay exact.
LEMMA AccountsSame ==
    ASSUME Accounts, AllNodes' = AllNodes, account' = account
    PROVE  Accounts'
<1>1. \A u \in Uids : Charged(u)' = Charged(u)
  BY DEF Charged
<1>2. QED
  BY <1>1 DEF Accounts

\* Removing keeps every node in one place and charged.
LEMMA RemoveStep ==
    ASSUME Typed, Places, Lock, Accounts,
           NEW p \in Procs, NEW S, Removes(p, S)
    PROVE  Places' /\ Lock' /\ Accounts' /\ AllNodes' \subseteq AllNodes
<1>1. /\ queue' = [q \in Queues |-> queue[q] \ S]
      /\ held' = [held EXCEPT ![p] = S]
      /\ held[p] = {} /\ request[p] = {}
      /\ UNCHANGED <<account, request, linking, stamp>>
  BY DEF Removes, Unlink, Idle
<1>2. \A n \in S : n.queue \in QueuesOf(p) /\ n \in queue[n.queue] /\ n.id < stamp
  BY DEF Removes, Places, QueuesOf
<1>3. Places'
  <2>1. ASSUME NEW q \in Queues, NEW n \in queue'[q]
        PROVE  n.queue = q /\ n.id < stamp'
    BY <1>1, <2>1 DEF Places
  <2>2. ASSUME NEW x \in Procs, NEW n \in held'[x]
        PROVE  Owner(n.queue) = x /\ n.id < stamp' /\ n \notin queue'[n.queue]
    <3>1. CASE x = p
      BY <1>1, <1>2, <2>2, <3>1 DEF QueuesOf, Typed
    <3>2. CASE x # p
      <4>1. n \in held[x] /\ n.queue \in Queues
        BY <1>1, <2>2, <3>2 DEF Typed, Nodes
      <4>2. QED
        BY <1>1, <4>1 DEF Places
    <3>3. QED
      BY <3>1, <3>2
  <2>3. QED
    BY <2>1, <2>2, Zenon DEF Places
<1>4. Lock'
  <2>1. \A q, sig : q \in Queues => NodesOf(q, sig)' \subseteq NodesOf(q, sig)
    BY <1>1 DEF NodesOf
  <2>2. \A x \in Procs : \A r \in request[x] : r.queue \in Queues
    BY RequestFields DEF Typed
  <2>3. \A x \in Procs : \A n \in held[x] : n.queue \in Queues
    BY DEF Typed, Nodes
  <2>4. ~linking[p]
    BY <1>1 DEF Lock, LockOf
  <2>5. LockOf(p)'
    BY <1>1, <2>4 DEF LockOf, Typed
  <2>6. ASSUME NEW x \in Procs, x # p PROVE LockOf(x)'
    <3>1. /\ held'[x] = held[x] /\ request'[x] = request[x]
          /\ linking'[x] = linking[x]
      BY <1>1, <2>6 DEF Typed
    <3>2. LockOf(x)
      BY DEF Lock
    <3>3. QED
      BY <2>1, <2>2, <2>3, <3>1, <3>2 DEF LockOf
  <2>7. QED
    BY <2>5, <2>6 DEF Lock
<1>5. AllNodes' = AllNodes
  <2>1. \A n : n \in AllNodes <=> InQueue(n) \/ InHand(n)
    BY AllNodesMember
  <2>2. \A n : n \in AllNodes' <=> InQueue(n)' \/ InHand(n)'
    BY AllNodesMemberNext
  <2>3. \A n : InQueue(n) => InQueue(n)' \/ InHand(n)'
    BY <1>1 DEF InQueue, InHand, Typed
  <2>4. \A n : InHand(n) => InHand(n)'
    BY <1>1 DEF InHand, Typed
  <2>5. \A n : InQueue(n)' => InQueue(n)
    BY <1>1 DEF InQueue
  <2>6. \A n : InHand(n)' => InQueue(n) \/ InHand(n)
    BY <1>1, <1>2 DEF InQueue, InHand, Typed, QueuesOf
  <2>7. QED
    BY <2>1, <2>2, <2>3, <2>4, <2>5, <2>6
<1>6. QED
  BY <1>1, <1>3, <1>4, <1>5, AccountsSame

\* If the nodes stay where they are, so do the invariants about them.
LEMMA NodesSame ==
    ASSUME Typed, Places, Lock, Accounts,
           UNCHANGED <<queue, account, held, linking, stamp>>,
           NEW p \in Procs, request' = [request EXCEPT ![p] = {}]
                            \/ request' = request
    PROVE  Places' /\ Lock' /\ Accounts' /\ AllNodes' \subseteq AllNodes
<1>1. Places'
  BY DEF Places
<1>2. \A q, sig : NodesOf(q, sig)' = NodesOf(q, sig)
  BY DEF NodesOf
<1>3. Lock'
  <2> SUFFICES ASSUME NEW x \in Procs PROVE LockOf(x)'
    BY DEF Lock
  <2>1. LockOf(x) /\ request'[x] \subseteq request[x]
    BY DEF Lock, Typed
  <2>2. QED
    BY <1>2, <2>1 DEF LockOf
<1>4. AllNodes' = AllNodes
  BY Zenon DEF AllNodes
<1>5. QED
  BY <1>1, <1>3, <1>4, AccountsSame

\* A charged node is new, and its account goes up by one.
LEMMA ChargeStep ==
    ASSUME Typed, Places, Lock, Accounts, NEW p \in Procs, Charge(p)
    PROVE  /\ Places' /\ Lock' /\ Accounts'
           /\ \E n \in Nodes :
                 /\ AllNodes' = AllNodes \union {n} /\ n \notin AllNodes
                 /\ Owner(n.queue) = p /\ n.id = stamp
                 /\ n.limited => account[n.uid] < Limit[p]
<1>1. PICK r \in request[p] :
        /\ ~OverLimit(r)
        /\ account' = [account EXCEPT ![r.uid] = @ + 1]
        /\ held' = [held EXCEPT ![p] =
             {[id |-> stamp, queue |-> r.queue, sig |-> r.sig,
               timer |-> r.timer, limited |-> Limited(r), uid |-> r.uid]}]
  BY DEF Charge
<1> DEFINE n == [id |-> stamp, queue |-> r.queue, sig |-> r.sig,
                 timer |-> r.timer, limited |-> Limited(r), uid |-> r.uid]
<1>2. /\ r.queue \in Queues /\ r.uid \in Uids /\ r.sig \in Signals
      /\ r.timer \in BOOLEAN /\ Limited(r) \in BOOLEAN
  BY RequestFields DEF Typed, Limited
<1>3. n \in Nodes /\ n.id = stamp /\ n.queue = r.queue /\ n.uid = r.uid /\ n.sig = r.sig
  BY <1>2 DEF Nodes, Typed
<1>4. /\ held[p] = {} /\ ~linking[p] /\ Owner(r.queue) = p
      /\ Standard(r.sig) => NodesOf(r.queue, r.sig) = {}
  BY DEF Lock, LockOf
<1>5. /\ held' = [held EXCEPT ![p] = {n}]
      /\ request' = [request EXCEPT ![p] = {}]
      /\ linking' = [linking EXCEPT ![p] = TRUE]
      /\ queue' = queue /\ stamp' = stamp + 1
  BY <1>1 DEF Charge
<1> HIDE DEF n
<1>6. \A q, sig : NodesOf(q, sig)' = NodesOf(q, sig)
  BY <1>5 DEF NodesOf
<1>7. Places'
  <2>0. \A m \in Nodes : m.id \in Nat
    BY DEF Nodes
  <2>1. ASSUME NEW q \in Queues, NEW m \in queue'[q]
        PROVE  m.queue = q /\ m.id < stamp'
    BY <1>5, <2>0, <2>1 DEF Places, Typed
  <2>2. ASSUME NEW x \in Procs, NEW m \in held'[x]
        PROVE  Owner(m.queue) = x /\ m.id < stamp' /\ m \notin queue'[m.queue]
    <3>1. CASE x = p
      BY <1>2, <1>3, <1>4, <1>5, <2>2, <3>1 DEF Places, Typed
    <3>2. CASE x # p
      BY <1>5, <2>0, <2>2, <3>2 DEF Places, Typed
    <3>3. QED
      BY <3>1, <3>2
  <2>3. QED
    BY <2>1, <2>2, Zenon DEF Places
<1>8. Lock'
  <2>1. LockOf(p)'
    BY <1>3, <1>4, <1>5, <1>6 DEF LockOf, Typed
  <2>2. ASSUME NEW x \in Procs, x # p PROVE LockOf(x)'
    <3>1. /\ held'[x] = held[x] /\ request'[x] = request[x]
          /\ linking'[x] = linking[x] /\ LockOf(x)
      BY <1>5, <2>2 DEF Typed, Lock
    <3>2. QED
      BY <1>6, <3>1 DEF LockOf
  <2>3. QED
    BY <2>1, <2>2 DEF Lock
<1>9. AllNodes' = AllNodes \union {n} /\ n \notin AllNodes
  <2>1. \A m : m \in AllNodes <=> InQueue(m) \/ InHand(m)
    BY AllNodesMember
  <2>2. \A m : m \in AllNodes' <=> InQueue(m)' \/ InHand(m)'
    BY AllNodesMemberNext
  <2>3. \A m : InQueue(m)' <=> InQueue(m)
    BY <1>5 DEF InQueue
  <2>4. \A m : InHand(m)' <=> InHand(m) \/ m = n
    BY <1>4, <1>5 DEF InHand, Typed
  <2>5. ~InQueue(n) /\ ~InHand(n)
    BY <1>3 DEF InQueue, InHand, Places, Typed
  <2>6. QED
    BY <2>1, <2>2, <2>3, <2>4, <2>5
<1>10. Accounts'
  <2> SUFFICES ASSUME NEW u \in Uids
               PROVE  /\ IsFiniteSet(Charged(u)')
                      /\ account'[u] = Cardinality(Charged(u)')
    BY DEF Accounts
  <2>1. IsFiniteSet(Charged(u)) /\ account[u] = Cardinality(Charged(u))
    BY DEF Accounts
  <2>2. CASE u = r.uid
    <3>1. Charged(u)' = Charged(u) \union {n} /\ n \notin Charged(u)
      BY <1>3, <1>9, <2>2 DEF Charged
    <3>2. account'[u] = account[u] + 1
      BY <1>1, <1>2, <2>2 DEF Typed
    <3>3. QED
      BY <2>1, <3>1, <3>2, FS_AddElement
  <2>3. CASE u # r.uid
    <3>1. Charged(u)' = Charged(u)
      BY <1>3, <1>9, <2>3 DEF Charged
    <3>2. account'[u] = account[u]
      BY <1>1, <1>2, <2>3 DEF Typed
    <3>3. QED
      BY <2>1, <3>1, <3>2
  <2>4. QED
    BY <2>2, <2>3
<1>11. n.limited => account[n.uid] < Limit[p]
  <2>1. n.limited = Limited(r)
    BY DEF n
  <2>2. Limited(r) => ~(account[r.uid] >= Limit[p])
    BY <1>1, <1>4 DEF OverLimit
  <2>3. account[r.uid] \in Int /\ Limit[p] \in Int
    BY <1>2, QueueAssumption DEF Typed
  <2>4. QED
    BY <1>2, <1>3, <2>1, <2>2, <2>3
<1>12. QED
  BY <1>3, <1>4, <1>7, <1>8, <1>9, <1>10, <1>11

\* A released node was counted once and is gone for good.
LEMMA ReleaseStep ==
    ASSUME Typed, Places, Lock, Accounts, NEW p \in Procs, Release(p)
    PROVE  Places' /\ Lock' /\ Accounts' /\ AllNodes' \subseteq AllNodes
<1>1. PICK n \in held[p] :
        /\ account' = [account EXCEPT ![n.uid] = @ - 1]
        /\ held' = [held EXCEPT ![p] = @ \ {n}]
  BY DEF Release
<1>2. /\ queue' = queue /\ request' = request /\ linking' = linking
      /\ stamp' = stamp /\ ~linking[p]
  BY DEF Release
<1>3. n \in Nodes /\ n.uid \in Uids /\ n.queue \in Queues
  BY DEF Typed, Nodes
<1>4. /\ Owner(n.queue) = p /\ n \notin queue[n.queue]
      /\ \A q \in Queues : \A m \in queue[q] : m.queue = q
      /\ \A x \in Procs : \A m \in held[x] : Owner(m.queue) = x
  BY DEF Places
<1>5. \A q, sig : NodesOf(q, sig)' = NodesOf(q, sig)
  BY <1>2 DEF NodesOf
<1>6. \A x \in Procs : held'[x] \subseteq held[x]
  BY <1>1 DEF Typed
<1>7. Places'
  BY <1>2, <1>6 DEF Places
<1>8. Lock'
  <2>1. LockOf(p)'
    BY <1>1, <1>2, <1>5 DEF LockOf, Lock, Typed
  <2>2. ASSUME NEW x \in Procs, x # p PROVE LockOf(x)'
    <3>1. held'[x] = held[x] /\ LockOf(x)
      BY <1>1, <2>2 DEF Typed, Lock
    <3>2. QED
      BY <1>2, <1>5, <3>1 DEF LockOf
  <2>3. QED
    BY <2>1, <2>2 DEF Lock
<1>9. AllNodes' = AllNodes \ {n} /\ n \in AllNodes
  <2>1. \A m : m \in AllNodes <=> InQueue(m) \/ InHand(m)
    BY AllNodesMember
  <2>2. \A m : m \in AllNodes' <=> InQueue(m)' \/ InHand(m)'
    BY AllNodesMemberNext
  <2>3. \A m : InQueue(m)' <=> InQueue(m)
    BY <1>2 DEF InQueue
  <2>4. ~InQueue(n) /\ InHand(n)
    BY <1>4 DEF InQueue, InHand
  <2>5. \A m : InHand(m)' => InHand(m) /\ m # n
    BY <1>1, <1>4 DEF InHand, Typed
  <2>6. \A m : InHand(m) /\ m # n => InHand(m)'
    BY <1>1 DEF InHand, Typed
  <2>7. QED
    BY <2>1, <2>2, <2>3, <2>4, <2>5, <2>6
<1>10. Accounts'
  <2> SUFFICES ASSUME NEW u \in Uids
               PROVE  /\ IsFiniteSet(Charged(u)')
                      /\ account'[u] = Cardinality(Charged(u)')
    BY DEF Accounts
  <2>1. IsFiniteSet(Charged(u)) /\ account[u] = Cardinality(Charged(u))
    BY DEF Accounts
  <2>2. CASE u = n.uid
    <3>1. Charged(u)' = Charged(u) \ {n} /\ n \in Charged(u)
      BY <1>9, <2>2 DEF Charged
    <3>2. account'[u] = account[u] - 1
      BY <1>1, <1>3, <2>2 DEF Typed
    <3>3. QED
      BY <2>1, <3>1, <3>2, FS_RemoveElement
  <2>3. CASE u # n.uid
    <3>1. Charged(u)' = Charged(u)
      BY <1>9, <2>3 DEF Charged
    <3>2. account'[u] = account[u]
      BY <1>1, <1>3, <2>3 DEF Typed
    <3>3. QED
      BY <2>1, <3>1, <3>2
  <2>4. QED
    BY <2>2, <2>3
<1>11. QED
  BY <1>7, <1>8, <1>9, <1>10

\* Linking moves the one node in hand to the list it was made for.
LEMMA LinkStep ==
    ASSUME Typed, Places, Lock, Accounts, NEW p \in Procs, Link(p)
    PROVE  Places' /\ Lock' /\ Accounts' /\ AllNodes' \subseteq AllNodes
<1>1. PICK n \in held[p] : queue' = [queue EXCEPT ![n.queue] = @ \union {n}]
  BY DEF Link
<1>2. /\ held' = [held EXCEPT ![p] = {}]
      /\ linking' = [linking EXCEPT ![p] = FALSE]
      /\ UNCHANGED <<account, request, stamp>>
  BY DEF Link
<1>3. held[p] = {n} /\ request[p] = {}
  BY DEF Link, Lock, LockOf
<1>4. n.queue \in Queues /\ Owner(n.queue) = p /\ n.id < stamp
  BY DEF Places, Typed, Nodes
<1>5. \A q \in Queues : q # n.queue => queue'[q] = queue[q]
  BY <1>1 DEF Typed
<1>6. queue'[n.queue] = queue[n.queue] \union {n}
  BY <1>1, <1>4 DEF Typed
<1>7. Places'
  <2>1. ASSUME NEW q \in Queues, NEW m \in queue'[q]
        PROVE  m.queue = q /\ m.id < stamp'
    BY <1>2, <1>4, <1>5, <1>6, <2>1 DEF Places
  <2>2. ASSUME NEW x \in Procs, NEW m \in held'[x]
        PROVE  Owner(m.queue) = x /\ m.id < stamp' /\ m \notin queue'[m.queue]
    <3>1. x # p /\ m \in held[x] /\ m.queue \in Queues
      BY <1>2, <2>2 DEF Typed, Nodes
    <3>2. Owner(m.queue) = x /\ m.id < stamp /\ m \notin queue[m.queue]
      BY <3>1 DEF Places
    <3>3. QED
      BY <1>2, <1>4, <1>5, <3>1, <3>2
  <2>3. QED
    BY <2>1, <2>2, Zenon DEF Places
<1>8. Lock'
  <2>1. LockOf(p)'
    BY <1>2, <1>3 DEF LockOf, Typed
  <2>2. ASSUME NEW x \in Procs, x # p PROVE LockOf(x)'
    <3>1. /\ held'[x] = held[x] /\ request'[x] = request[x]
          /\ linking'[x] = linking[x] /\ LockOf(x)
      BY <1>2, <2>2 DEF Typed, Lock
    <3>2. \A q \in Queues : \A sig : Owner(q) = x => NodesOf(q, sig)' = NodesOf(q, sig)
      BY <1>4, <1>5, <2>2 DEF NodesOf
    <3>3. \A m \in held[x] : m.queue \in Queues /\ Owner(m.queue) = x
      BY DEF Places, Typed, Nodes
    <3>4. \A r \in request[x] : r.queue \in Queues
      BY RequestFields DEF Typed
    <3>5. QED
      BY <3>1, <3>2, <3>3, <3>4 DEF LockOf
  <2>3. QED
    BY <2>1, <2>2 DEF Lock
<1>9. AllNodes' = AllNodes
  <2>1. \A m : m \in AllNodes <=> InQueue(m) \/ InHand(m)
    BY AllNodesMember
  <2>2. \A m : m \in AllNodes' <=> InQueue(m)' \/ InHand(m)'
    BY AllNodesMemberNext
  <2>3. \A m : InQueue(m)' <=> InQueue(m) \/ m = n
    BY <1>4, <1>5, <1>6 DEF InQueue
  <2>4. \A m : InHand(m) <=> InHand(m)' \/ m = n
    BY <1>2, <1>3 DEF InHand, Typed
  <2>5. QED
    BY <2>1, <2>2, <2>3, <2>4
<1>10. QED
  BY <1>2, <1>7, <1>8, <1>9, AccountsSame

\* An enqueue that gets its node finds no node of that standard signal.
LEMMA AllocatedStep ==
    ASSUME Typed, Places, Lock, Accounts, Bits, NEW p \in Procs, Idle(p),
           NEW r \in Requests, Owner(r.queue) = p, EnqueueAllocated(r)
    PROVE  Places' /\ Lock' /\ Accounts' /\ AllNodes' \subseteq AllNodes
<1>1. /\ request' = [request EXCEPT ![p] = {r}]
      /\ UNCHANGED <<queue, account, held, linking, stamp>>
  BY DEF EnqueueAllocated
<1>2. \A q, sig : NodesOf(q, sig)' = NodesOf(q, sig)
  BY <1>1 DEF NodesOf
<1>3. Standard(r.sig) => NodesOf(r.queue, r.sig) = {}
  BY DEF EnqueueAllocated, Coalesces, Bits, SignalOK, Requests
<1>4. Lock'
  <2>1. LockOf(p)'
    BY <1>1, <1>2, <1>3 DEF LockOf, Lock, Idle, Typed
  <2>2. ASSUME NEW x \in Procs, x # p PROVE LockOf(x)'
    <3>1. request'[x] = request[x] /\ LockOf(x)
      BY <1>1, <2>2 DEF Typed, Lock
    <3>2. QED
      BY <1>1, <1>2, <3>1 DEF LockOf
  <2>3. QED
    BY <2>1, <2>2 DEF Lock
<1>5. Places'
  BY <1>1 DEF Places
<1>6. AllNodes' = AllNodes
  BY <1>1 DEF AllNodes
<1>7. QED
  BY <1>1, <1>4, <1>5, <1>6, AccountsSame

\* Every step keeps the nodes in one place, locked and charged.
LEMMA NodeStep ==
    ASSUME QueueInv, [Next]_vars
    PROVE  /\ Places' /\ Lock' /\ Accounts'
           /\ AllNodes' \subseteq AllNodes \/ \E p \in Procs : Charge(p)
<1> DEFINE Goal == Places' /\ Lock' /\ Accounts' /\ AllNodes' \subseteq AllNodes
<1> USE DEF QueueInv
<1>1. ASSUME NEW p \in Procs, Enqueue(p) PROVE Goal
  <2>1. PICK r \in Requests : /\ Owner(r.queue) = p
                             /\ \/ EnqueueKill(r) \/ EnqueueCoalesced(r)
                                \/ EnqueueNoMemory(r) \/ EnqueueAllocated(r)
    BY <1>1 DEF Enqueue
  <2>2. CASE EnqueueKill(r) \/ EnqueueCoalesced(r) \/ EnqueueNoMemory(r)
    <3>1. UNCHANGED <<queue, account, held, linking, stamp, request>>
      BY <2>2 DEF EnqueueKill, EnqueueCoalesced, EnqueueNoMemory, vars
    <3>2. QED
      BY <3>1, NodesSame
  <2>3. CASE EnqueueAllocated(r)
    BY <1>1, <2>1, <2>3, AllocatedStep DEF Enqueue
  <2>4. QED
    BY <2>1, <2>2, <2>3
<1>2. ASSUME NEW p \in Procs, ChargeFails(p) PROVE Goal
  BY <1>2, NodesSame DEF ChargeFails
<1>3. ASSUME NEW p \in Procs, Take(p) PROVE Goal
  <2>0. PICK q \in QueuesOf(p) : \E s : TakeNode(q, s) \/ TakeBit(q, s)
    BY <1>3 DEF Take, QueuesOf, Queues, Owner
  <2>1. PICK sig : TakeNode(q, sig) \/ TakeBit(q, sig)
    BY <2>0
  <2>2. CASE TakeNode(q, sig)
    BY <1>3, <2>2, RemovingActions, RemoveStep DEF Take
  <2>3. CASE TakeBit(q, sig)
    BY <2>3, NodesSame DEF TakeBit
  <2>4. QED
    BY <2>1, <2>2, <2>3
<1>4. ASSUME NEW p \in Procs, NEW sig \in Signals, Discard(p, sig)
      PROVE  Goal
  BY <1>4, RemovingActions, RemoveStep
<1>5. ASSUME NEW p \in Procs, FlushTimers(p) PROVE Goal
  BY <1>5, RemovingActions, RemoveStep
<1>6. ASSUME NEW q \in Queues, Flush(q) PROVE Goal
  <2>1. Owner(q) \in Procs /\ q \in QueuesOf(Owner(q))
    BY DEF Queues, Owner, QueuesOf
  <2>2. Removes(Owner(q), queue[q])
    BY <1>6, <2>1, RemovingActions
  <2>3. QED
    BY <2>1, <2>2, RemoveStep
<1>7. CASE UNCHANGED vars
  <2>1. Places' /\ Lock'
    BY <1>7 DEF vars, Places, Lock, LockOf, NodesOf
  <2>2. AllNodes' = AllNodes /\ account' = account
    BY <1>7 DEF vars, AllNodes
  <2>3. QED
    BY <2>1, <2>2, AccountsSame
<1>8. QED
  BY <1>1, <1>2, <1>3, <1>4, <1>5, <1>6, <1>7,
     ChargeStep, ReleaseStep, LinkStep DEF Next

\* The pending bits after an enqueue that ends without a node.
LEMMA WithoutNodeStep ==
    ASSUME Typed, Bits, queue' = queue, NEW r \in Requests, WithoutNode(r),
           Standard(r.sig) => NodesOf(r.queue, r.sig) = {}
    PROVE  Bits'
<1>1. \A q, s : NodesOf(q, s)' = NodesOf(q, s)
  BY DEF NodesOf
<1>2. r.queue \in Queues /\ r.sig \in Signals
  BY DEF Requests
<1>3. CASE r.policy = "EXPLICIT"
  <2>1. UNCHANGED <<pending, bit_only, timer_bit_only>>
    BY <1>3 DEF WithoutNode
  <2>2. QED
    BY <1>1, <2>1 DEF Bits, SignalOK
<1>4. CASE r.policy # "EXPLICIT" /\ Standard(r.sig)
  <2>1. AddBit(r.queue, r.sig, r.timer)
    BY <1>4 DEF WithoutNode
  <2>2. CASE r.timer
    BY <1>1, <1>2, <1>4, <2>1, <2>2 DEF AddBit, Bits, SignalOK, Typed
  <2>3. CASE ~r.timer
    BY <1>1, <1>2, <1>4, <2>1, <2>3 DEF AddBit, Bits, SignalOK, Typed
  <2>4. QED
    BY <2>2, <2>3
<1>5. CASE r.policy # "EXPLICIT" /\ ~Standard(r.sig)
  <2>1. AddAnotherBit(r.queue, r.sig, r.timer)
    BY <1>5 DEF WithoutNode
  <2>2. CASE r.timer
    BY <1>1, <1>2, <1>5, <2>1, <2>2 DEF AddAnotherBit, Bits, SignalOK, Typed
  <2>3. CASE ~r.timer
    BY <1>1, <1>2, <1>5, <2>1, <2>3 DEF AddAnotherBit, Bits, SignalOK, Typed
  <2>4. QED
    BY <2>2, <2>3
<1>6. QED
  BY <1>3, <1>4, <1>5

\* The pending bits after an enqueue's first step.
LEMMA EnqueueBits ==
    ASSUME QueueInv, NEW p \in Procs, Enqueue(p)
    PROVE  Bits'
<1> USE DEF QueueInv
<1>1. PICK r \in Requests : /\ Owner(r.queue) = p
                           /\ \/ EnqueueKill(r) \/ EnqueueCoalesced(r)
                              \/ EnqueueNoMemory(r) \/ EnqueueAllocated(r)
  BY DEF Enqueue
<1>2. r.queue \in Queues /\ r.sig \in Signals
  BY DEF Requests
<1>3. CASE EnqueueKill(r)
  <2>1. CASE SIGKILL \in pending[r.queue]
    BY <1>3, <2>1 DEF EnqueueKill, Bits, SignalOK, NodesOf
  <2>2. CASE SIGKILL \notin pending[r.queue]
    <3>1. /\ AddBit(r.queue, r.sig, r.timer) /\ queue' = queue
          /\ r.sig \notin pending[r.queue]
      BY <1>3, <2>2 DEF EnqueueKill
    <3>2. \A q, s : NodesOf(q, s)' = NodesOf(q, s)
      BY <3>1 DEF NodesOf
    <3>3. CASE r.timer
      BY <1>2, <3>1, <3>2, <3>3 DEF AddBit, Bits, SignalOK, Typed
    <3>4. CASE ~r.timer
      BY <1>2, <3>1, <3>2, <3>4 DEF AddBit, Bits, SignalOK, Typed
    <3>5. QED
      BY <3>3, <3>4
  <2>3. QED
    BY <2>1, <2>2
<1>4. CASE EnqueueNoMemory(r)
  <2>1. Standard(r.sig) => NodesOf(r.queue, r.sig) = {}
    BY <1>2, <1>4 DEF EnqueueNoMemory, Coalesces, Bits, SignalOK
  <2>2. QED
    BY <1>4, <2>1, WithoutNodeStep DEF EnqueueNoMemory
<1>5. CASE EnqueueCoalesced(r) \/ EnqueueAllocated(r)
  <2>1. UNCHANGED <<pending, bit_only, timer_bit_only, queue>>
    BY <1>5 DEF EnqueueCoalesced, EnqueueAllocated, vars
  <2>2. QED
    BY <2>1 DEF Bits, SignalOK, NodesOf
<1>6. QED
  BY <1>1, <1>3, <1>4, <1>5

\* The pending bits after a node is linked.
LEMMA LinkBits ==
    ASSUME QueueInv, NEW p \in Procs, Link(p)
    PROVE  Bits'
<1> USE DEF QueueInv
<1>1. PICK n \in held[p] :
        /\ queue' = [queue EXCEPT ![n.queue] = @ \union {n}]
        /\ pending' = [pending EXCEPT ![n.queue] = @ \union {n.sig}]
        /\ LET replaced == IF Standard(n.sig) THEN {n.sig} ELSE {} IN
            /\ bit_only' = [bit_only EXCEPT ![n.queue] = @ \ replaced]
            /\ timer_bit_only' =
                  [timer_bit_only EXCEPT ![n.queue] = @ \ replaced]
  BY DEF Link
<1>2. n.queue \in Queues /\ n.sig \in Signals
  BY DEF Typed, Nodes
<1>3. Standard(n.sig) => NodesOf(n.queue, n.sig) = {}
  BY DEF Link, Lock, LockOf
<1>4. \A q \in Queues, s \in Signals : q # n.queue \/ s # n.sig =>
         NodesOf(q, s)' = NodesOf(q, s)
  BY <1>1, <1>2 DEF NodesOf, Typed
<1>5. NodesOf(n.queue, n.sig)' = NodesOf(n.queue, n.sig) \union {n}
  BY <1>1, <1>2 DEF NodesOf, Typed
<1>6. ASSUME NEW q \in Queues, NEW s \in Signals, q # n.queue \/ s # n.sig
      PROVE  SignalOK(q, s)'
  <2>1. /\ s \in pending'[q] <=> s \in pending[q]
        /\ s \in bit_only'[q] <=> s \in bit_only[q]
        /\ s \in timer_bit_only'[q] <=> s \in timer_bit_only[q]
    BY <1>1, <1>2, <1>6 DEF Typed
  <2>2. QED
    BY <1>4, <1>6, <2>1 DEF Bits, SignalOK
<1>7. SignalOK(n.queue, n.sig)'
  <2>1. CASE Standard(n.sig)
    BY <1>1, <1>2, <1>3, <1>5, <2>1 DEF SignalOK, Typed
  <2>2. CASE ~Standard(n.sig)
    BY <1>1, <1>2, <1>5, <2>2 DEF SignalOK, Typed
  <2>3. QED
    BY <2>1, <2>2
<1>8. QED
  BY <1>2, <1>6, <1>7 DEF Bits

\* The pending bits after a signal is taken.
LEMMA TakeBits ==
    ASSUME QueueInv, NEW p \in Procs, Take(p)
    PROVE  Bits'
<1> USE DEF QueueInv
<1>0. PICK q \in QueuesOf(p) : \E s : TakeNode(q, s) \/ TakeBit(q, s)
  BY DEF Take, QueuesOf, Queues, Owner
<1>1. PICK sig : TakeNode(q, sig) \/ TakeBit(q, sig)
  BY <1>0
<1>2. q \in Queues
  BY DEF QueuesOf
<1>3. CASE TakeBit(q, sig)
  <2>1. NodesOf(q, sig) = {} /\ \A x, s : NodesOf(x, s)' = NodesOf(x, s)
    BY <1>3 DEF TakeBit, NodesOf
  <2>2. QED
    BY <1>2, <1>3, <2>1 DEF TakeBit, Bits, SignalOK, Typed
<1>4. CASE TakeNode(q, sig)
  <2>1. PICK n \in First(q, sig) :
          /\ queue' = [x \in Queues |-> queue[x] \ {n}]
          /\ pending' = [pending EXCEPT ![q] =
               IF NodesOf(q, sig) = {n} /\ sig \notin bit_only[q] \union timer_bit_only[q]
               THEN @ \ {sig} ELSE @]
    BY <1>4 DEF TakeNode, Unlink
  <2>2. n \in queue[q] /\ n.sig = sig /\ n.queue = q /\ sig \in Signals
    BY <1>2, <2>1 DEF First, NodesOf, Places, Typed, Nodes
  <2>3. bit_only' = bit_only /\ timer_bit_only' = timer_bit_only
    BY <1>4 DEF TakeNode
  <2>4. \A x \in Queues, s \in Signals : x # q \/ s # sig =>
           NodesOf(x, s)' = NodesOf(x, s)
    BY <2>1, <2>2 DEF NodesOf, Places
  <2>5. NodesOf(q, sig)' = NodesOf(q, sig) \ {n} /\ n \in NodesOf(q, sig)
    BY <1>2, <2>1, <2>2 DEF NodesOf
  <2>6. ASSUME NEW x \in Queues, NEW s \in Signals, x # q \/ s # sig
        PROVE  SignalOK(x, s)'
    <3>1. s \in pending'[x] <=> s \in pending[x]
      BY <1>2, <2>1, <2>6 DEF Typed
    <3>2. QED
      BY <2>3, <2>4, <2>6, <3>1 DEF Bits, SignalOK
  <2>7. SignalOK(q, sig)'
    <3>1. SignalOK(q, sig)
      BY <1>2, <2>2 DEF Bits
    <3>2. CASE NodesOf(q, sig) = {n} /\ sig \notin bit_only[q] \union timer_bit_only[q]
      BY <1>2, <2>1, <2>3, <2>5, <3>1, <3>2 DEF SignalOK, Typed
    <3>3. CASE ~(NodesOf(q, sig) = {n} /\ sig \notin bit_only[q] \union timer_bit_only[q])
      <4>1. pending' = pending
        BY <1>2, <2>1, <3>3 DEF Typed
      <4>2. QED
        BY <2>3, <2>5, <3>1, <3>3, <4>1 DEF SignalOK
    <3>4. QED
      BY <3>2, <3>3
  <2>8. QED
    BY <2>6, <2>7 DEF Bits
<1>5. QED
  BY <1>1, <1>3, <1>4

\* The pending bits after a discard.
LEMMA DiscardBits ==
    ASSUME QueueInv, NEW p \in Procs, NEW sig \in Signals, Discard(p, sig)
    PROVE  Bits'
<1> USE DEF QueueInv
<1> DEFINE S == UNION {NodesOf(q, sig) : q \in QueuesOf(p)}
<1>1. \A n : n \in S <=> \E q \in QueuesOf(p) : n \in NodesOf(q, sig)
  OBVIOUS
<1>2. queue' = [q \in Queues |-> queue[q] \ S]
  BY DEF Discard, Unlink
<1> HIDE DEF S
<1>3. ASSUME NEW q \in Queues, NEW s \in Signals PROVE SignalOK(q, s)'
  <2>1. SignalOK(q, s)
    BY DEF Bits
  <2>2. CASE Owner(q) = p /\ s = sig
    <3>1. NodesOf(q, s)' = {}
      BY <1>1, <1>2, <2>2 DEF NodesOf, QueuesOf
    <3>2. s \notin pending'[q] /\ s \notin bit_only'[q] /\ s \notin timer_bit_only'[q]
      BY <2>2 DEF Discard
    <3>3. QED
      BY <3>1, <3>2 DEF SignalOK
  <2>3. CASE ~(Owner(q) = p /\ s = sig)
    <3>1. NodesOf(q, s)' = NodesOf(q, s)
      BY <1>1, <1>2, <2>3 DEF NodesOf, QueuesOf, Places
    <3>2. /\ s \in pending'[q] <=> s \in pending[q]
          /\ s \in bit_only'[q] <=> s \in bit_only[q]
          /\ s \in timer_bit_only'[q] <=> s \in timer_bit_only[q]
      BY <2>3 DEF Discard
    <3>3. QED
      BY <2>1, <3>1, <3>2 DEF SignalOK
  <2>4. QED
    BY <2>2, <2>3
<1>4. QED
  BY <1>3 DEF Bits

\* The pending bits after a flush at exit.
LEMMA FlushBits ==
    ASSUME QueueInv, NEW x \in Queues, Flush(x)
    PROVE  Bits'
<1> USE DEF QueueInv
<1>1. ASSUME NEW q \in Queues, NEW s \in Signals PROVE SignalOK(q, s)'
  <2>1. SignalOK(q, s)
    BY DEF Bits
  <2>2. CASE q = x
    <3>1. NodesOf(q, s)' = {} /\ pending'[q] = {} /\ bit_only'[q] = {}
          /\ timer_bit_only'[q] = {}
      BY <2>2 DEF Flush, Unlink, NodesOf, Typed
    <3>2. QED
      BY <3>1 DEF SignalOK
  <2>3. CASE q # x
    <3>1. NodesOf(q, s)' = NodesOf(q, s)
      BY <2>3 DEF Flush, Unlink, NodesOf, Places
    <3>2. /\ pending'[q] = pending[q] /\ bit_only'[q] = bit_only[q]
          /\ timer_bit_only'[q] = timer_bit_only[q]
      BY <2>3 DEF Flush, Typed
    <3>3. QED
      BY <2>1, <3>1, <3>2 DEF SignalOK
  <2>4. QED
    BY <2>2, <2>3
<1>2. QED
  BY <1>1 DEF Bits

\* The pending bits after exec dropped the signals of the timers.
LEMMA FlushTimersBits ==
    ASSUME QueueInv, NEW p \in Procs, FlushTimers(p)
    PROVE  Bits'
<1> USE DEF QueueInv
<1> DEFINE S == UNION {TimerNodes(q) : q \in QueuesOf(p)}
<1>1. \A n : n \in S <=> \E q \in QueuesOf(p) : n \in TimerNodes(q)
  OBVIOUS
<1>2. queue' = [q \in Queues |-> queue[q] \ S]
  BY DEF FlushTimers, Unlink
<1>3. bit_only' = bit_only
  BY DEF FlushTimers
<1> HIDE DEF S
<1>4. ASSUME NEW q \in Queues, NEW s \in Signals PROVE SignalOK(q, s)'
  <2>1. SignalOK(q, s)
    BY DEF Bits
  <2>2. CASE Owner(q) = p
    <3>1. NodesOf(q, s)' = {n \in NodesOf(q, s) : ~n.timer}
      BY <1>1, <1>2, <2>2 DEF NodesOf, TimerNodes, QueuesOf, Places
    <3>2. timer_bit_only'[q] = {} /\ pending'[q] = AfterTimerFlush(q)
      BY <2>2 DEF FlushTimers
    <3>3. s \in AfterTimerFlush(q) <=>
            /\ s \in pending[q]
            /\ ~(/\ s \in timer_bit_only[q] \/ \E n \in NodesOf(q, s) : n.timer
                 /\ ~\E n \in NodesOf(q, s) : ~n.timer
                 /\ s \notin bit_only[q])
      BY DEF AfterTimerFlush, TimerNodes, NodesOf
    <3>4. QED
      BY <1>3, <2>1, <3>1, <3>2, <3>3 DEF SignalOK
  <2>3. CASE Owner(q) # p
    <3>1. NodesOf(q, s)' = NodesOf(q, s)
      BY <1>1, <1>2, <2>3 DEF NodesOf, TimerNodes, QueuesOf, Places
    <3>2. pending'[q] = pending[q] /\ timer_bit_only'[q] = timer_bit_only[q]
      BY <2>3 DEF FlushTimers
    <3>3. QED
      BY <1>3, <2>1, <3>1, <3>2 DEF SignalOK
  <2>4. QED
    BY <2>2, <2>3
<1>5. QED
  BY <1>4 DEF Bits

\* Every step preserves the inductive invariant.
LEMMA InvStep == QueueInv /\ [Next]_vars => QueueInv'
<1> SUFFICES ASSUME QueueInv, [Next]_vars PROVE QueueInv'
  OBVIOUS
<1>1. Typed' /\ Places' /\ Lock' /\ Accounts'
  BY TypeStep, NodeStep DEF QueueInv
<1>2. Bits'
  <2>1. ASSUME NEW p \in Procs, ChargeFails(p) PROVE Bits'
    <3>1. PICK r \in request[p] : WithoutNode(r)
      BY <2>1 DEF ChargeFails
    <3>2. r \in Requests /\ (Standard(r.sig) => NodesOf(r.queue, r.sig) = {})
      BY DEF QueueInv, Typed, Lock, LockOf
    <3>3. QED
      BY <2>1, <3>1, <3>2, WithoutNodeStep DEF ChargeFails, QueueInv
  <2>2. ASSUME UNCHANGED <<pending, bit_only, timer_bit_only, queue>> PROVE Bits'
    BY <2>2 DEF QueueInv, Bits, SignalOK, NodesOf
  <2>3. ASSUME NEW p \in Procs, Charge(p) \/ Release(p) PROVE Bits'
    BY <2>2, <2>3 DEF Charge, Release
  <2>4. CASE UNCHANGED vars
    BY <2>2, <2>4 DEF vars
  <2>5. QED
    BY <2>1, <2>3, <2>4, EnqueueBits, LinkBits, TakeBits, DiscardBits,
       FlushBits, FlushTimersBits DEF Next
<1>3. QED
  BY <1>1, <1>2 DEF QueueInv

\* The inductive invariant holds in every reachable state.
THEOREM InvHolds == Spec => []QueueInv
BY InvInit, InvStep, PTL DEF Spec

\* The pending set of every queue says exactly what the queue holds, whatever
\* allocations and charges fail (PendingExact).
THEOREM PendingExactHolds == Spec => []PendingExact
<1>1. QueueInv => PendingExact
  <2> SUFFICES ASSUME QueueInv, NEW q \in Queues
               PROVE  pending[q] = {n.sig : n \in queue[q]}
                         \union bit_only[q] \union timer_bit_only[q]
    BY DEF PendingExact
  <2>1. \A n \in queue[q] : n.sig \in Signals
    BY DEF QueueInv, Typed, Nodes
  <2>2. /\ pending[q] \subseteq Signals /\ bit_only[q] \subseteq Signals
        /\ timer_bit_only[q] \subseteq Signals
    BY DEF QueueInv, Typed
  <2>3. \A s \in Signals : s \in pending[q] <=>
          (\E n \in queue[q] : n.sig = s) \/ s \in bit_only[q] \/ s \in timer_bit_only[q]
    BY DEF QueueInv, Bits, SignalOK, NodesOf
  <2>4. QED
    BY <2>1, <2>2, <2>3
<1>2. QED
  BY InvHolds, <1>1, PTL

\* A standard signal is pending at most once in a queue (StandardOnce).
THEOREM StandardOnceHolds == Spec => []StandardOnce
<1>1. QueueInv => StandardOnce
  BY DEF QueueInv, Bits, SignalOK, StandardOnce
<1>2. QED
  BY InvHolds, <1>1, PTL

\* The account of a uid counts exactly the nodes charged to it, for any number
\* of processes charging and releasing concurrently (AccountExact).
THEOREM AccountExactHolds == Spec => []AccountExact
<1>1. QueueInv => AccountExact
  BY DEF QueueInv, Accounts, AccountExact
<1>2. QED
  BY InvHolds, <1>1, PTL

\* Every variable keeps its type; no release takes an account below zero
\* (TypeOK).
THEOREM TypeCorrect == Spec => []TypeOK
<1>1. QueueInv => TypeOK
  <2> SUFFICES ASSUME QueueInv PROVE TypeOK
    OBVIOUS
  <2>1. \A u \in Uids : account[u] \in Nat
    BY FS_CardinalityType DEF QueueInv, Accounts
  <2>2. account \in [Uids -> Nat]
    BY <2>1 DEF QueueInv, Typed
  <2>3. QED
    BY <2>2 DEF QueueInv, Typed, TypeOK
<1>2. QED
  BY InvHolds, <1>1, PTL

\* A step that charges a node finds the account below the limit of its process; the
\* node is newer than the others, which keep the counts they had.
LEMMA LimitStep ==
    ASSUME QueueInv, LimitRespected, [Next]_vars
    PROVE  LimitRespected'
<1> SUFFICES ASSUME NEW u \in Uids, NEW n \in Charged(u)', n.limited
             PROVE  Cardinality(ChargedBy(u, n)') <= Limit[Owner(n.queue)]
  BY DEF LimitRespected
<1>1. /\ IsFiniteSet(Charged(u)) /\ Cardinality(Charged(u)) = account[u] /\ account[u] \in Int
  BY DEF QueueInv, Accounts, Typed
<1>2. ASSUME n \in Charged(u), ChargedBy(u, n)' \subseteq ChargedBy(u, n)
      PROVE  Cardinality(ChargedBy(u, n)') <= Limit[Owner(n.queue)]
  <2>1. n \in Nodes /\ Owner(n.queue) \in Procs /\ Limit[Owner(n.queue)] \in Nat
    BY <1>2, QueueAssumption DEF QueueInv, Typed, Charged, AllNodes, Nodes, Queues, Owner
  <2>2. IsFiniteSet(ChargedBy(u, n))
    BY <1>1, FS_Subset DEF ChargedBy
  <2>3. /\ IsFiniteSet(ChargedBy(u, n)')
        /\ Cardinality(ChargedBy(u, n)') <= Cardinality(ChargedBy(u, n))
    BY <1>2, <2>2, FS_Subset
  <2>4. Cardinality(ChargedBy(u, n)) \in Nat /\ Cardinality(ChargedBy(u, n)') \in Nat
    BY <2>2, <2>3, FS_CardinalityType
  <2>5. Cardinality(ChargedBy(u, n)) <= Limit[Owner(n.queue)]
    BY <1>2 DEF LimitRespected
  <2>6. QED
    BY <2>1, <2>3, <2>4, <2>5
<1>3. CASE AllNodes' \subseteq AllNodes
  BY <1>2, <1>3 DEF Charged, ChargedBy
<1>4. CASE \E x \in Procs : Charge(x)
  <2>1. PICK x \in Procs : Charge(x)
    BY <1>4
  <2>2. PICK new \in Nodes :
          /\ AllNodes' = AllNodes \union {new} /\ new \notin AllNodes
          /\ Owner(new.queue) = x /\ new.id = stamp
          /\ new.limited => account[new.uid] < Limit[x]
    BY <2>1, ChargeStep DEF QueueInv
  <2>3. CASE n = new
    <3>1. n.uid = u /\ Charged(u)' = Charged(u) \union {n} /\ n \notin Charged(u)
      BY <2>2, <2>3 DEF Charged
    <3>2. IsFiniteSet(Charged(u)') /\ Cardinality(Charged(u)') = account[u] + 1
      BY <1>1, <3>1, FS_AddElement
    <3>3. /\ IsFiniteSet(ChargedBy(u, n)')
          /\ Cardinality(ChargedBy(u, n)') <= Cardinality(Charged(u)')
      <4>1. ChargedBy(u, n)' \in SUBSET Charged(u)'
        BY DEF ChargedBy
      <4>2. QED
        BY <3>2, <4>1, FS_Subset
    <3>4. Cardinality(ChargedBy(u, n)') \in Nat /\ Limit[x] \in Nat
      BY <3>3, FS_CardinalityType, QueueAssumption
    <3>5. QED
      BY <1>1, <2>2, <2>3, <3>1, <3>2, <3>3, <3>4
  <2>4. CASE n # new
    <3>1. n \in Charged(u)
      BY <2>2, <2>4 DEF Charged
    <3>2. n.id \in Nat /\ n.id < stamp /\ stamp \in Nat
      BY <3>1 DEF QueueInv, Typed, Places, Charged, AllNodes, Nodes
    <3>3. ChargedBy(u, n)' \subseteq ChargedBy(u, n)
      BY <2>2, <3>2 DEF ChargedBy, Charged
    <3>4. QED
      BY <1>2, <3>1, <3>3
  <2>5. QED
    BY <2>3, <2>4
<1>5. QED
  BY <1>3, <1>4, NodeStep

\* charge_pending never lets a node that RLIMIT_SIGPENDING applies to exceed the limit
\* of its process, however many processes charge the same uid (LimitRespected).
THEOREM LimitRespectedHolds == Spec => []LimitRespected
<1>1. Init => LimitRespected
  <2> SUFFICES ASSUME Init PROVE LimitRespected
    OBVIOUS
  <2>1. AllNodes = {}
    BY DEF Init, AllNodes
  <2>2. QED
    BY <2>1 DEF LimitRespected, Charged
<1>2. QueueInv /\ LimitRespected /\ [Next]_vars => LimitRespected'
  BY LimitStep
<1>3. QED
  BY <1>1, <1>2, InvHolds, PTL DEF Spec

----------------------------------------------------------------------------
(* The order of the nodes *)

\* FifoPerSignal, and what it rests on: stamps only grow, no two nodes of a
\* list have the same stamp, and the node about to be linked is newer than
\* everything its queue holds or has given out.
FifoOf(q) ==
    /\ \A s \in Signals : last[q][s] < stamp
    /\ \A n \in queue[q] : last[q][n.sig] < n.id
    /\ \A n, m \in queue[q] : n.id = m.id => n = m
    /\ \A n \in held[Owner(q)] : linking[Owner(q)] /\ n.queue = q =>
          /\ last[q][n.sig] < n.id
          /\ \A m \in queue[q] : m.id < n.id

FifoInv == \A q \in Queues : FifoOf(q)

\* The order after a step that only removes nodes from the lists, or none.
LEMMA FifoShrinks ==
    ASSUME QueueInv, FifoInv, NEW q \in Queues,
           queue'[q] \subseteq queue[q], last'[q] = last[q], stamp' = stamp,
           linking'[Owner(q)] = linking[Owner(q)],
           linking[Owner(q)] => held'[Owner(q)] \subseteq held[Owner(q)]
    PROVE  FifoOf(q)'
BY DEF FifoInv, FifoOf

\* A take hands out the oldest node of its signal, so what is left is newer.
LEMMA FifoTake ==
    ASSUME QueueInv, FifoInv, NEW p \in Procs, Idle(p),
           NEW x \in QueuesOf(p), NEW sig, TakeNode(x, sig),
           NEW q \in Queues
    PROVE  FifoOf(q)'
<1> USE DEF QueueInv
<1>0. x \in Queues /\ Owner(x) = p
  BY DEF QueuesOf
<1>1. PICK n \in First(x, sig) :
        /\ Unlink(p, {n})
        /\ last' = [last EXCEPT ![x][sig] = n.id]
  BY <1>0 DEF TakeNode
<1>2. n \in queue[x] /\ n.sig = sig /\ sig \in Signals /\ n.id \in Nat /\ n.id < stamp
  BY <1>0, <1>1 DEF First, NodesOf, Typed, Nodes, Places
<1>3. \A m \in queue[x] : m.sig = sig => n.id <= m.id
  BY <1>1 DEF First, NodesOf
<1>4. /\ \A y \in Queues : queue'[y] = queue[y] \ {n}
      /\ stamp' = stamp /\ linking' = linking
      /\ held' = [held EXCEPT ![p] = {n}]
  BY <1>1 DEF Unlink
<1>5. ~linking[p]
  BY DEF Idle, Lock, LockOf
<1>6. CASE q # x
  <2>1. last'[q] = last[q]
    BY <1>0, <1>1, <1>6 DEF Typed
  <2>2. linking[Owner(q)] => held'[Owner(q)] = held[Owner(q)]
    BY <1>4, <1>5 DEF Typed, Queues, Owner
  <2>3. QED
    BY <1>4, <2>1, <2>2, FifoShrinks
<1>7. CASE q = x
  <2>1. /\ last'[q][sig] = n.id
        /\ \A s \in Signals : s # sig => last'[q][s] = last[q][s]
    BY <1>0, <1>1, <1>2, <1>7 DEF Typed
  <2>2. ASSUME NEW m \in queue'[q] PROVE last'[q][m.sig] < m.id
    <3>1. m \in queue[q] /\ m # n /\ m.sig \in Signals /\ m.id \in Nat
      BY <1>4, <2>2 DEF Typed, Nodes
    <3>2. CASE m.sig = sig
      <4>1. n.id <= m.id /\ n.id # m.id
        BY <1>2, <1>3, <1>7, <3>1, <3>2 DEF FifoInv, FifoOf
      <4>2. QED
        BY <1>2, <2>1, <3>1, <3>2, <4>1
    <3>3. CASE m.sig # sig
      BY <2>1, <3>1, <3>3 DEF FifoInv, FifoOf
    <3>4. QED
      BY <3>2, <3>3
  <2>3. \A s \in Signals : last'[q][s] < stamp'
    BY <1>2, <1>4, <2>1 DEF FifoInv, FifoOf
  <2>4. \A m, k \in queue'[q] : m.id = k.id => m = k
    BY <1>4 DEF FifoInv, FifoOf
  <2>5. ~linking'[Owner(q)]
    BY <1>0, <1>4, <1>5, <1>7
  <2>6. QED
    BY <2>2, <2>3, <2>4, <2>5 DEF FifoOf
<1>8. QED
  BY <1>6, <1>7

\* Every step preserves the order.
LEMMA FifoStep ==
    ASSUME QueueInv, FifoInv, [Next]_vars
    PROVE  FifoInv'
<1> USE DEF QueueInv
<1> SUFFICES ASSUME NEW q \in Queues PROVE FifoOf(q)'
  BY DEF FifoInv
<1>0. Owner(q) \in Procs
  BY DEF Queues, Owner
<1>1. ASSUME UNCHANGED <<queue, held, linking, last, stamp>> PROVE FifoOf(q)'
  BY <1>1, FifoShrinks
<1>2. ASSUME NEW p \in Procs, NEW S, Removes(p, S), last' = last PROVE FifoOf(q)'
  <2>1. /\ queue'[q] \subseteq queue[q] /\ stamp' = stamp /\ linking' = linking
        /\ held' = [held EXCEPT ![p] = S] /\ ~linking[p]
    BY <1>2 DEF Removes, Unlink, Idle, Lock, LockOf
  <2>2. linking[Owner(q)] => held'[Owner(q)] = held[Owner(q)]
    BY <1>0, <2>1 DEF Typed
  <2>3. QED
    BY <1>2, <2>1, <2>2, FifoShrinks
<1>3. ASSUME NEW p \in Procs, Enqueue(p) PROVE FifoOf(q)'
  BY <1>1, <1>3 DEF Enqueue, EnqueueKill, EnqueueCoalesced, EnqueueNoMemory,
       EnqueueAllocated, vars
<1>4. ASSUME NEW p \in Procs, Charge(p) PROVE FifoOf(q)'
  <2>1. PICK n \in Nodes : n.id = stamp /\ held' = [held EXCEPT ![p] = {n}]
    <3>1. PICK r \in request[p] : held' = [held EXCEPT ![p] =
              {[id |-> stamp, queue |-> r.queue, sig |-> r.sig,
                timer |-> r.timer, limited |-> Limited(r), uid |-> r.uid]}]
      BY <1>4 DEF Charge
    <3>2. r \in Requests
      BY DEF Typed
    <3>3. [id |-> stamp, queue |-> r.queue, sig |-> r.sig, timer |-> r.timer,
           limited |-> Limited(r), uid |-> r.uid] \in Nodes
      <4>1. /\ r.queue \in Queues /\ r.sig \in Signals /\ r.timer \in BOOLEAN
            /\ r.uid \in Uids
        BY <3>2, QueueAssumption DEF Requests
      <4>2. Limited(r) \in BOOLEAN /\ stamp \in Nat
        BY DEF Limited, Typed
      <4>3. QED
        BY <4>1, <4>2 DEF Nodes
    <3>4. QED
      BY <3>1, <3>3
  <2>2. /\ queue' = queue /\ last' = last /\ stamp' = stamp + 1
        /\ linking' = [linking EXCEPT ![p] = TRUE]
    BY <1>4 DEF Charge
  <2>3. /\ \A s \in Signals : last'[q][s] < stamp /\ last'[q][s] < stamp'
        /\ \A m \in queue'[q] : last'[q][m.sig] < m.id /\ m.id < stamp
        /\ \A m, k \in queue'[q] : m.id = k.id => m = k
    BY <2>2 DEF FifoInv, FifoOf, Places, Typed
  <2>4. CASE Owner(q) = p
    <3>1. held'[Owner(q)] = {n} /\ n.sig \in Signals
      BY <1>0, <2>1, <2>4 DEF Typed, Nodes
    <3>2. QED
      BY <2>1, <2>3, <3>1 DEF FifoOf
  <2>5. CASE Owner(q) # p
    <3>1. held'[Owner(q)] = held[Owner(q)] /\ linking'[Owner(q)] = linking[Owner(q)]
      BY <1>0, <2>1, <2>2, <2>5 DEF Typed
    <3>2. \A m \in held'[Owner(q)] : linking'[Owner(q)] /\ m.queue = q =>
             last'[q][m.sig] < m.id /\ \A k \in queue'[q] : k.id < m.id
      BY <2>2, <3>1 DEF FifoInv, FifoOf
    <3>3. QED
      BY <2>3, <3>2 DEF FifoOf
  <2>6. QED
    BY <2>4, <2>5
<1>5. ASSUME NEW p \in Procs, Link(p) PROVE FifoOf(q)'
  <2>1. PICK n \in held[p] : queue' = [queue EXCEPT ![n.queue] = @ \union {n}]
    BY <1>5 DEF Link
  <2>2. /\ last' = last /\ stamp' = stamp /\ linking[p]
        /\ held' = [held EXCEPT ![p] = {}] /\ linking' = [linking EXCEPT ![p] = FALSE]
    BY <1>5 DEF Link
  <2>3. n \in Nodes /\ Owner(n.queue) = p /\ n.queue \in Queues
    BY DEF Places, Typed, Nodes
  <2>4. CASE q = n.queue
    <3>1. queue'[q] = queue[q] \union {n} /\ ~linking'[Owner(q)]
      BY <2>1, <2>2, <2>3, <2>4 DEF Typed
    <3>2. last[q][n.sig] < n.id /\ \A m \in queue[q] : m.id < n.id
      BY <2>2, <2>3, <2>4 DEF FifoInv, FifoOf
    <3>3. \A m \in queue[q] : m.id \in Nat /\ n.id \in Nat
      BY <2>3 DEF Typed, Nodes
    <3>4. QED
      BY <2>2, <3>1, <3>2, <3>3 DEF FifoInv, FifoOf
  <2>5. CASE q # n.queue
    <3>1. queue'[q] = queue[q]
      BY <2>1, <2>5 DEF Typed
    <3>2. /\ linking'[Owner(q)] => linking[Owner(q)]
          /\ linking'[Owner(q)] => held'[Owner(q)] = held[Owner(q)]
      BY <1>0, <2>2 DEF Typed
    <3>3. QED
      BY <2>2, <3>1, <3>2 DEF FifoInv, FifoOf
  <2>6. QED
    BY <2>4, <2>5
<1>6. ASSUME NEW p \in Procs, Release(p) PROVE FifoOf(q)'
  <2>1. PICK n \in held[p] : held' = [held EXCEPT ![p] = @ \ {n}]
    BY <1>6 DEF Release
  <2>2. queue' = queue /\ last' = last /\ stamp' = stamp /\ linking' = linking
    BY <1>6 DEF Release
  <2>3. held'[Owner(q)] \subseteq held[Owner(q)]
    BY <1>0, <2>1 DEF Typed
  <2>4. QED
    BY <2>2, <2>3, FifoShrinks
<1>7. ASSUME NEW p \in Procs, Take(p) PROVE FifoOf(q)'
  <2>1. Idle(p) /\ \E x \in QueuesOf(p) : \E s : TakeNode(x, s) \/ TakeBit(x, s)
    BY <1>7 DEF Take, QueuesOf, Queues, Owner
  <2>2. PICK x \in QueuesOf(p) : \E s : TakeNode(x, s) \/ TakeBit(x, s)
    BY <2>1
  <2>3. PICK s : TakeNode(x, s) \/ TakeBit(x, s)
    BY <2>2
  <2>4. CASE TakeNode(x, s)
    BY <2>1, <2>4, FifoTake
  <2>5. CASE TakeBit(x, s)
    BY <1>1, <2>5 DEF TakeBit
  <2>6. QED
    BY <2>3, <2>4, <2>5
<1>8. ASSUME NEW p \in Procs, NEW sig \in Signals, Discard(p, sig) PROVE FifoOf(q)'
  <2>1. last' = last /\ Removes(p, UNION {NodesOf(x, sig) : x \in QueuesOf(p)})
    BY <1>8, RemovingActions DEF Discard
  <2>2. QED
    BY <1>2, <2>1
<1>9. ASSUME NEW p \in Procs, FlushTimers(p) PROVE FifoOf(q)'
  <2>1. last' = last /\ Removes(p, UNION {TimerNodes(x) : x \in QueuesOf(p)})
    BY <1>9, RemovingActions DEF FlushTimers
  <2>2. QED
    BY <1>2, <2>1
<1>10. ASSUME NEW x \in Queues, Flush(x) PROVE FifoOf(q)'
  <2>1. Owner(x) \in Procs /\ x \in QueuesOf(Owner(x))
    BY DEF Queues, Owner, QueuesOf
  <2>2. last' = last /\ Removes(Owner(x), queue[x])
    BY <1>10, <2>1, RemovingActions DEF Flush
  <2>3. QED
    BY <1>2, <2>1, <2>2
<1>11. ASSUME NEW p \in Procs, ChargeFails(p) PROVE FifoOf(q)'
  BY <1>1, <1>11 DEF ChargeFails
<1>12. CASE UNCHANGED vars
  BY <1>1, <1>12 DEF vars
<1>13. QED
  BY <1>3, <1>4, <1>5, <1>6, <1>7, <1>8, <1>9, <1>10, <1>11, <1>12 DEF Next

\* The nodes of one signal leave a queue in the order they entered it,
\* whatever takes, discards, flushes and failed enqueues happen in between
\* (FifoPerSignal).
THEOREM FifoPerSignalHolds == Spec => []FifoPerSignal
<1>1. Init => FifoInv
  <2> SUFFICES ASSUME Init, NEW q \in Queues PROVE FifoOf(q)
    BY DEF FifoInv
  <2>1. queue[q] = {} /\ \A s \in Signals : last[q][s] < stamp
    BY DEF Init
  <2>2. held[Owner(q)] = {}
    BY DEF Init, Queues, Owner
  <2>3. QED
    BY <2>1, <2>2 DEF FifoOf
<1>2. QueueInv /\ FifoInv /\ [Next]_vars => FifoInv'
  BY FifoStep
<1>3. FifoInv => FifoPerSignal
  BY DEF FifoInv, FifoOf, FifoPerSignal
<1>4. QED
  BY <1>1, <1>2, <1>3, InvHolds, PTL DEF Spec
=============================================================================
