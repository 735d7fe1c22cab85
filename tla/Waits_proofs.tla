---------------------------- MODULE Waits_proofs ----------------------------
(***************************************************************************)
(* The two layers in which a guest thread waits: wait_for, and the futexes *)
(* that sleep in it.                                                       *)
(*                                                                         *)
(* For every set of peers and every set of signals, wait_for never loses   *)
(* the wakeup of a deliverable signal, whatever lock it is called with.    *)
(* NoLostSignal speaks of the sleeping task only and is not inductive: the *)
(* race is decided earlier, between the recheck under waiting_cond_lock    *)
(* and the sleep.  LostInv extends it to that window; OwnerInv says who    *)
(* holds which mutex at each step, which is what rules out a sender that   *)
(* notifies, or finds nothing registered, inside the window.               *)
(*                                                                         *)
(* For every set of threads and keys and every vector length, futex        *)
(* objects, queues and wait records agree and no change of a word is       *)
(* slept through.  ObjectsExact is inductive once RecordInv ties the       *)
(* expectation of each record to the object it is queued on; NoMissedWake  *)
(* speaks of sleeping threads only, and WordInv extends it to the gap      *)
(* between the end of a sleep and futex_lock, from which futex_waitv and a *)
(* long FUTEX_WAIT go back to sleep.                                       *)
(***************************************************************************)
EXTENDS WaitFor, Futex, FiniteSetTheorems, SequenceTheorems, TLAPS

----------------------------------------------------------------------------
(* wait_for *)

\* Who holds which lock, and while doing what.
OwnerInv ==
    /\ \A p \in Peers : ppc[p] \in {"hold", "notify"} => owner["reg"] = p
    /\ wpc = "check" => owner["reg"] = Waiter
    /\ wpc \in {"register", "check", "sleep", "unregister", "recheck", "return"}
          => owner[waitLock] = Waiter
    /\ \A p \in Peers : ppc[p] \in {"send", "wake", "hold", "notify", "relock"}
          => owner["pids"] = p

\* The registration, with the steps RegistrationExact leaves out.
RegisteredInv ==
    /\ registered <=> wpc \in {"check", "sleep", "asleep", "reacquire", "unregister"}
    /\ \A p \in Peers : ppc[p] = "notify" => registered /\ owner[waitLock] = p

\* current->waiting is set by sigtimedwait only, which waits with the sighand
\* lock.
WaitingInv ==
    /\ waiting # {} => kind = "sigtimedwait" /\ wpc # "run"
    /\ kind = "sigtimedwait" => waitLock = "sighand"

\* From the recheck on, a deliverable signal has a sender that will notify.
LostInv ==
    /\ wpc \in {"sleep", "asleep"} /\ Deliverable => WakeInFlight
    /\ kind = "sigtimedwait" /\ wpc \in {"register", "check", "sleep"}
          => ~Deliverable

\* A timeout needs a timed call and EINTR an interruptible one.
ResultInv ==
    /\ wpc \in {"reacquire", "unregister", "recheck", "return"}
          => /\ rc = "ETIMEDOUT" => timed
             /\ rc = "EINTR" => kind = "wait_for" /\ wpc = "return"

WaitForInv == TypeOK /\ OwnerInv /\ RegisteredInv /\ WaitingInv /\ LostInv /\ ResultInv

\* The typing of the state is preserved by every step.
LEMMA TypeStep == TypeOK /\ [Next]_vars => TypeOK'
<1> SUFFICES ASSUME TypeOK, [Next]_vars PROVE TypeOK'
  OBVIOUS
<1> USE WaitForAssumption DEF TypeOK, Locks, WaitLocks, Kinds, Results, WaiterStates, PeerStates,
      Acquire, Release, callVars
<1>1. CASE Call
  <2>1. CASE Sigprocmask \/ ReceiveSignals
    BY <2>1 DEF Sigprocmask, ReceiveSignals
  <2>2. ASSUME NEW k \in {"wait_for", "ignore_signals"}, NEW t \in BOOLEAN,
               NEW l \in WaitLocks, CallWait(k, t, l)
        PROVE  TypeOK'
    BY <2>2 DEF CallWait
  <2>3. ASSUME NEW set \in SUBSET (Sigs \ Unblockable), NEW t \in BOOLEAN,
               CallSigtimedwait(set, t)
        PROVE  TypeOK'
    BY <2>3 DEF CallSigtimedwait
  <2> QED BY <1>1, <2>1, <2>2, <2>3 DEF Call
<1>2. CASE WaitStep
  <2>1. CASE Register
    BY <2>1 DEF Register
  <2>2. CASE RecheckFindsSignal \/ RecheckFindsNothing
    BY <2>2 DEF RecheckFindsSignal, RecheckFindsNothing
  <2>3. CASE Sleep
    BY <2>3 DEF Sleep
  <2>4. CASE Reacquire \/ Unregister \/ Recheck
    BY <2>4 DEF Reacquire, Unregister, Recheck
  <2>5. CASE Return
    BY <2>5 DEF Return, WaitAgain, WaitDone, SigtimedwaitTakes,
                SigtimedwaitFails, SigtimedwaitAgain
  <2> QED BY <1>2, <2>1, <2>2, <2>3, <2>4, <2>5 DEF WaitStep
<1>3. CASE SpuriousWakeup \/ Timeout
  BY <1>3 DEF SpuriousWakeup, Timeout
<1>4. ASSUME NEW p \in Peers, PeerStep(p) PROVE TypeOK'
  <2>1. CASE SendBegin(p) \/ WakeLock(p) \/ SendEnd(p)
    BY <2>1 DEF SendBegin, WakeLock, SendEnd
  <2>6. ASSUME NEW l \in WaitLocks, EventBegin(p, l) PROVE TypeOK'
    BY <2>6 DEF EventBegin
  <2>2. ASSUME NEW sig \in Sigs, Send(p, sig) PROVE TypeOK'
    BY <2>2 DEF Send, EnqueueAndWake, EnqueueOnly, Discards
  <2>3. CASE Wake(p)
    BY <2>3 DEF Wake, WakeNobody, WakeTrylock, WakeRetry, LockMine
  <2>4. CASE WakeNotify(p)
    BY <2>4 DEF WakeNotify, Broadcast
  <2>5. CASE EventNotify(p)
    BY <2>5, ZenonT(60) DEF EventNotify, Broadcast
  <2> QED BY <1>4, <2>1, <2>2, <2>3, <2>4, <2>5, <2>6 DEF PeerStep, SendStep
<1>5. CASE UNCHANGED vars
  BY <1>5 DEF vars
<1> QED BY <1>1, <1>2, <1>3, <1>4, <1>5 DEF Next

\* The inductive invariant is preserved by every step.
LEMMA InvStep == WaitForInv /\ [Next]_vars => WaitForInv'
<1> SUFFICES ASSUME WaitForInv, [Next]_vars PROVE WaitForInv'
  OBVIOUS
<1>0. TypeOK /\ TypeOK'
  BY TypeStep DEF WaitForInv
<1> USE <1>0, WaitForAssumption
<1> USE DEF WaitForInv, OwnerInv, RegisteredInv, WaitingInv, LostInv, ResultInv,
      Deliverable, WakeInFlight, SignalPending, callVars, EffectiveBlocked, Free, Acquire, Release
<1>t. /\ owner \in [Locks -> Peers \cup {Waiter, None}]
      /\ ppc \in [Peers -> PeerStates]
      /\ "pids" \in Locks /\ "sighand" \in Locks /\ "reg" \in Locks /\ waitLock \in Locks
      /\ waitLock # "reg" /\ \A l \in WaitLocks : l \in Locks /\ l # "reg"
      /\ pending \subseteq Sigs /\ pending' \subseteq Sigs
  BY <1>0 DEF TypeOK, Locks, WaitLocks
<1>1. CASE Sigprocmask
  BY <1>1, <1>t DEF Sigprocmask
<1>2. CASE ReceiveSignals
  BY <1>2, <1>t DEF ReceiveSignals
<1>3. ASSUME NEW k \in {"wait_for", "ignore_signals"}, NEW t \in BOOLEAN, NEW l \in WaitLocks,
            CallWait(k, t, l)
     PROVE  WaitForInv'
  BY <1>3, <1>t DEF CallWait
<1>4. ASSUME NEW set \in SUBSET (Sigs \ Unblockable), NEW t \in BOOLEAN, CallSigtimedwait(set, t) PROVE WaitForInv'
  BY <1>4, <1>t DEF CallSigtimedwait
<1>5. CASE Register
  BY <1>5, <1>t DEF Register
<1>6. CASE RecheckFindsSignal
  BY <1>6, <1>t DEF RecheckFindsSignal, SighandUsable
<1>7. CASE RecheckFindsNothing
  BY <1>7, <1>t DEF RecheckFindsNothing, SighandUsable
<1>8. CASE Sleep
  BY <1>8, <1>t DEF Sleep
<1>9. CASE SpuriousWakeup \/ Timeout
  BY <1>9, <1>t DEF SpuriousWakeup, Timeout
<1>10. CASE Reacquire
  BY <1>10, <1>t DEF Reacquire
<1>11. CASE Unregister
  BY <1>11, <1>t DEF Unregister
<1>12. CASE Recheck
  BY <1>12, <1>t DEF Recheck
<1>13. CASE Return
  BY <1>13, <1>t DEF Return, WaitAgain, WaitDone, SigtimedwaitTakes, SigtimedwaitFails, SigtimedwaitAgain
<1>14. ASSUME NEW p \in Peers, SendBegin(p) PROVE WaitForInv'
  BY <1>14, <1>t DEF SendBegin
<1>15. ASSUME NEW p \in Peers, NEW sig \in Sigs, Send(p, sig) PROVE WaitForInv'
  BY <1>15, <1>t DEF Send, EnqueueAndWake, EnqueueOnly, Discards, Wants
<1>16. ASSUME NEW p \in Peers, WakeLock(p) PROVE WaitForInv'
  BY <1>16, <1>t DEF WakeLock
<1>17. ASSUME NEW p \in Peers, Wake(p) PROVE WaitForInv'
  BY <1>17, <1>t DEF Wake, WakeNobody, WakeTrylock, WakeRetry, LockMine
<1>18. ASSUME NEW p \in Peers, WakeNotify(p) PROVE WaitForInv'
  BY <1>18, <1>t DEF WakeNotify, Broadcast
<1>19. ASSUME NEW p \in Peers, SendEnd(p) PROVE WaitForInv'
  BY <1>19, <1>t DEF SendEnd
<1>20. ASSUME NEW p \in Peers, NEW l \in WaitLocks, EventBegin(p, l) PROVE WaitForInv'
  BY <1>20, <1>t DEF EventBegin
<1>21. ASSUME NEW p \in Peers, EventNotify(p) PROVE WaitForInv'
  BY <1>21, <1>t DEF EventNotify, Broadcast
<1>22. CASE UNCHANGED vars
  BY <1>22 DEF vars
<1> QED
  BY <1>1, <1>2, <1>3, <1>4, <1>5, <1>6, <1>7, <1>8, <1>9, <1>10, <1>11, <1>12, <1>13, <1>14, <1>15, <1>16, <1>17, <1>18, <1>19, <1>20, <1>21, <1>22
  DEF Next, Call, WaitStep, PeerStep, SendStep

\* The inductive invariant holds throughout every execution.
THEOREM InvHolds == Spec => []WaitForInv
<1>1. Init => WaitForInv
  <2> SUFFICES ASSUME Init PROVE WaitForInv
    OBVIOUS
  <2> USE WaitForAssumption DEF Init
  <2>1. TypeOK
    BY DEF TypeOK, Locks, WaitLocks, Kinds, Results, WaiterStates, PeerStates
  <2>2. OwnerInv /\ RegisteredInv /\ WaitingInv /\ LostInv /\ ResultInv
    BY DEF OwnerInv, RegisteredInv, WaitingInv, LostInv, ResultInv
  <2> QED BY <2>1, <2>2 DEF WaitForInv
<1>2. WaitForInv /\ [Next]_vars => WaitForInv'
  BY InvStep
<1> QED BY <1>1, <1>2, PTL DEF Spec

\* Type correctness of the wait protocol.
THEOREM TypeCorrect == Spec => []TypeOK
<1>1. WaitForInv => TypeOK
  BY DEF WaitForInv
<1> QED BY <1>1, InvHolds, PTL

\* wait_for_common and wake_signal_task_unlocked together never lose the
\* wakeup of a deliverable signal, for any number of senders and any wait lock.
THEOREM NoLostSignalHolds == Spec => []NoLostSignal
<1>1. WaitForInv => NoLostSignal
  BY DEF WaitForInv, LostInv, NoLostSignal
<1> QED BY <1>1, InvHolds, PTL

\* waiting_cond is published exactly during a wait, and a sender broadcasts
\* only on a published condition whose lock it owns.
THEOREM RegistrationExactHolds == Spec => []RegistrationExact
<1>1. WaitForInv => RegistrationExact
  BY DEF WaitForInv, RegisteredInv, RegistrationExact
<1> QED BY <1>1, InvHolds, PTL

\* The contract sync.h states for the results of the two entry points.
THEOREM ResultAllowedHolds == Spec => []ResultAllowed
<1>1. WaitForInv => ResultAllowed
  BY DEF WaitForInv, ResultInv, ResultAllowed
<1> QED BY <1>1, InvHolds, PTL

----------------------------------------------------------------------------
(* Futexes: the inductive invariant *)

Records == Threads \X (1..MaxVector)
Vectors(S) == UNION {[1..n -> S] : n \in 0..MaxVector}

\* The types of the state.
FutexTypeOK ==
    /\ word \in [Keys -> Values]
    /\ refcount \in [Keys -> Nat]
    /\ queue \in [Keys -> Seq(Records)]
    /\ state \in [Threads -> {"run", "asleep", "ready"}]
    /\ waitv \in [Threads -> BOOLEAN]
    /\ asked \in [Threads -> Vectors((Keys \X Values) \cup {Moved})]
    /\ futex \in [Threads -> Vectors(Keys)]
    /\ woken \in [Threads -> 0..MaxVector]
    /\ err \in [Threads -> {0, EINTR, ETIMEDOUT}]
    /\ returned \in Int
    /\ owes \in [Threads -> Keys \cup {NoKey}]

\* A record that was not moved is on the object of the word it was made for; a
\* thread that runs has no records.
RecordInv ==
    \A t \in Threads :
       /\ DOMAIN asked[t] = DOMAIN futex[t]
       /\ \A i \in DOMAIN asked[t] : asked[t][i] # Moved => asked[t][i][1] = futex[t][i]
       /\ state[t] = "run" => futex[t] = NoRecords /\ woken[t] = 0

\* NoMissedWake from the queueing on to the end of the wait, also in the gap
\* between the end of a sleep and the lock.
WordInv ==
    \A t \in Threads : \A i \in DOMAIN asked[t] :
       /\ Waiting(t) /\ woken[t] = 0 /\ asked[t][i] # Moved
       /\ word[asked[t][i][1]] # asked[t][i][2]
       => \E s \in Wakers : owes[s] = asked[t][i][1]

FutexInv == FutexTypeOK /\ RecordInv /\ RefcountExact /\ QueueExact /\ WordInv

----------------------------------------------------------------------------
(* Sequences *)

\* The positions in a set of numbers and their ranks are in one-to-one
\* correspondence.
LEMMA Ranks ==
    ASSUME NEW N \in Nat, NEW S \in SUBSET (1..N)
    PROVE  /\ IsFiniteSet(S) /\ Cardinality(S) \in Nat
           /\ \A i \in S : Rank(S, i) \in 1..Cardinality(S)
           /\ \A i, j \in S : i < j => Rank(S, i) < Rank(S, j)
           /\ \A n \in 1..Cardinality(S) : \E i \in S : Rank(S, i) = n
<1>1. IsFiniteSet(S) /\ Cardinality(S) \in Nat
  <2>1. S \in SUBSET Nat /\ \A s \in S : s <= N
    OBVIOUS
  <2>2. IsFiniteSet(S)
    BY <2>1, FS_BoundedSetOfNaturals
  <2>3. QED
    BY <2>2, FS_CardinalityType
<1>2. ASSUME NEW i \in S
      PROVE  Rank(S, i) \in 1..Cardinality(S)
  <2>1. IsFiniteSet({j \in S : j <= i}) /\ Cardinality({j \in S : j <= i}) <= Cardinality(S)
    BY <1>1, FS_Subset
  <2>2. Cardinality({j \in S : j <= i}) \in Nat /\ Cardinality({j \in S : j <= i}) # 0
    <3>1. i \in {j \in S : j <= i}
      OBVIOUS
    <3>2. QED
      BY <2>1, <3>1, FS_CardinalityType, FS_EmptySet
  <2>3. QED
    BY <1>1, <2>1, <2>2 DEF Rank
<1>3. ASSUME NEW i \in S, NEW j \in S, i < j
      PROVE  Rank(S, i) < Rank(S, j)
  <2>1. IsFiniteSet({m \in S : m <= j}) /\ {m \in S : m <= i} \subseteq {m \in S : m <= j}
    <3>1. IsFiniteSet({m \in S : m <= j})
      BY <1>1, FS_Subset
    <3>2. \A m \in S : m \in Nat /\ i \in Nat /\ j \in Nat
      OBVIOUS
    <3>3. \A m \in S : m <= i => m <= j
      BY <1>3, <3>2
    <3>4. QED
      BY <3>1, <3>3
  <2>2. j \in {m \in S : m <= j} /\ j \notin {m \in S : m <= i}
    BY <1>3
  <2>3. Cardinality({m \in S : m <= i}) <= Cardinality({m \in S : m <= j})
        /\ Cardinality({m \in S : m <= i}) # Cardinality({m \in S : m <= j})
    BY <2>1, <2>2, FS_Subset
  <2>4. QED
    BY <1>2, <2>3 DEF Rank
<1>4. ASSUME NEW n \in 1..Cardinality(S)
      PROVE  \E i \in S : Rank(S, i) = n
  <2> DEFINE r == [i \in S |-> Rank(S, i)]
  <2>1. r \in Injection(S, 1..Cardinality(S))
    <3>1. r \in [S -> 1..Cardinality(S)]
      BY <1>2
    <3>2. \A i, j \in S : r[i] = r[j] => i = j
      BY <1>2, <1>3
    <3>3. QED
      BY <3>1, <3>2 DEF Injection, IsInjective
  <2>2. IsFiniteSet(1..Cardinality(S)) /\ Cardinality(1..Cardinality(S)) = Cardinality(S)
    BY <1>1, FS_Interval
  <2>3. r \in Surjection(S, 1..Cardinality(S))
    BY <2>1, <2>2, FS_Injection
  <2>4. QED
    BY <2>3 DEF Surjection
<1>5. QED
  BY <1>1, <1>2, <1>3, <1>4

\* A selection keeps what is at the given positions, each once, and its order.
LEMMA Selection ==
    ASSUME NEW T, NEW q \in Seq(T), NEW S \in SUBSET DOMAIN q
    PROVE  /\ Select(q, S) \in Seq(T)
           /\ ToSet(Select(q, S)) = {q[i] : i \in S}
           /\ IsInjective(q) => IsInjective(Select(q, S))
<1>1. Len(q) \in Nat /\ DOMAIN q = 1..Len(q) /\ S \in SUBSET (1..Len(q))
  OBVIOUS
<1>2. \A n \in 1..Cardinality(S) : AtRank(S, n) \in S /\ Rank(S, AtRank(S, n)) = n
  BY <1>1, Ranks DEF AtRank
<1>3. \A i \in S : Rank(S, i) \in 1..Cardinality(S) /\ AtRank(S, Rank(S, i)) = i
  <2> SUFFICES ASSUME NEW i \in S
               PROVE  Rank(S, i) \in 1..Cardinality(S) /\ AtRank(S, Rank(S, i)) = i
    OBVIOUS
  <2>1. Rank(S, i) \in 1..Cardinality(S)
    BY <1>1, Ranks
  <2>2. AtRank(S, Rank(S, i)) \in S /\ Rank(S, AtRank(S, Rank(S, i))) = Rank(S, i)
    BY <1>2, <2>1
  <2>3. ~(i < AtRank(S, Rank(S, i))) /\ ~(AtRank(S, Rank(S, i)) < i)
    <3>1. \A m, l \in S : m < l => Rank(S, m) < Rank(S, l)
      BY <1>1, Ranks
    <3>2. Rank(S, i) \in Nat
      BY <2>1
    <3>3. QED
      BY <2>2, <3>1, <3>2
  <2>4. QED
    BY <1>1, <2>1, <2>2, <2>3
<1>4. DOMAIN Select(q, S) = 1..Cardinality(S) /\ Cardinality(S) \in Nat
      /\ \A n \in 1..Cardinality(S) : Select(q, S)[n] = q[AtRank(S, n)]
  BY <1>1, Ranks DEF Select
<1>5. Select(q, S) \in Seq(T)
  <2>1. \A n \in 1..Cardinality(S) : q[AtRank(S, n)] \in T
    BY <1>1, <1>2
  <2>2. QED
    BY <1>4, <2>1, IsASeq DEF Select
<1>6. ToSet(Select(q, S)) = {q[i] : i \in S}
  BY <1>2, <1>3, <1>4 DEF ToSet
<1>7. IsInjective(q) => IsInjective(Select(q, S))
  <2> SUFFICES ASSUME IsInjective(q), NEW a \in 1..Cardinality(S), NEW b \in 1..Cardinality(S),
                      q[AtRank(S, a)] = q[AtRank(S, b)]
               PROVE  a = b
    BY <1>4 DEF IsInjective
  <2>1. AtRank(S, a) = AtRank(S, b)
    BY <1>1, <1>2 DEF IsInjective
  <2>2. QED
    BY <1>2, <2>1
<1>8. QED
  BY <1>5, <1>6, <1>7

\* The largest of a set of positions is one of them.
LEMMA LargestPosition ==
    ASSUME NEW N \in Nat, NEW S \in SUBSET (1..N), S # {}
    PROVE  Max(S) \in S
<1>1. IsFiniteSet(S) /\ Cardinality(S) \in Nat /\ Cardinality(S) # 0
  BY Ranks, FS_EmptySet
<1>2. PICK i \in S : Rank(S, i) = Cardinality(S)
  BY <1>1, Ranks
<1>3. {j \in S : j <= i} = S
  BY <1>1, <1>2, FS_Subset DEF Rank
<1>4. \A j \in S : i >= j
  BY <1>3
<1>5. QED
  BY <1>4 DEF Max

\* A sequence without repetition is as long as it has elements.
LEMMA DistinctElements ==
    ASSUME NEW T, NEW q \in Seq(T), IsInjective(q)
    PROVE  IsFiniteSet(ToSet(q)) /\ Cardinality(ToSet(q)) = Len(q)
<1>1. IsFiniteSet(1..Len(q)) /\ Cardinality(1..Len(q)) = Len(q)
  <2>1. Len(q) \in Nat /\ 1 \in Int /\ Len(q) \in Int
    OBVIOUS
  <2>2. IsFiniteSet(1..Len(q)) /\ Cardinality(1..Len(q)) = IF 1 > Len(q) THEN 0 ELSE Len(q) - 1 + 1
    BY <2>1, FS_Interval
  <2>3. QED
    BY <2>1, <2>2
<1>2. q \in Bijection(1..Len(q), ToSet(q))
  BY DEF Bijection, Injection, Surjection, IsInjective, ToSet
<1>3. QED
  BY <1>1, <1>2, FS_Bijection DEF ExistsBijection

\* The two parts of a sequence without repetition.
LEMMA Parts ==
    ASSUME NEW T, NEW q \in Seq(T), IsInjective(q), NEW m \in 0..Len(q)
    PROVE  /\ SubSeq(q, 1, m) \in Seq(T) /\ SubSeq(q, m + 1, Len(q)) \in Seq(T)
           /\ Len(SubSeq(q, 1, m)) = m
           /\ IsInjective(SubSeq(q, 1, m)) /\ IsInjective(SubSeq(q, m + 1, Len(q)))
           /\ ToSet(SubSeq(q, 1, m)) \subseteq ToSet(q)
           /\ ToSet(SubSeq(q, m + 1, Len(q))) = ToSet(q) \ ToSet(SubSeq(q, 1, m))
<1> DEFINE a == SubSeq(q, 1, m)
           b == SubSeq(q, m + 1, Len(q))
<1>1. Len(q) \in Nat /\ DOMAIN q = 1..Len(q) /\ m \in Nat /\ m <= Len(q)
  OBVIOUS
<1>2. a \in Seq(T) /\ DOMAIN a = 1..m /\ Len(a) = m /\ \A i \in 1..m : a[i] = q[i]
  BY <1>1
<1>3. b \in Seq(T) /\ DOMAIN b = 1..(Len(q) - m) /\ \A i \in 1..(Len(q) - m) : b[i] = q[m + i]
  BY <1>1
<1>4. IsInjective(a)
  BY <1>1, <1>2 DEF IsInjective
<1>5. IsInjective(b)
  <2> SUFFICES ASSUME NEW i \in 1..(Len(q) - m), NEW j \in 1..(Len(q) - m), q[m + i] = q[m + j]
               PROVE  i = j
    BY <1>3 DEF IsInjective
  <2>1. m + i \in DOMAIN q /\ m + j \in DOMAIN q
    BY <1>1
  <2>2. m + i = m + j
    BY <2>1 DEF IsInjective
  <2>3. QED
    BY <1>1, <2>2
<1>6. ToSet(a) = {q[i] : i \in 1..m}
  BY <1>2 DEF ToSet
<1>7. ToSet(b) = {q[i] : i \in (m + 1)..Len(q)}
  <2>1. \A i \in 1..(Len(q) - m) : m + i \in (m + 1)..Len(q) /\ b[i] = q[m + i]
    BY <1>1, <1>3
  <2>2. \A i \in (m + 1)..Len(q) : i - m \in 1..(Len(q) - m) /\ b[i - m] = q[i]
    <3>1. \A i \in (m + 1)..Len(q) : i - m \in 1..(Len(q) - m) /\ m + (i - m) = i
      BY <1>1
    <3> HIDE DEF b
    <3>2. \A i \in 1..(Len(q) - m) : b[i] = q[m + i]
      BY <1>3
    <3>3. QED
      BY <3>1, <3>2
  <2>3. ToSet(b) = {b[i] : i \in 1..(Len(q) - m)}
    BY <1>3 DEF ToSet
  <2>4. ToSet(b) \subseteq {q[i] : i \in (m + 1)..Len(q)}
    BY <2>1, <2>3
  <2>5. {q[i] : i \in (m + 1)..Len(q)} \subseteq ToSet(b)
    BY <2>2, <2>3
  <2>6. QED
    BY <2>4, <2>5
<1>8. ToSet(q) = {q[i] : i \in 1..Len(q)}
  BY <1>1 DEF ToSet
<1>9. ToSet(a) \subseteq ToSet(q)
  BY <1>1, <1>6, <1>8
<1>10. ToSet(b) = ToSet(q) \ ToSet(a)
  <2>1. \A i \in 1..Len(q) : i \in 1..m \/ i \in (m + 1)..Len(q)
    BY <1>1
  <2>2. \A i \in (m + 1)..Len(q) : i \in 1..Len(q) /\ \A j \in 1..m : q[i] # q[j]
    BY <1>1 DEF IsInjective
  <2>3. QED
    BY <1>6, <1>7, <1>8, <2>1, <2>2
<1>11. QED
  BY <1>2, <1>3, <1>4, <1>5, <1>9, <1>10

\* Two sequences without common elements, one after the other.
LEMMA Joined ==
    ASSUME NEW T, NEW p \in Seq(T), NEW q \in Seq(T)
    PROVE  /\ p \o q \in Seq(T)
           /\ ToSet(p \o q) = ToSet(p) \cup ToSet(q)
           /\ IsInjective(p) /\ IsInjective(q) /\ ToSet(p) \cap ToSet(q) = {}
                 => IsInjective(p \o q)
<1>1. /\ Len(p) \in Nat /\ Len(q) \in Nat /\ DOMAIN p = 1..Len(p) /\ DOMAIN q = 1..Len(q)
      /\ p \o q \in Seq(T) /\ DOMAIN (p \o q) = 1..(Len(p) + Len(q))
  OBVIOUS
<1>2. \A i \in 1..(Len(p) + Len(q)) :
         \/ i \in DOMAIN p /\ (p \o q)[i] = p[i]
         \/ i - Len(p) \in DOMAIN q /\ (p \o q)[i] = q[i - Len(p)]
  BY <1>1
<1>3. /\ \A i \in DOMAIN p : i \in DOMAIN (p \o q) /\ (p \o q)[i] = p[i]
      /\ \A i \in DOMAIN q : i + Len(p) \in DOMAIN (p \o q) /\ (p \o q)[i + Len(p)] = q[i]
  BY <1>1
<1>4. ToSet(p \o q) = ToSet(p) \cup ToSet(q)
  <2>1. ToSet(p \o q) \subseteq ToSet(p) \cup ToSet(q)
    BY <1>1, <1>2 DEF ToSet
  <2>2. ToSet(p) \subseteq ToSet(p \o q) /\ ToSet(q) \subseteq ToSet(p \o q)
    BY <1>3 DEF ToSet
  <2>3. QED
    BY <2>1, <2>2
<1>5. ASSUME IsInjective(p), IsInjective(q), ToSet(p) \cap ToSet(q) = {}
      PROVE  IsInjective(p \o q)
  <2> SUFFICES ASSUME NEW i \in 1..(Len(p) + Len(q)), NEW j \in 1..(Len(p) + Len(q)),
                      (p \o q)[i] = (p \o q)[j]
               PROVE  i = j
    BY <1>1 DEF IsInjective
  <2>1. \A a \in DOMAIN p, b \in DOMAIN q : p[a] # q[b]
    BY <1>5 DEF ToSet
  <2>2. CASE i \in DOMAIN p /\ (p \o q)[i] = p[i]
    <3>1. j \in DOMAIN p /\ (p \o q)[j] = p[j]
      BY <1>2, <2>1, <2>2
    <3>2. QED
      BY <1>5, <2>2, <3>1 DEF IsInjective
  <2>3. CASE i - Len(p) \in DOMAIN q /\ (p \o q)[i] = q[i - Len(p)]
    <3>1. j - Len(p) \in DOMAIN q /\ (p \o q)[j] = q[j - Len(p)]
      BY <1>2, <2>1, <2>3
    <3>2. i - Len(p) = j - Len(p)
      BY <1>5, <2>3, <3>1 DEF IsInjective
    <3>3. QED
      BY <1>1, <3>2
  <2>4. QED
    BY <1>2, <2>2, <2>3
<1>6. QED
  BY <1>1, <1>4, <1>5

----------------------------------------------------------------------------
(* Operations on the queues *)

\* The records that a wake of n on k takes, and their threads.
Hit(k, n) == ToSet(SubSeq(queue[k], 1, Atmost(n, queue[k])))
HitThreads(k, n) == {t \in Threads : \E i \in 1..MaxVector : <<t, i>> \in Hit(k, n)}

\* The records that t makes on k for a vector of keys.
RecordsOf(t, ks, k) == {<<t, i>> : i \in {j \in DOMAIN ks : ks[j] = k}}

\* One value of a function changes.
LEMMA Updated ==
    ASSUME NEW D, NEW S, NEW f \in [D -> S], NEW d, NEW x \in S
    PROVE  [f EXCEPT ![d] = x] \in [D -> S]
OBVIOUS

\* The vectors of a thread.
LEMMA VectorOf ==
    ASSUME NEW S, NEW v \in Vectors(S)
    PROVE  /\ DOMAIN v \subseteq 1..MaxVector
           /\ \A i \in DOMAIN v : v[i] \in S
           /\ \A f : /\ DOMAIN f = DOMAIN v /\ f = [i \in DOMAIN v |-> f[i]]
                     /\ \A i \in DOMAIN v : f[i] \in S
                     => f \in Vectors(S)
<1>1. PICK n \in 0..MaxVector : v \in [1..n -> S]
  BY DEF Vectors
<1>2. MaxVector \in Nat
  BY FutexAssumption
<1>3. DOMAIN v \subseteq 1..MaxVector /\ \A i \in DOMAIN v : v[i] \in S
  BY <1>1, <1>2
<1>4. ASSUME NEW f, DOMAIN f = DOMAIN v, f = [i \in DOMAIN v |-> f[i]], \A i \in DOMAIN v : f[i] \in S
      PROVE  f \in Vectors(S)
  <2>1. f \in [1..n -> S]
    BY <1>1, <1>4
  <2>2. QED
    BY <2>1 DEF Vectors
<1>5. QED
  BY <1>3, <1>4

\* A wake takes records of the queue, the others stay, each once.
LEMMA WakeTakes ==
    ASSUME FutexTypeOK, QueueExact, NEW k \in Keys, NEW n \in Nat
    PROVE  /\ Atmost(n, queue[k]) \in 0..Len(queue[k])
           /\ Hit(k, n) \subseteq ToSet(queue[k])
           /\ Rest(k, n) \in Seq(Records) /\ IsInjective(Rest(k, n))
           /\ ToSet(Rest(k, n)) = ToSet(queue[k]) \ Hit(k, n)
<1>1. queue[k] \in Seq(Records) /\ IsInjective(queue[k])
  BY DEF FutexTypeOK, QueueExact
<1>2. Len(queue[k]) \in Nat /\ Atmost(n, queue[k]) \in 0..Len(queue[k])
  BY <1>1 DEF Atmost
<1>3. QED
  BY <1>1, <1>2, Parts DEF Hit, Rest

\* What a wake does to threads: those with a record among the first n get the
\* index of one, and stop sleeping.
LEMMA WakeTells ==
    ASSUME FutexTypeOK, QueueExact, NEW k \in Keys, NEW n \in Nat, Wakes(k, n)
    PROVE  /\ woken' \in [Threads -> 0..MaxVector]
           /\ state' \in [Threads -> {"run", "asleep", "ready"}]
           /\ err' \in [Threads -> {0, EINTR, ETIMEDOUT}]
           /\ \A t \in HitThreads(k, n) : woken'[t] # 0 /\ state'[t] # "asleep"
           /\ \A t \in Threads \ HitThreads(k, n) : woken'[t] = woken[t] /\ state'[t] = state[t]
           /\ \A t \in Threads : /\ state'[t] = "run" <=> state[t] = "run"
                                 /\ state'[t] = "asleep" => state[t] = "asleep"
<1> DEFINE hit == SubSeq(queue[k], 1, Atmost(n, queue[k]))
           Hits(t) == {i \in DOMAIN hit : hit[i][1] = t}
<1>1. /\ woken' = [t \in Threads |-> IF Hits(t) = {} THEN woken[t] ELSE hit[Max(Hits(t))][2]]
      /\ state' = [t \in Threads |->
                      IF Hits(t) # {} /\ state[t] = "asleep" THEN "ready" ELSE state[t]]
      /\ err' = [t \in Threads |->
                      IF Hits(t) # {} /\ state[t] = "asleep" THEN 0 ELSE err[t]]
  BY DEF Wakes
<1>2. hit \in Seq(Records) /\ Hit(k, n) = ToSet(hit)
  <2>1. queue[k] \in Seq(Records) /\ IsInjective(queue[k])
    BY DEF FutexTypeOK, QueueExact
  <2>2. QED
    BY <2>1, WakeTakes, Parts DEF Hit
<1> HIDE DEF hit
<1>3. \A t \in Threads : Hits(t) # {} <=> t \in HitThreads(k, n)
  <2> SUFFICES ASSUME NEW t \in Threads PROVE Hits(t) # {} <=> t \in HitThreads(k, n)
    OBVIOUS
  <2>1. ASSUME NEW i \in Hits(t) PROVE t \in HitThreads(k, n)
    <3>1. hit[i] \in Records /\ hit[i][1] = t /\ hit[i] \in ToSet(hit)
      BY <1>2 DEF ToSet
    <3>2. hit[i] = <<t, hit[i][2]>> /\ hit[i][2] \in 1..MaxVector
      BY <3>1 DEF Records
    <3>3. QED
      BY <1>2, <3>1, <3>2 DEF HitThreads
  <2>2. ASSUME t \in HitThreads(k, n) PROVE Hits(t) # {}
    <3>1. PICK i \in 1..MaxVector : <<t, i>> \in ToSet(hit)
      BY <1>2, <2>2 DEF HitThreads
    <3>2. PICK j \in DOMAIN hit : hit[j] = <<t, i>>
      BY <3>1 DEF ToSet
    <3>3. QED
      BY <3>2
  <2>3. QED
    BY <2>1, <2>2
<1>4. \A t \in Threads : Hits(t) # {} => hit[Max(Hits(t))][2] \in 1..MaxVector
  <2> SUFFICES ASSUME NEW t \in Threads, Hits(t) # {} PROVE hit[Max(Hits(t))][2] \in 1..MaxVector
    OBVIOUS
  <2>1. Len(hit) \in Nat /\ Hits(t) \in SUBSET (1..Len(hit))
    BY <1>2
  <2>2. Max(Hits(t)) \in Hits(t)
    BY <2>1, LargestPosition
  <2>3. hit[Max(Hits(t))] \in Records
    BY <1>2, <2>2
  <2>4. QED
    BY <2>3 DEF Records
<1>5. MaxVector \in Nat
  BY FutexAssumption
<1> HIDE DEF Hits
<1>6. woken' \in [Threads -> 0..MaxVector]
  <2>1. \A t \in Threads : woken[t] \in 0..MaxVector
    BY DEF FutexTypeOK
  <2>2. QED
    BY <1>1, <1>4, <1>5, <2>1
<1>7. state' \in [Threads -> {"run", "asleep", "ready"}] /\ err' \in [Threads -> {0, EINTR, ETIMEDOUT}]
  BY <1>1 DEF FutexTypeOK
<1>8. \A t \in HitThreads(k, n) : woken'[t] # 0 /\ state'[t] # "asleep"
  <2>1. \A t \in HitThreads(k, n) : t \in Threads /\ Hits(t) # {}
    BY <1>3 DEF HitThreads
  <2>2. QED
    BY <1>1, <1>4, <2>1
<1>9. \A t \in Threads \ HitThreads(k, n) : woken'[t] = woken[t] /\ state'[t] = state[t]
  BY <1>1, <1>3
<1>10. \A t \in Threads : (state'[t] = "run" <=> state[t] = "run") /\ (state'[t] = "asleep" => state[t] = "asleep")
  BY <1>1
<1>11. QED
  BY <1>6, <1>7, <1>8, <1>9, <1>10

\* Records of a vector, queued by key.
LEMMA EnqueueAdds ==
    ASSUME FutexTypeOK, QueueExact, NEW t \in Threads, state[t] = "run", NEW n \in 0..MaxVector,
           NEW ks \in [1..n -> Keys], NEW k \in Keys
    PROVE  /\ Enqueue(t, ks)[k] \in Seq(Records) /\ IsInjective(Enqueue(t, ks)[k])
           /\ ToSet(Enqueue(t, ks)[k]) = ToSet(queue[k]) \cup RecordsOf(t, ks, k)
<1> DEFINE recs == [i \in DOMAIN ks |-> <<t, i>>]
           S == {i \in DOMAIN ks : ks[i] = k}
<1>1. MaxVector \in Nat /\ n \in Nat /\ DOMAIN ks = 1..n
  BY FutexAssumption
<1>2. recs \in Seq(Records) /\ DOMAIN recs = 1..n /\ IsInjective(recs)
      /\ \A i \in 1..n : recs[i] = <<t, i>>
  <2>1. \A i \in 1..n : <<t, i>> \in Records
    BY <1>1 DEF Records
  <2>2. recs \in Seq(Records)
    BY <1>1, <2>1, IsASeq
  <2>3. QED
    BY <1>1, <2>2 DEF IsInjective
<1>3. queue[k] \in Seq(Records) /\ IsInjective(queue[k]) /\ \A w \in ToSet(queue[k]) : w[1] # t
  BY DEF FutexTypeOK, QueueExact, Waiting
<1> HIDE DEF recs
<1>4. S \in SUBSET DOMAIN recs
  BY <1>1, <1>2
<1>5. /\ Select(recs, S) \in Seq(Records) /\ ToSet(Select(recs, S)) = {recs[i] : i \in S}
      /\ IsInjective(Select(recs, S))
  BY <1>2, <1>4, Selection
<1>6. ToSet(Select(recs, S)) = RecordsOf(t, ks, k)
  BY <1>1, <1>2, <1>5 DEF RecordsOf
<1>7. ToSet(queue[k]) \cap ToSet(Select(recs, S)) = {}
  BY <1>3, <1>6 DEF RecordsOf
<1>8. Enqueue(t, ks)[k] = queue[k] \o Select(recs, S)
  BY DEF Enqueue, recs
<1> HIDE DEF S
<1>9. /\ queue[k] \o Select(recs, S) \in Seq(Records)
      /\ ToSet(queue[k] \o Select(recs, S)) = ToSet(queue[k]) \cup ToSet(Select(recs, S))
      /\ IsInjective(queue[k] \o Select(recs, S))
  BY <1>3, <1>5, <1>7, Joined
<1>10. QED
  BY <1>6, <1>8, <1>9

\* All records of a thread, taken out of their queues.
LEMMA DequeueTakes ==
    ASSUME FutexTypeOK, QueueExact, NEW t \in Threads, NEW k \in Keys
    PROVE  /\ Dequeue(t)[k] \in Seq(Records) /\ IsInjective(Dequeue(t)[k])
           /\ ToSet(Dequeue(t)[k]) = {w \in ToSet(queue[k]) : w[1] # t}
<1> DEFINE S == {n \in DOMAIN queue[k] : queue[k][n] \notin {t} \X (1..MaxVector)}
<1>1. queue[k] \in Seq(Records) /\ IsInjective(queue[k])
  BY DEF FutexTypeOK, QueueExact
<1>2. Dequeue(t)[k] = Select(queue[k], S)
  BY DEF Dequeue, Unlink
<1>3. /\ Select(queue[k], S) \in Seq(Records) /\ ToSet(Select(queue[k], S)) = {queue[k][i] : i \in S}
      /\ IsInjective(Select(queue[k], S))
  BY <1>1, Selection
<1>4. \A w \in Records : w \notin {t} \X (1..MaxVector) <=> w[1] # t
  BY DEF Records
<1>5. \A n \in DOMAIN queue[k] : queue[k][n] \in Records
  BY <1>1
<1>6. {queue[k][i] : i \in S} = {w \in ToSet(queue[k]) : w[1] # t}
  BY <1>4, <1>5 DEF ToSet
<1>7. QED
  BY <1>2, <1>3, <1>6

----------------------------------------------------------------------------
(* References *)

\* There are finitely many records.
LEMMA FiniteRecords ==
    /\ IsFiniteSet(Records)
    /\ \A S \in SUBSET Records : IsFiniteSet(S) /\ Cardinality(S) \in Nat
<1>1. IsFiniteSet(Threads)
  BY FutexAssumption, FS_Union DEF Threads
<1>2. MaxVector \in Int /\ 1 \in Int
  BY FutexAssumption
<1>3. IsFiniteSet(1..MaxVector)
  BY <1>2, FS_Interval
<1>4. IsFiniteSet(Records)
  BY <1>1, <1>3, FS_Product DEF Records
<1>5. QED
  BY <1>4, FS_Subset, FS_CardinalityType

\* A vector names a key as often as it makes records for it.
LEMMA TimesNamed ==
    ASSUME NEW t \in Threads, NEW n \in 0..MaxVector, NEW ks \in [1..n -> Keys], NEW k \in Keys
    PROVE  /\ Times(k, ks) \in Nat
           /\ RecordsOf(t, ks, k) \subseteq Records
           /\ Times(k, ks) = Cardinality(RecordsOf(t, ks, k))
<1> DEFINE S == {j \in 1..n : ks[j] = k}
           R == {<<t, i>> : i \in S}
           f == [i \in S |-> <<t, i>>]
<1>1. MaxVector \in Nat /\ n \in Nat
  BY FutexAssumption
<1>2. S \in SUBSET (1..n) /\ DOMAIN ks = 1..n
  OBVIOUS
<1>3. IsFiniteSet(S) /\ Cardinality(S) \in Nat
  BY <1>1, <1>2, Ranks
<1>4. R \subseteq Records
  BY <1>1 DEF Records
<1>5. f \in Bijection(S, R)
  BY DEF Bijection, Injection, Surjection, IsInjective
<1>6. Cardinality(R) = Cardinality(S)
  BY <1>3, <1>5, FS_Bijection DEF ExistsBijection
<1>7. Times(k, ks) = Cardinality(S)
  BY <1>2 DEF Times
<1>8. RecordsOf(t, ks, k) = R
  BY <1>2 DEF RecordsOf
<1>9. QED
  BY <1>3, <1>4, <1>6, <1>7, <1>8

----------------------------------------------------------------------------
(* Steps *)

\* Parts of the invariant that a step leaves alone which changes neither queues
\* nor records nor woken indices and lets no thread in or out.
LEMMA Undisturbed ==
    ASSUME FutexInv, UNCHANGED <<refcount, queue, recordVars, woken>>,
           state' \in [Threads -> {"run", "asleep", "ready"}],
           \A t \in Threads : /\ state'[t] = "run" <=> state[t] = "run"
                              /\ state'[t] = "asleep" /\ waitv[t] => woken[t] = 0
    PROVE  RecordInv' /\ RefcountExact' /\ QueueExact'
<1> USE DEF FutexInv, recordVars
<1>1. RecordInv'
  BY DEF RecordInv
<1>2. RefcountExact'
  BY DEF RefcountExact, Naming
<1>3. \A t \in Threads : Waiting(t)' <=> Waiting(t)
  BY DEF Waiting
<1>4. QueueExact'
  <2>1. \A k \in Keys : \A w \in ToSet(queue[k]) : w[1] \in Threads
    <3>1. \A k \in Keys : queue[k] \in Seq(Records)
      BY DEF FutexTypeOK
    <3>2. QED
      BY <3>1 DEF ToSet, Records
  <2>2. QED
    BY <1>3, <2>1 DEF QueueExact
<1>5. QED
  BY <1>1, <1>2, <1>4

\* A store is followed by its wake.
LEMMA StoreKeeps ==
    ASSUME FutexInv, NEW t \in Wakers, NEW k \in Keys, NEW v \in Values, Store(t, k, v)
    PROVE  FutexInv'
<1>1. /\ owes[t] = NoKey /\ word' = [word EXCEPT ![k] = v] /\ owes' = [owes EXCEPT ![t] = k]
      /\ returned' = 0 /\ UNCHANGED <<refcount, queue, state, recordVars, woken, err>>
  BY DEF Store
<1>2. t \in Threads
  BY DEF Threads
<1>3. FutexTypeOK'
  <2>1. word' \in [Keys -> Values] /\ owes' \in [Threads -> Keys \cup {NoKey}] /\ returned' \in Int
    BY <1>1, <1>2 DEF FutexInv, FutexTypeOK
  <2>2. QED
    BY <1>1, <2>1, Zenon DEF FutexInv, FutexTypeOK, recordVars
<1>4. RecordInv' /\ RefcountExact' /\ QueueExact'
  <2>1. state' \in [Threads -> {"run", "asleep", "ready"}]
    BY <1>3 DEF FutexTypeOK
  <2>2. \A s \in Threads : /\ state'[s] = "run" <=> state[s] = "run"
                           /\ state'[s] = "asleep" /\ waitv[s] => woken[s] = 0
    BY <1>1 DEF FutexInv, QueueExact
  <2>3. QED
    BY <1>1, <2>1, <2>2, Undisturbed
<1>5. WordInv'
  <2> SUFFICES ASSUME NEW s \in Threads, NEW i \in DOMAIN asked[s],
                      Waiting(s), woken[s] = 0, asked[s][i] # Moved,
                      word'[asked[s][i][1]] # asked[s][i][2]
               PROVE  \E u \in Wakers : owes'[u] = asked[s][i][1]
    BY <1>1 DEF WordInv, Waiting, recordVars
  <2>1. owes'[t] = k /\ \A u \in Wakers : owes[u] # NoKey => owes'[u] = owes[u]
    BY <1>1, <1>2 DEF FutexInv, FutexTypeOK, Threads
  <2>2. asked[s][i][1] \in Keys
    <3>1. asked[s] \in Vectors((Keys \X Values) \cup {Moved})
      BY DEF FutexInv, FutexTypeOK
    <3>2. asked[s][i] \in (Keys \X Values) \cup {Moved}
      BY <3>1, VectorOf
    <3>3. QED
      BY <3>2
  <2>3. CASE asked[s][i][1] = k
    BY <2>1, <2>3
  <2>4. CASE asked[s][i][1] # k
    <3>1. word'[asked[s][i][1]] = word[asked[s][i][1]]
      BY <1>1, <2>2, <2>4 DEF FutexInv, FutexTypeOK
    <3>2. PICK u \in Wakers : owes[u] = asked[s][i][1]
      BY <3>1 DEF FutexInv, WordInv
    <3>3. QED
      BY <2>1, <2>2, <3>2, FutexAssumption
  <2>5. QED
    BY <2>3, <2>4
<1>6. QED
  BY <1>3, <1>4, <1>5 DEF FutexInv

\* A call that fails has changed nothing.
LEMMA FailKeeps ==
    ASSUME FutexInv, Fail
    PROVE  FutexInv'
<1>1. UNCHANGED <<word, refcount, queue, state, recordVars, woken, err, owes>> /\ returned' = 0
  BY DEF Fail
<1>2. FutexTypeOK'
  <2>1. returned' \in Int
    BY <1>1
  <2>2. QED
    BY <1>1, <2>1, Zenon DEF FutexInv, FutexTypeOK, recordVars
<1>3. RecordInv' /\ RefcountExact' /\ QueueExact' /\ WordInv'
  BY <1>1 DEF FutexInv, RecordInv, RefcountExact, Naming, QueueExact, WordInv, Waiting, recordVars
<1>4. QED
  BY <1>2, <1>3 DEF FutexInv

\* The references taken for the first objects of a vector are put back when the
\* next object cannot be allocated.
LEMMA NoMemoryKeeps ==
    ASSUME FutexInv, NEW t \in Waiters, NEW call \in Calls[t], NEW vec \in VectorsOf(call),
           WaitNoMemory(t, vec)
    PROVE  FutexInv'
<1> DEFINE ks == [i \in DOMAIN vec |-> vec[i][1]]
<1>1. PICK i \in DOMAIN ks :
         refcount' = Put(Get(refcount, SubSeq(ks, 1, i - 1)), SubSeq(ks, 1, i - 1))
  BY DEF WaitNoMemory
<1>2. UNCHANGED <<word, queue, state, recordVars, woken, err, owes>> /\ returned' = 0
  BY DEF WaitNoMemory
<1>3. \A k \in Keys : Times(k, SubSeq(ks, 1, i - 1)) \in Nat
  <2>1. PICK n \in 1..MaxVector : vec \in [1..n -> Keys \X Values]
    BY FutexAssumption DEF VectorsOf
  <2>2. ks \in [1..n -> Keys] /\ n \in Nat /\ DOMAIN vec = 1..n
    BY <2>1, FutexAssumption
  <2>3. i - 1 \in 0..MaxVector /\ i - 1 < n
    BY <2>1, <2>2, FutexAssumption
  <2>4. SubSeq(ks, 1, i - 1) \in [1..(i - 1) -> Keys]
    <3>1. ks \in Seq(Keys) /\ Len(ks) = n
      BY <2>2
    <3> HIDE DEF ks
    <3>2. SubSeq(ks, 1, i - 1) \in Seq(Keys) /\ Len(SubSeq(ks, 1, i - 1)) = i - 1
      BY <2>2, <2>3, <3>1
    <3>3. QED
      BY <3>2, LenProperties
  <2>5. t \in Threads
    BY DEF Threads
  <2> HIDE DEF ks
  <2>6. QED
    BY <2>3, <2>4, <2>5, TimesNamed
<1> HIDE DEF ks
<1>4. refcount' = refcount
  <2>1. refcount \in [Keys -> Nat]
    BY DEF FutexInv, FutexTypeOK
  <2>2. refcount' = [k \in Keys |-> Get(refcount, SubSeq(ks, 1, i - 1))[k] - Times(k, SubSeq(ks, 1, i - 1))]
    BY <1>1 DEF Put
  <2>3. \A k \in Keys : Get(refcount, SubSeq(ks, 1, i - 1))[k] = refcount[k] + Times(k, SubSeq(ks, 1, i - 1))
    BY DEF Get
  <2>4. \A k \in Keys : Get(refcount, SubSeq(ks, 1, i - 1))[k] - Times(k, SubSeq(ks, 1, i - 1)) = refcount[k]
    BY <1>3, <2>1, <2>3
  <2>5. refcount' = [k \in Keys |-> refcount[k]]
    BY <2>2, <2>4, Zenon
  <2>6. QED
    BY <2>1, <2>5
<1>5. Fail
  BY <1>2, <1>4 DEF Fail
<1>6. QED
  BY <1>5, FailKeeps

\* A thread stops sleeping, or sleeps again, without any change to its records.
LEMMA SleepKeeps ==
    ASSUME FutexInv, NEW t \in Waiters,
           (\E e \in {0, ETIMEDOUT, EINTR} : StopSleeping(t, e)) \/ LongWaitAgain(t) \/ WaitvAgain(t)
    PROVE  FutexInv'
<1>1. /\ UNCHANGED <<word, refcount, queue, recordVars, woken, owes>> /\ returned' = 0
      /\ Waiting(t)
      /\ \E x \in {"asleep", "ready"} : state' = [state EXCEPT ![t] = x]
      /\ \E e \in {0, EINTR, ETIMEDOUT} : err' = [err EXCEPT ![t] = e]
  BY DEF StopSleeping, LongWaitAgain, WaitvAgain, Waiting
<1>2. t \in Threads
  BY DEF Threads
<1>3. FutexTypeOK'
  <2>1. /\ state' \in [Threads -> {"run", "asleep", "ready"}] /\ returned' \in Int
        /\ err' \in [Threads -> {0, EINTR, ETIMEDOUT}]
    <3>1. PICK x \in {"asleep", "ready"}, e \in {0, EINTR, ETIMEDOUT} :
             state' = [state EXCEPT ![t] = x] /\ err' = [err EXCEPT ![t] = e]
      BY <1>1
    <3>2. state' \in [Threads -> {"run", "asleep", "ready"}]
      <4>1. state \in [Threads -> {"run", "asleep", "ready"}] /\ x \in {"run", "asleep", "ready"}
        BY DEF FutexInv, FutexTypeOK
      <4>2. [state EXCEPT ![t] = x] \in [Threads -> {"run", "asleep", "ready"}]
        BY <4>1, Updated
      <4>3. QED
        BY <3>1, <4>2
    <3>3. err' \in [Threads -> {0, EINTR, ETIMEDOUT}]
      BY <3>1, Zenon DEF FutexInv, FutexTypeOK
    <3>4. QED
      BY <1>1, <3>2, <3>3
  <2>2. QED
    BY <1>1, <2>1, Zenon DEF FutexInv, FutexTypeOK, recordVars
<1>4. \A s \in Threads : state'[s] = "run" <=> state[s] = "run"
  BY <1>1, <1>2 DEF Waiting, FutexInv, FutexTypeOK
<1>5. RecordInv' /\ RefcountExact' /\ QueueExact'
  <2>1. state'[t] = "asleep" /\ waitv[t] => woken[t] = 0
    BY <1>2 DEF StopSleeping, LongWaitAgain, WaitvAgain, FutexInv, FutexTypeOK
  <2>2. \A s \in Threads : state'[s] = "asleep" /\ waitv[s] => woken[s] = 0
    BY <1>1, <2>1 DEF FutexInv, FutexTypeOK, QueueExact
  <2>3. state' \in [Threads -> {"run", "asleep", "ready"}]
    BY <1>3 DEF FutexTypeOK
  <2>4. QED
    BY <1>1, <1>4, <2>2, <2>3, Undisturbed
<1>6. WordInv'
  BY <1>1, <1>4 DEF FutexInv, WordInv, Waiting, recordVars
<1>7. QED
  BY <1>3, <1>5, <1>6 DEF FutexInv

\* FUTEX_WAIT and futex_waitv queue their records.
LEMMA BeginKeeps ==
    ASSUME FutexInv, NEW t \in Waiters, NEW call \in Calls[t], NEW vec \in VectorsOf(call),
           WaitBegin(t, vec, call = "waitv")
    PROVE  FutexInv'
<1> DEFINE ks == [i \in DOMAIN vec |-> vec[i][1]]
<1>1. /\ ~Waiting(t) /\ \A i \in DOMAIN vec : word[vec[i][1]] = vec[i][2]
      /\ refcount' = Get(refcount, ks) /\ queue' = Enqueue(t, ks)
      /\ futex' = [futex EXCEPT ![t] = ks] /\ asked' = [asked EXCEPT ![t] = vec]
      /\ waitv' = [waitv EXCEPT ![t] = (call = "waitv")]
      /\ woken' = [woken EXCEPT ![t] = 0] /\ state' = [state EXCEPT ![t] = "asleep"]
      /\ returned' = 0 /\ UNCHANGED <<word, err, owes>>
  BY DEF WaitBegin, Waiting
<1>2. t \in Threads
  BY DEF Threads
<1>3. PICK n \in 1..MaxVector : vec \in [1..n -> Keys \X Values]
  BY FutexAssumption DEF VectorsOf
<1>4. /\ ks \in [1..n -> Keys] /\ DOMAIN vec = 1..n /\ n \in 0..MaxVector /\ n \in Nat
      /\ \A i \in 1..n : ks[i] = vec[i][1]
  BY <1>3, FutexAssumption
<1> HIDE DEF ks
<1> DEFINE R(k) == RecordsOf(t, ks, k)
<1>5. \A k \in Keys : /\ queue'[k] \in Seq(Records) /\ IsInjective(queue'[k])
                      /\ ToSet(queue'[k]) = ToSet(queue[k]) \cup R(k)
  <2>1. FutexTypeOK /\ QueueExact
    BY DEF FutexInv
  <2> SUFFICES ASSUME NEW k \in Keys
               PROVE  /\ queue'[k] \in Seq(Records) /\ IsInjective(queue'[k])
                      /\ ToSet(queue'[k]) = ToSet(queue[k]) \cup R(k)
    OBVIOUS
  <2>2. queue'[k] = Enqueue(t, ks)[k] /\ state[t] = "run"
    BY <1>1 DEF Waiting
  <2>3. ks \in [1..n -> Keys] /\ n \in 0..MaxVector
    BY <1>4
  <2>4. /\ Enqueue(t, ks)[k] \in Seq(Records) /\ IsInjective(Enqueue(t, ks)[k])
        /\ ToSet(Enqueue(t, ks)[k]) = ToSet(queue[k]) \cup RecordsOf(t, ks, k)
    BY <1>2, <2>1, <2>2, <2>3, EnqueueAdds
  <2>5. QED
    BY <2>2, <2>4
<1>6. \A k \in Keys : /\ Times(k, ks) \in Nat /\ R(k) \subseteq Records
                      /\ Times(k, ks) = Cardinality(R(k))
  <2> SUFFICES ASSUME NEW k \in Keys
               PROVE  /\ Times(k, ks) \in Nat /\ R(k) \subseteq Records
                      /\ Times(k, ks) = Cardinality(R(k))
    OBVIOUS
  <2>1. ks \in [1..n -> Keys] /\ n \in 0..MaxVector
    BY <1>4
  <2>2. /\ Times(k, ks) \in Nat
        /\ RecordsOf(t, ks, k) \subseteq Records
        /\ Times(k, ks) = Cardinality(RecordsOf(t, ks, k))
    BY <1>2, <2>1, TimesNamed
  <2>3. QED
    BY <2>2
<1>7. \A s \in Threads : /\ futex'[s] = IF s = t THEN ks ELSE futex[s]
                         /\ asked'[s] = IF s = t THEN vec ELSE asked[s]
                         /\ woken'[s] = IF s = t THEN 0 ELSE woken[s]
                         /\ state'[s] = IF s = t THEN "asleep" ELSE state[s]
  BY <1>1, <1>2 DEF FutexInv, FutexTypeOK
<1>8. futex[t] = NoRecords /\ DOMAIN futex[t] = {}
  BY <1>1, <1>2 DEF FutexInv, RecordInv, Waiting, NoRecords
<1>9. FutexTypeOK'
  <2>1. refcount' \in [Keys -> Nat]
    <3>1. \A k \in Keys : refcount[k] + Times(k, ks) \in Nat
      <4>1. \A k \in Keys : refcount[k] \in Nat
        BY DEF FutexInv, FutexTypeOK
      <4>2. \A k \in Keys : Times(k, ks) \in Nat
        BY <1>6
      <4>3. QED
        BY <4>1, <4>2
    <3>2. QED
      BY <1>1, <3>1 DEF Get
  <2>2. queue' \in [Keys -> Seq(Records)]
    <3>1. queue' = [k \in Keys |-> queue'[k]]
      BY <1>1 DEF Enqueue
    <3>2. QED
      BY <1>5, <3>1
  <2>3. state' \in [Threads -> {"run", "asleep", "ready"}] /\ woken' \in [Threads -> 0..MaxVector]
        /\ returned' \in Int
    <3>1. 0 \in 0..MaxVector
      BY FutexAssumption
    <3>2. QED
      <4>1. /\ state \in [Threads -> {"run", "asleep", "ready"}] /\ woken \in [Threads -> 0..MaxVector]
            /\ "asleep" \in {"run", "asleep", "ready"}
        BY DEF FutexInv, FutexTypeOK
      <4>2. /\ [state EXCEPT ![t] = "asleep"] \in [Threads -> {"run", "asleep", "ready"}]
            /\ [woken EXCEPT ![t] = 0] \in [Threads -> 0..MaxVector]
        BY <3>1, <4>1, Updated
      <4>3. returned' \in Int
        BY <1>1
      <4>4. QED
        BY <1>1, <4>2, <4>3, Zenon
  <2>4. waitv' \in [Threads -> BOOLEAN]
    BY <1>1, Zenon DEF FutexInv, FutexTypeOK
  <2>5. vec \in Vectors((Keys \X Values) \cup {Moved}) /\ ks \in Vectors(Keys)
    <3>1. vec \in [1..n -> (Keys \X Values) \cup {Moved}]
      BY <1>3
    <3>2. QED
      BY <1>4, <3>1 DEF Vectors
  <2>6. asked' \in [Threads -> Vectors((Keys \X Values) \cup {Moved})] /\ futex' \in [Threads -> Vectors(Keys)]
    BY <1>1, <2>5 DEF FutexInv, FutexTypeOK
  <2>7. QED
    BY <1>1, <2>1, <2>2, <2>3, <2>4, <2>6, Zenon DEF FutexInv, FutexTypeOK
<1>10. RecordInv'
  BY <1>4, <1>7 DEF FutexInv, RecordInv, NoRecords
<1>11. \A k \in Keys : Naming(k)' = Naming(k) \cup R(k) /\ Naming(k) \cap R(k) = {}
  <2> SUFFICES ASSUME NEW k \in Keys PROVE Naming(k)' = Naming(k) \cup R(k) /\ Naming(k) \cap R(k) = {}
    OBVIOUS
  <2>1. \A w \in Records : w \in R(k) <=> w[1] = t /\ w[2] \in DOMAIN ks /\ ks[w[2]] = k
    BY <1>4 DEF Records, RecordsOf
  <2>2. \A w \in Records : w \in Naming(k) => w[1] # t
    BY <1>8 DEF Naming
  <2>3. \A w \in Records : w \in Naming(k)' <=> w \in Naming(k) \/ w \in R(k)
    BY <1>7, <1>8, <2>1 DEF Naming, Records
  <2>4. Naming(k) \subseteq Records /\ Naming(k)' \subseteq Records /\ R(k) \subseteq Records
    BY <1>6 DEF Naming, Records
  <2> HIDE DEF R
  <2>5. QED
    BY <2>1, <2>2, <2>3, <2>4
<1>12. RefcountExact'
  <2> SUFFICES ASSUME NEW k \in Keys PROVE refcount'[k] = Cardinality(Naming(k)')
    BY DEF RefcountExact
  <2>1. IsFiniteSet(Naming(k)) /\ IsFiniteSet(R(k)) /\ Cardinality(Naming(k)) \in Nat
    BY <1>6, FiniteRecords DEF Naming, Records
  <2>2. Cardinality(Naming(k)') = Cardinality(Naming(k)) + Cardinality(R(k))
    <3>1. Cardinality(Naming(k) \cap R(k)) = 0
      BY <1>11, FS_EmptySet
    <3>2. Cardinality(Naming(k) \cup R(k)) = Cardinality(Naming(k)) + Cardinality(R(k)) - 0
      BY <2>1, <3>1, FS_Union
    <3>3. Cardinality(R(k)) \in Nat /\ Naming(k)' = Naming(k) \cup R(k)
      BY <1>6, <1>11
    <3> HIDE DEF R
    <3>4. QED
      BY <2>1, <3>2, <3>3
  <2>3. refcount'[k] = refcount[k] + Times(k, ks)
    BY <1>1 DEF Get
  <2>4. QED
    BY <1>6, <2>2, <2>3 DEF FutexInv, RefcountExact
<1>13. QueueExact'
  <2>1. ASSUME NEW k \in Keys, NEW w \in ToSet(queue'[k])
        PROVE  Waiting(w[1])' /\ w[2] \in DOMAIN futex'[w[1]] /\ futex'[w[1]][w[2]] = k
    <3>1. CASE w \in R(k)
      BY <1>2, <1>4, <1>7, <3>1 DEF Waiting, RecordsOf
    <3>2. CASE w \in ToSet(queue[k])
      <4>1. Waiting(w[1]) /\ w[2] \in DOMAIN futex[w[1]] /\ futex[w[1]][w[2]] = k
        BY <3>2 DEF FutexInv, QueueExact
      <4>2. w[1] \in Threads
        <5>1. queue[k] \in Seq(Records)
          BY DEF FutexInv, FutexTypeOK
        <5>2. QED
          BY <3>2, <5>1 DEF ToSet, Records
      <4>3. w[1] # t
        BY <1>1, <4>1
      <4>4. QED
        BY <1>7, <4>1, <4>2, <4>3 DEF Waiting
    <3>3. QED
      BY <1>5, <2>1, <3>1, <3>2
  <2>2. ASSUME NEW s \in Threads, NEW i \in DOMAIN futex'[s], woken'[s] = 0
        PROVE  <<s, i>> \in ToSet(queue'[futex'[s][i]])
    <3>1. CASE s = t
      BY <1>4, <1>5, <1>7, <2>2, <3>1 DEF RecordsOf
    <3>2. CASE s # t
      <4>1. futex'[s] = futex[s] /\ woken[s] = 0 /\ i \in DOMAIN futex[s]
        BY <1>7, <2>2, <3>2
      <4>2. futex[s][i] \in Keys
        BY <4>1, VectorOf DEF FutexInv, FutexTypeOK
      <4>3. <<s, i>> \in ToSet(queue[futex[s][i]])
        BY <4>1 DEF FutexInv, QueueExact
      <4>4. QED
        BY <1>5, <4>1, <4>2, <4>3
    <3>3. QED
      BY <3>1, <3>2
  <2>3. ASSUME NEW s \in Threads, state'[s] = "asleep", waitv'[s]
        PROVE  woken'[s] = 0
    <3>1. CASE s = t
      BY <1>7, <3>1
    <3>2. CASE s # t
      <4>1. waitv'[s] = waitv[s]
        BY <1>1, <3>2 DEF FutexInv, FutexTypeOK
      <4>2. QED
        BY <1>7, <2>3, <3>2, <4>1 DEF FutexInv, QueueExact
    <3>3. QED
      BY <3>1, <3>2
  <2>4. QED
    BY <1>5, <2>1, <2>2, <2>3 DEF QueueExact
<1>14. WordInv'
  <2> SUFFICES ASSUME NEW s \in Threads, NEW i \in DOMAIN asked'[s], Waiting(s)', woken'[s] = 0,
                      asked'[s][i] # Moved, word[asked'[s][i][1]] # asked'[s][i][2]
               PROVE  \E u \in Wakers : owes[u] = asked'[s][i][1]
    BY <1>1 DEF WordInv
  <2>1. s # t
    BY <1>1, <1>2, <1>7
  <2>2. QED
    BY <1>7, <2>1 DEF FutexInv, WordInv, Waiting
<1>15. QED
  BY <1>9, <1>10, <1>12, <1>13, <1>14 DEF FutexInv

\* A thread leaves with all its records and their references.
LEMMA LeaveKeeps ==
    ASSUME FutexInv, NEW t \in Waiters, NEW r \in Int, Leave(t, r)
    PROVE  FutexInv'
<1> DEFINE ks == futex[t]
<1>1. /\ refcount' = Put(refcount, ks) /\ queue' = Dequeue(t)
      /\ futex' = [futex EXCEPT ![t] = NoRecords] /\ asked' = [asked EXCEPT ![t] = NoRecords]
      /\ waitv' = [waitv EXCEPT ![t] = FALSE] /\ woken' = [woken EXCEPT ![t] = 0]
      /\ state' = [state EXCEPT ![t] = "run"] /\ err' = [err EXCEPT ![t] = 0]
      /\ returned' = r /\ UNCHANGED <<word, owes>>
  BY DEF Leave
<1>2. t \in Threads
  BY DEF Threads
<1>3. PICK n \in 0..MaxVector : ks \in [1..n -> Keys]
  <2>1. ks \in Vectors(Keys)
    BY <1>2 DEF FutexInv, FutexTypeOK
  <2>2. QED
    BY <2>1 DEF Vectors
<1>4. DOMAIN ks = 1..n
  BY <1>3
<1> DEFINE R(k) == RecordsOf(t, ks, k)
<1>5. \A k \in Keys : /\ queue'[k] \in Seq(Records) /\ IsInjective(queue'[k])
                      /\ ToSet(queue'[k]) = {w \in ToSet(queue[k]) : w[1] # t}
  <2>1. FutexTypeOK /\ QueueExact
    BY DEF FutexInv
  <2> SUFFICES ASSUME NEW k \in Keys
               PROVE  /\ queue'[k] \in Seq(Records) /\ IsInjective(queue'[k])
                      /\ ToSet(queue'[k]) = {w \in ToSet(queue[k]) : w[1] # t}
    OBVIOUS
  <2>2. queue'[k] = Dequeue(t)[k]
    BY <1>1
  <2>3. QED
    BY <1>2, <2>1, <2>2, DequeueTakes
<1>6. \A k \in Keys : /\ Times(k, ks) \in Nat /\ R(k) \subseteq Records
                      /\ Times(k, ks) = Cardinality(R(k))
  <2> SUFFICES ASSUME NEW k \in Keys
               PROVE  /\ Times(k, ks) \in Nat /\ R(k) \subseteq Records
                      /\ Times(k, ks) = Cardinality(R(k))
    OBVIOUS
  <2> HIDE DEF ks
  <2>1. QED
    BY <1>2, <1>3, TimesNamed
<1>7. \A s \in Threads : /\ futex'[s] = IF s = t THEN NoRecords ELSE futex[s]
                         /\ asked'[s] = IF s = t THEN NoRecords ELSE asked[s]
                         /\ woken'[s] = IF s = t THEN 0 ELSE woken[s]
                         /\ state'[s] = IF s = t THEN "run" ELSE state[s]
  BY <1>1, <1>2 DEF FutexInv, FutexTypeOK
<1>8. \A k \in Keys : Naming(k)' = Naming(k) \ R(k) /\ R(k) \subseteq Naming(k)
  <2> SUFFICES ASSUME NEW k \in Keys PROVE Naming(k)' = Naming(k) \ R(k) /\ R(k) \subseteq Naming(k)
    OBVIOUS
  <2>1. \A w \in Records : w \in R(k) <=> w[1] = t /\ w[2] \in DOMAIN ks /\ ks[w[2]] = k
    BY <1>4 DEF Records, RecordsOf
  <2>2. \A w \in Records : w \in R(k) => w \in Naming(k)
    BY <2>1 DEF Naming, Records
  <2>3. \A w \in Records : w \in Naming(k)' <=> w \in Naming(k) /\ w[1] # t
    BY <1>2, <1>7 DEF Naming, Records, NoRecords
  <2>4. \A w \in Records : w \in Naming(k) /\ w[1] = t => w \in R(k)
    BY <2>1 DEF Naming
  <2>5. Naming(k) \subseteq Records /\ Naming(k)' \subseteq Records /\ R(k) \subseteq Records
    BY <1>6 DEF Naming, Records
  <2> HIDE DEF R
  <2>6. QED
    BY <2>1, <2>2, <2>3, <2>4, <2>5
<1>9. RefcountExact' /\ \A k \in Keys : refcount'[k] \in Nat
  <2> SUFFICES ASSUME NEW k \in Keys
               PROVE  refcount'[k] = Cardinality(Naming(k)') /\ refcount'[k] \in Nat
    BY DEF RefcountExact
  <2>1. /\ IsFiniteSet(Naming(k)) /\ Cardinality(Naming(k)) \in Nat
        /\ Cardinality(Naming(k)') \in Nat
    BY <1>8, FiniteRecords DEF Naming, Records
  <2>2. Cardinality(Naming(k)') = Cardinality(Naming(k)) - Cardinality(R(k))
    <3>1. Naming(k) \cap R(k) = R(k) /\ Naming(k)' = Naming(k) \ R(k)
      BY <1>8
    <3> HIDE DEF R
    <3>2. Cardinality(Naming(k) \ R(k)) = Cardinality(Naming(k)) - Cardinality(Naming(k) \cap R(k))
      BY <2>1, FS_Difference
    <3>3. QED
      BY <3>1, <3>2
  <2>3. refcount'[k] = refcount[k] - Times(k, ks)
    BY <1>1 DEF Put
  <2>4. refcount[k] = Cardinality(Naming(k))
    BY DEF FutexInv, RefcountExact
  <2>5. QED
    BY <1>6, <2>1, <2>2, <2>3, <2>4
<1>10. FutexTypeOK'
  <2>1. refcount' \in [Keys -> Nat]
    <3>1. refcount' = [k \in Keys |-> refcount'[k]]
      BY <1>1 DEF Put
    <3>2. QED
      BY <1>9, <3>1
  <2>2. queue' \in [Keys -> Seq(Records)]
    <3>1. queue' = [k \in Keys |-> queue'[k]]
      BY <1>1 DEF Dequeue, Unlink
    <3>2. QED
      BY <1>5, <3>1
  <2>3. state' \in [Threads -> {"run", "asleep", "ready"}]
    <3>1. state \in [Threads -> {"run", "asleep", "ready"}] /\ "run" \in {"run", "asleep", "ready"}
      BY DEF FutexInv, FutexTypeOK
    <3>2. [state EXCEPT ![t] = "run"] \in [Threads -> {"run", "asleep", "ready"}]
      BY <3>1, Updated
    <3>3. QED
      BY <1>1, <3>2, Zenon
  <2>4. woken' \in [Threads -> 0..MaxVector]
    <3>1. woken \in [Threads -> 0..MaxVector] /\ 0 \in 0..MaxVector
      BY FutexAssumption DEF FutexInv, FutexTypeOK
    <3>2. [woken EXCEPT ![t] = 0] \in [Threads -> 0..MaxVector]
      BY <3>1, Updated
    <3>3. QED
      BY <1>1, <3>2, Zenon
  <2>5. err' \in [Threads -> {0, EINTR, ETIMEDOUT}]
    <3>1. err \in [Threads -> {0, EINTR, ETIMEDOUT}] /\ 0 \in {0, EINTR, ETIMEDOUT}
      BY DEF FutexInv, FutexTypeOK
    <3>2. [err EXCEPT ![t] = 0] \in [Threads -> {0, EINTR, ETIMEDOUT}]
      BY <3>1, Updated
    <3>3. QED
      BY <1>1, <3>2, Zenon
  <2>6. waitv' \in [Threads -> BOOLEAN]
    BY <1>1, Zenon DEF FutexInv, FutexTypeOK
  <2>7. NoRecords \in Vectors((Keys \X Values) \cup {Moved}) /\ NoRecords \in Vectors(Keys)
    <3>1. 0 \in 0..MaxVector /\ \A S : NoRecords \in [1..0 -> S]
      BY FutexAssumption DEF NoRecords
    <3>2. QED
      BY <3>1 DEF Vectors
  <2>8. asked' \in [Threads -> Vectors((Keys \X Values) \cup {Moved})] /\ futex' \in [Threads -> Vectors(Keys)]
    BY <1>1, <2>7 DEF FutexInv, FutexTypeOK
  <2>9. returned' \in Int
    BY <1>1
  <2>10. QED
    BY <1>1, <2>1, <2>2, <2>3, <2>4, <2>5, <2>6, <2>8, <2>9, Zenon DEF FutexInv, FutexTypeOK
<1>11. RecordInv'
  BY <1>7 DEF FutexInv, RecordInv, NoRecords
<1>12. QueueExact'
  <2>1. ASSUME NEW k \in Keys, NEW w \in ToSet(queue'[k])
        PROVE  Waiting(w[1])' /\ w[2] \in DOMAIN futex'[w[1]] /\ futex'[w[1]][w[2]] = k
    <3>1. w \in ToSet(queue[k]) /\ w[1] # t
      BY <1>5, <2>1
    <3>2. Waiting(w[1]) /\ w[2] \in DOMAIN futex[w[1]] /\ futex[w[1]][w[2]] = k
      BY <3>1 DEF FutexInv, QueueExact
    <3>3. w[1] \in Threads
      <4>1. queue[k] \in Seq(Records)
        BY DEF FutexInv, FutexTypeOK
      <4>2. QED
        BY <3>1, <4>1 DEF ToSet, Records
    <3>4. QED
      BY <1>7, <3>1, <3>2, <3>3 DEF Waiting
  <2>2. ASSUME NEW s \in Threads, NEW i \in DOMAIN futex'[s], woken'[s] = 0
        PROVE  <<s, i>> \in ToSet(queue'[futex'[s][i]])
    <3>1. s # t
      BY <1>7, <2>2 DEF NoRecords
    <3>2. futex'[s] = futex[s] /\ woken[s] = 0 /\ i \in DOMAIN futex[s]
      BY <1>7, <2>2, <3>1
    <3>3. futex[s][i] \in Keys
      BY <3>2, VectorOf DEF FutexInv, FutexTypeOK
    <3>4. <<s, i>> \in ToSet(queue[futex[s][i]])
      BY <3>2 DEF FutexInv, QueueExact
    <3>5. QED
      BY <1>5, <3>1, <3>2, <3>3, <3>4
  <2>3. ASSUME NEW s \in Threads, state'[s] = "asleep", waitv'[s]
        PROVE  woken'[s] = 0
    <3>1. CASE s = t
      BY <1>7, <3>1
    <3>2. CASE s # t
      <4>1. waitv'[s] = waitv[s]
        BY <1>1, <3>2 DEF FutexInv, FutexTypeOK
      <4>2. QED
        BY <1>7, <2>3, <3>2, <4>1 DEF FutexInv, QueueExact
    <3>3. QED
      BY <3>1, <3>2
  <2>4. QED
    BY <1>5, <2>1, <2>2, <2>3 DEF QueueExact
<1>13. WordInv'
  <2> SUFFICES ASSUME NEW s \in Threads, NEW i \in DOMAIN asked'[s], Waiting(s)', woken'[s] = 0,
                      asked'[s][i] # Moved, word[asked'[s][i][1]] # asked'[s][i][2]
               PROVE  \E u \in Wakers : owes[u] = asked'[s][i][1]
    BY <1>1 DEF WordInv
  <2>1. s # t
    BY <1>7 DEF Waiting
  <2>2. QED
    BY <1>7, <2>1 DEF FutexInv, WordInv, Waiting
<1>14. QED
  BY <1>9, <1>10, <1>11, <1>12, <1>13 DEF FutexInv

\* FUTEX_WAKE: woken records leave the queue and keep their references.  A
\* thread that owed a wake is free of it only when all records were woken.
LEMMA WakeKeeps ==
    ASSUME FutexInv, NEW k \in Keys, NEW n \in Nat, Wakes(k, n),
           queue' = [queue EXCEPT ![k] = Rest(k, n)],
           UNCHANGED <<word, refcount, recordVars>>, returned' = 0,
           owes' \in [Threads -> Keys \cup {NoKey}],
           \A u \in Wakers : owes'[u] = owes[u] \/ (owes[u] = k /\ n >= Len(queue[k]))
    PROVE  FutexInv'
<1>1. FutexTypeOK /\ RecordInv /\ RefcountExact /\ QueueExact /\ WordInv
  BY DEF FutexInv
<1>2. UNCHANGED <<word, refcount, waitv, asked, futex>>
  BY DEF recordVars
<1>3. /\ Hit(k, n) \subseteq ToSet(queue[k])
      /\ Rest(k, n) \in Seq(Records) /\ IsInjective(Rest(k, n))
      /\ ToSet(Rest(k, n)) = ToSet(queue[k]) \ Hit(k, n)
  BY <1>1, WakeTakes
<1>4. /\ woken' \in [Threads -> 0..MaxVector]
      /\ state' \in [Threads -> {"run", "asleep", "ready"}]
      /\ err' \in [Threads -> {0, EINTR, ETIMEDOUT}]
      /\ \A t \in HitThreads(k, n) : woken'[t] # 0 /\ state'[t] # "asleep"
      /\ \A t \in Threads \ HitThreads(k, n) : woken'[t] = woken[t] /\ state'[t] = state[t]
      /\ \A t \in Threads : /\ state'[t] = "run" <=> state[t] = "run"
                            /\ state'[t] = "asleep" => state[t] = "asleep"
  BY <1>1, WakeTells
<1>5. \A j \in Keys : queue'[j] = IF j = k THEN Rest(k, n) ELSE queue[j]
  BY <1>1 DEF FutexTypeOK
<1>6. \A j \in Keys : queue[j] \in Seq(Records) /\ \A w \in ToSet(queue[j]) : w[1] \in Threads
  <2>1. \A j \in Keys : queue[j] \in Seq(Records)
    BY <1>1 DEF FutexTypeOK
  <2>2. QED
    BY <2>1 DEF ToSet, Records
<1>7. \A t \in Threads, i \in 1..MaxVector : woken'[t] = 0 => <<t, i>> \notin Hit(k, n)
  BY <1>4 DEF HitThreads
<1>8. \A t \in Threads : woken'[t] = 0 => woken[t] = 0 /\ state'[t] = state[t]
  BY <1>4
<1>9. \A t \in Threads : DOMAIN futex[t] \subseteq 1..MaxVector /\ \A i \in DOMAIN futex[t] : futex[t][i] \in Keys
  <2>1. \A t \in Threads : futex[t] \in Vectors(Keys)
    BY <1>1 DEF FutexTypeOK
  <2>2. QED
    BY <2>1, VectorOf
<1>10. FutexTypeOK'
  <2>1. queue' \in [Keys -> Seq(Records)] /\ returned' \in Int
    BY <1>1, <1>3 DEF FutexTypeOK
  <2>2. QED
    BY <1>1, <1>2, <1>4, <2>1, Zenon DEF FutexTypeOK
<1>11. RecordInv'
  <2> SUFFICES ASSUME NEW t \in Threads
               PROVE  /\ DOMAIN asked[t] = DOMAIN futex[t]
                      /\ \A i \in DOMAIN asked[t] : asked[t][i] # Moved => asked[t][i][1] = futex[t][i]
                      /\ state'[t] = "run" => futex[t] = NoRecords /\ woken'[t] = 0
    BY <1>2 DEF RecordInv
  <2>1. /\ DOMAIN asked[t] = DOMAIN futex[t]
        /\ \A i \in DOMAIN asked[t] : asked[t][i] # Moved => asked[t][i][1] = futex[t][i]
    BY <1>1 DEF RecordInv
  <2>2. ASSUME state'[t] = "run" PROVE futex[t] = NoRecords /\ woken'[t] = 0
    <3>1. state[t] = "run" /\ futex[t] = NoRecords /\ woken[t] = 0
      BY <1>1, <1>4, <2>2 DEF RecordInv
    <3>2. t \notin HitThreads(k, n)
      <4>1. \A w \in ToSet(queue[k]) : w[1] # t
        BY <1>1, <3>1 DEF QueueExact, Waiting
      <4>2. QED
        BY <1>3, <4>1 DEF HitThreads
    <3>3. QED
      BY <1>4, <3>1, <3>2
  <2>3. QED
    BY <2>1, <2>2
<1>12. RefcountExact'
  BY <1>1, <1>2 DEF RefcountExact, Naming
<1>13. QueueExact'
  <2>1. ASSUME NEW j \in Keys, NEW w \in ToSet(queue'[j])
        PROVE  Waiting(w[1])' /\ w[2] \in DOMAIN futex[w[1]] /\ futex[w[1]][w[2]] = j
    <3>1. w \in ToSet(queue[j])
      BY <1>3, <1>5, <2>1
    <3>2. Waiting(w[1]) /\ w[2] \in DOMAIN futex[w[1]] /\ futex[w[1]][w[2]] = j
      BY <1>1, <3>1 DEF QueueExact
    <3>3. w[1] \in Threads
      BY <1>6, <3>1
    <3>4. QED
      BY <1>4, <3>2, <3>3 DEF Waiting
  <2>2. ASSUME NEW s \in Threads, NEW i \in DOMAIN futex[s], woken'[s] = 0
        PROVE  <<s, i>> \in ToSet(queue'[futex[s][i]])
    <3>1. <<s, i>> \in ToSet(queue[futex[s][i]]) /\ <<s, i>> \notin Hit(k, n) /\ futex[s][i] \in Keys
      BY <1>1, <1>7, <1>8, <1>9, <2>2 DEF QueueExact
    <3>2. QED
      BY <1>3, <1>5, <3>1
  <2>3. ASSUME NEW s \in Threads, state'[s] = "asleep", waitv[s]
        PROVE  woken'[s] = 0
    <3>1. s \notin HitThreads(k, n)
      BY <1>4, <2>3
    <3>2. state[s] = "asleep" /\ woken'[s] = woken[s]
      BY <1>4, <2>3, <3>1
    <3>3. QED
      BY <1>1, <2>3, <3>2 DEF QueueExact
  <2>4. \A j \in Keys : IsInjective(queue'[j])
    BY <1>1, <1>3, <1>5 DEF QueueExact
  <2>5. QED
    BY <1>2, <2>1, <2>2, <2>3, <2>4 DEF QueueExact
<1>14. WordInv'
  <2> SUFFICES ASSUME NEW s \in Threads, NEW i \in DOMAIN asked[s], Waiting(s)', woken'[s] = 0,
                      asked[s][i] # Moved, word[asked[s][i][1]] # asked[s][i][2]
               PROVE  \E u \in Wakers : owes'[u] = asked[s][i][1]
    BY <1>2 DEF WordInv
  <2>1. Waiting(s) /\ woken[s] = 0
    BY <1>8 DEF Waiting
  <2>2. PICK u \in Wakers : owes[u] = asked[s][i][1]
    BY <1>1, <2>1 DEF WordInv
  <2>3. ~(owes[u] = k /\ n >= Len(queue[k]))
    <3> SUFFICES ASSUME owes[u] = k, n >= Len(queue[k]) PROVE FALSE
      OBVIOUS
    <3>1. i \in DOMAIN futex[s] /\ futex[s][i] = k
      BY <1>1, <2>2 DEF RecordInv
    <3>2. <<s, i>> \in ToSet(queue[k])
      BY <1>1, <2>1, <3>1 DEF QueueExact
    <3>3. Hit(k, n) = ToSet(queue[k])
      <4>1. queue[k] \in Seq(Records) /\ Len(queue[k]) \in Nat
        BY <1>6
      <4>2. Atmost(n, queue[k]) = Len(queue[k]) /\ SubSeq(queue[k], 1, Len(queue[k])) = queue[k]
        BY <4>1 DEF Atmost
      <4>3. QED
        BY <4>2 DEF Hit
    <3>4. QED
      BY <1>7, <1>9, <3>1, <3>2, <3>3
  <2>4. QED
    BY <2>2, <2>3
<1>15. QED
  BY <1>10, <1>11, <1>12, <1>13, <1>14 DEF FutexInv

\* FUTEX_WAKE of some: nobody is freed of a wake.
LEMMA FutexWakeKeeps ==
    ASSUME FutexInv, NEW t \in Wakers, NEW k \in Keys, NEW n \in Counts, FutexWake(t, k, n)
    PROVE  FutexInv'
<1>1. n \in Nat
  BY FutexAssumption
<1>2. /\ Wakes(k, n) /\ queue' = [queue EXCEPT ![k] = Rest(k, n)] /\ returned' = 0
      /\ UNCHANGED <<word, refcount, recordVars>> /\ owes' = owes
  BY DEF FutexWake
<1>3. owes' \in [Threads -> Keys \cup {NoKey}]
  BY <1>2 DEF FutexInv, FutexTypeOK
<1>4. \A u \in Wakers : owes'[u] = owes[u] \/ (owes[u] = k /\ n >= Len(queue[k]))
  BY <1>2
<1>5. QED
  BY <1>1, <1>2, <1>3, <1>4, WakeKeeps

\* The wake after a store: the thread owes nothing any more, and no record for
\* that word is left in the queue.
LEMMA WakeAllKeeps ==
    ASSUME FutexInv, NEW t \in Wakers, WakeAll(t)
    PROVE  FutexInv'
<1> DEFINE k == owes[t]
           n == Len(queue[k])
<1>1. /\ k # NoKey /\ Wakes(k, n) /\ queue' = [queue EXCEPT ![k] = <<>>] /\ returned' = 0
      /\ UNCHANGED <<word, refcount, recordVars>> /\ owes' = [owes EXCEPT ![t] = NoKey]
  BY DEF WakeAll
<1>2. owes \in [Threads -> Keys \cup {NoKey}] /\ t \in Threads /\ k \in Keys
  BY <1>1 DEF FutexInv, FutexTypeOK, Threads
<1>3. queue[k] \in Seq(Records) /\ n \in Nat
  <2>1. queue[k] \in Seq(Records)
    BY <1>2 DEF FutexInv, FutexTypeOK
  <2>2. QED
    BY <2>1
<1>4. Rest(k, n) = <<>>
  BY <1>3 DEF Rest, Atmost
<1>5. owes' \in [Threads -> Keys \cup {NoKey}]
  BY <1>1, <1>2
<1>6. \A u \in Wakers : owes'[u] = owes[u] \/ (owes[u] = k /\ n >= Len(queue[k]))
  BY <1>1, <1>2, <1>3 DEF Threads
<1> HIDE DEF k, n
<1>7. queue' = [queue EXCEPT ![k] = Rest(k, n)]
  BY <1>1, <1>4
<1>8. QED
  BY <1>1, <1>2, <1>3, <1>5, <1>6, <1>7, WakeKeeps

\* The records that a requeue leaves where they are.
Left(k, n, m) ==
    SubSeq(Rest(k, n), Len(Candidates(k, n, m)) + 1, Len(Rest(k, n)))

\* The moved records were queued on the source, were not woken, and are as many
\* as the references that move with them.
LEMMA RequeueTakes ==
    ASSUME FutexTypeOK, QueueExact, NEW k \in Keys, NEW n \in Nat, NEW m \in Nat
    PROVE  /\ Candidates(k, n, m) \in Seq(Records) /\ IsInjective(Candidates(k, n, m))
           /\ Len(Candidates(k, n, m)) \in Nat
           /\ Cardinality(ToSet(Candidates(k, n, m))) = Len(Candidates(k, n, m))
           /\ ToSet(Candidates(k, n, m)) \subseteq ToSet(queue[k]) \ Hit(k, n)
           /\ Left(k, n, m) \in Seq(Records) /\ IsInjective(Left(k, n, m))
           /\ ToSet(Left(k, n, m)) = (ToSet(queue[k]) \ Hit(k, n)) \ ToSet(Candidates(k, n, m))
<1> DEFINE rest == Rest(k, n)
           c == Atmost(m, rest)
           moved == SubSeq(rest, 1, c)
<1>1. /\ rest \in Seq(Records) /\ IsInjective(rest)
      /\ ToSet(rest) = ToSet(queue[k]) \ Hit(k, n)
  BY WakeTakes
<1> HIDE DEF rest
<1>2. c \in 0..Len(rest)
  <2>1. Len(rest) \in Nat
    BY <1>1
  <2>2. QED
    BY <2>1 DEF Atmost
<1>3. Candidates(k, n, m) = moved /\ Left(k, n, m) = SubSeq(rest, Len(moved) + 1, Len(rest))
  BY DEF Candidates, Left, rest
<1> HIDE DEF c
<1>4. /\ moved \in Seq(Records) /\ SubSeq(rest, c + 1, Len(rest)) \in Seq(Records)
      /\ Len(moved) = c
      /\ IsInjective(moved) /\ IsInjective(SubSeq(rest, c + 1, Len(rest)))
      /\ ToSet(moved) \subseteq ToSet(rest)
      /\ ToSet(SubSeq(rest, c + 1, Len(rest))) = ToSet(rest) \ ToSet(moved)
  BY <1>1, <1>2, Parts
<1> HIDE DEF moved
<1>5. Cardinality(ToSet(moved)) = Len(moved) /\ Len(moved) \in Nat
  BY <1>4, DistinctElements
<1>6. QED
  BY <1>1, <1>3, <1>4, <1>5

\* FUTEX_REQUEUE: the moved records and their references change object
\* together, while their threads sleep.
LEMMA RequeueKeeps ==
    ASSUME FutexInv, NEW t \in Wakers, NEW src \in Keys, NEW dst \in Keys,
           NEW n \in Counts, NEW m \in Counts, Requeue(t, src, dst, n, m)
    PROVE  FutexInv'
<1> DEFINE moved == Candidates(src, n, m)
           M == ToSet(moved)
<1>1. FutexTypeOK /\ RecordInv /\ RefcountExact /\ QueueExact /\ WordInv
  BY DEF FutexInv
<1>2. /\ src # dst /\ Wakes(src, n)
      /\ queue' = [queue EXCEPT ![src] = Left(src, n, m), ![dst] = @ \o moved]
      /\ refcount' = [refcount EXCEPT ![src] = @ - Len(moved), ![dst] = @ + Len(moved)]
      /\ futex' = [s \in Threads |-> [i \in DOMAIN futex[s] |->
                      IF <<s, i>> \in M THEN dst ELSE futex[s][i]]]
      /\ asked' = [s \in Threads |-> [i \in DOMAIN asked[s] |->
                      IF <<s, i>> \in M THEN Moved ELSE asked[s][i]]]
      /\ returned' = 0 /\ UNCHANGED <<word, waitv, owes>>
  BY DEF Requeue, Left
<1>3. n \in Nat /\ m \in Nat
  BY FutexAssumption
<1>4. /\ moved \in Seq(Records) /\ IsInjective(moved) /\ Len(moved) \in Nat
      /\ Cardinality(M) = Len(moved) /\ M \subseteq ToSet(queue[src]) \ Hit(src, n)
      /\ Left(src, n, m) \in Seq(Records) /\ IsInjective(Left(src, n, m))
      /\ ToSet(Left(src, n, m)) = (ToSet(queue[src]) \ Hit(src, n)) \ M
  BY <1>1, <1>3, RequeueTakes
<1> HIDE DEF moved, M
<1>5. /\ woken' \in [Threads -> 0..MaxVector]
      /\ state' \in [Threads -> {"run", "asleep", "ready"}]
      /\ err' \in [Threads -> {0, EINTR, ETIMEDOUT}]
      /\ \A s \in HitThreads(src, n) : woken'[s] # 0 /\ state'[s] # "asleep"
      /\ \A s \in Threads \ HitThreads(src, n) : woken'[s] = woken[s] /\ state'[s] = state[s]
      /\ \A s \in Threads : /\ state'[s] = "run" <=> state[s] = "run"
                            /\ state'[s] = "asleep" => state[s] = "asleep"
  BY <1>1, <1>2, <1>3, WakeTells
<1>6. \A j \in Keys : queue[j] \in Seq(Records) /\ ToSet(queue[j]) \subseteq Records
  <2>1. \A j \in Keys : queue[j] \in Seq(Records)
    BY <1>1 DEF FutexTypeOK
  <2>2. QED
    BY <2>1 DEF ToSet
<1>7. \A w \in Records : w[1] \in Threads /\ w[2] \in 1..MaxVector /\ w = <<w[1], w[2]>>
  BY DEF Records
<1>8. \A j \in Keys : \A w \in ToSet(queue[j]) :
         Waiting(w[1]) /\ w[2] \in DOMAIN futex[w[1]] /\ futex[w[1]][w[2]] = j
  BY <1>1 DEF QueueExact
<1>9. /\ M \subseteq Records
      /\ \A w \in M : Waiting(w[1]) /\ w[2] \in DOMAIN futex[w[1]] /\ futex[w[1]][w[2]] = src
  BY <1>4, <1>6, <1>8
<1>10. \A s \in Threads : /\ futex[s] \in Vectors(Keys) /\ DOMAIN futex[s] \subseteq 1..MaxVector
                          /\ \A i \in DOMAIN futex[s] : futex[s][i] \in Keys
  <2>1. \A s \in Threads : futex[s] \in Vectors(Keys)
    BY <1>1 DEF FutexTypeOK
  <2>2. QED
    BY <2>1, VectorOf
<1>11. \A s \in Threads : /\ asked[s] \in Vectors((Keys \X Values) \cup {Moved})
                          /\ \A i \in DOMAIN asked[s] : asked[s][i] \in (Keys \X Values) \cup {Moved}
  <2>1. \A s \in Threads : asked[s] \in Vectors((Keys \X Values) \cup {Moved})
    BY <1>1 DEF FutexTypeOK
  <2>2. QED
    BY <2>1, VectorOf
<1>12. \A s \in Threads :
          /\ DOMAIN futex'[s] = DOMAIN futex[s] /\ DOMAIN asked'[s] = DOMAIN asked[s]
          /\ \A i \in DOMAIN futex[s] : futex'[s][i] = IF <<s, i>> \in M THEN dst ELSE futex[s][i]
          /\ \A i \in DOMAIN asked[s] : asked'[s][i] = IF <<s, i>> \in M THEN Moved ELSE asked[s][i]
  BY <1>2
<1>13. /\ queue'[src] = Left(src, n, m) /\ queue'[dst] = queue[dst] \o moved
       /\ \A j \in Keys \ {src, dst} : queue'[j] = queue[j]
  BY <1>1, <1>2 DEF FutexTypeOK
<1>14. /\ queue[dst] \o moved \in Seq(Records) /\ IsInjective(queue[dst] \o moved)
       /\ ToSet(queue[dst] \o moved) = ToSet(queue[dst]) \cup M
  <2>1. ToSet(queue[dst]) \cap M = {}
    BY <1>2, <1>8, <1>9
  <2>2. queue[dst] \in Seq(Records) /\ IsInjective(queue[dst])
    BY <1>1, <1>6 DEF QueueExact
  <2>3. QED
    BY <1>4, <2>1, <2>2, Joined DEF M
<1>15. \A s \in Threads, i \in 1..MaxVector : woken'[s] = 0 => <<s, i>> \notin Hit(src, n)
  BY <1>5 DEF HitThreads
<1>16. \A s \in Threads : woken'[s] = 0 => woken[s] = 0 /\ state'[s] = state[s]
  BY <1>5
<1>17. /\ Naming(src)' = Naming(src) \ M /\ M \subseteq Naming(src)
       /\ Naming(dst)' = Naming(dst) \cup M /\ Naming(dst) \cap M = {}
       /\ \A j \in Keys \ {src, dst} : Naming(j)' = Naming(j)
  <2>1. \A j \in Keys : Naming(j) \subseteq Records /\ Naming(j)' \subseteq Records
    BY DEF Naming, Records
  <2>2. \A j \in Keys : \A w \in Records :
           w \in Naming(j) <=> w[2] \in DOMAIN futex[w[1]] /\ futex[w[1]][w[2]] = j
    BY DEF Naming, Records
  <2>3. \A j \in Keys : \A w \in Records :
           w \in Naming(j)' <=> w[2] \in DOMAIN futex[w[1]] /\ futex'[w[1]][w[2]] = j
    BY <1>7, <1>12 DEF Naming, Records
  <2>4. M \subseteq Naming(src)
    BY <1>9, <2>2
  <2>5. \A w \in Records : w[2] \in DOMAIN futex[w[1]] =>
           futex'[w[1]][w[2]] = IF w \in M THEN dst ELSE futex[w[1]][w[2]]
    BY <1>7, <1>12
  <2>6. \A j \in Keys : \A w \in Records :
           w \in Naming(j)' <=> IF w \in M THEN j = dst ELSE w \in Naming(j)
    BY <1>9, <2>2, <2>3, <2>5
  <2>7. Naming(dst) \cap M = {}
    BY <1>2, <1>9, <2>2
  <2>8. Naming(src)' = Naming(src) \ M
    BY <1>2, <2>1, <2>6
  <2>9. Naming(dst)' = Naming(dst) \cup M
    BY <1>9, <2>1, <2>6
  <2>10. \A j \in Keys \ {src, dst} : Naming(j)' = Naming(j)
    <3> SUFFICES ASSUME NEW j \in Keys \ {src, dst} PROVE Naming(j)' = Naming(j)
      OBVIOUS
    <3>1. \A w \in M : w \notin Naming(j)
      BY <1>9, <2>2
    <3>2. QED
      BY <2>1, <2>6, <3>1
  <2>11. QED
    BY <2>4, <2>7, <2>8, <2>9, <2>10
<1>18. RefcountExact' /\ refcount' \in [Keys -> Nat]
  <2>1. \A j \in Keys : /\ refcount[j] = Cardinality(Naming(j)) /\ refcount[j] \in Nat
                        /\ IsFiniteSet(Naming(j)) /\ Cardinality(Naming(j)) \in Nat
    <3>1. \A j \in Keys : Naming(j) \subseteq Records
      BY DEF Naming, Records
    <3>2. \A j \in Keys : IsFiniteSet(Naming(j)) /\ Cardinality(Naming(j)) \in Nat
      BY <3>1, FiniteRecords
    <3>3. QED
      BY <1>1, <3>2 DEF RefcountExact
  <2>2. IsFiniteSet(M) /\ Cardinality(M) \in Nat
    BY <1>9, FiniteRecords
  <2>3. Cardinality(Naming(src)') = refcount[src] - Len(moved)
    <3>1. Naming(src) \cap M = M
      BY <1>17
    <3>2. Cardinality(Naming(src) \ M) = Cardinality(Naming(src)) - Cardinality(Naming(src) \cap M)
      BY <2>1, FS_Difference
    <3>3. QED
      BY <1>4, <1>17, <2>1, <3>1, <3>2
  <2>4. Cardinality(Naming(dst)') = refcount[dst] + Len(moved)
    <3>1. Cardinality(Naming(dst) \cap M) = 0
      BY <1>17, FS_EmptySet
    <3>2. Cardinality(Naming(dst) \cup M) = Cardinality(Naming(dst)) + Cardinality(M) - 0
      BY <2>1, <2>2, <3>1, FS_Union
    <3>3. QED
      BY <1>4, <1>17, <2>1, <2>2, <3>2
  <2>5. /\ refcount'[src] = refcount[src] - Len(moved) /\ refcount'[dst] = refcount[dst] + Len(moved)
        /\ \A j \in Keys \ {src, dst} : refcount'[j] = refcount[j]
    BY <1>1, <1>2 DEF FutexTypeOK
  <2>6. RefcountExact'
    BY <1>17, <2>1, <2>3, <2>4, <2>5 DEF RefcountExact
  <2>7. \A j \in Keys : refcount'[j] \in Nat
    <3>1. Cardinality(Naming(src)') \in Nat
      <4>1. Naming(src)' \subseteq Records
        BY DEF Naming, Records
      <4>2. QED
        BY <4>1, FiniteRecords
    <3>2. refcount[dst] + Len(moved) \in Nat
      BY <1>4, <2>1
    <3>3. QED
      BY <2>1, <2>3, <2>5, <3>1, <3>2
  <2>8. refcount' = [j \in Keys |-> refcount'[j]]
    BY <1>1, <1>2 DEF FutexTypeOK
  <2>9. QED
    BY <2>6, <2>7, <2>8
<1>19. FutexTypeOK'
  <2>1. queue' \in [Keys -> Seq(Records)]
    <3>1. queue' = [j \in Keys |-> queue'[j]]
      BY <1>1, <1>2 DEF FutexTypeOK
    <3>2. \A j \in Keys : queue'[j] \in Seq(Records)
      BY <1>4, <1>6, <1>13, <1>14
    <3>3. QED
      BY <3>1, <3>2
  <2>2. futex' \in [Threads -> Vectors(Keys)]
    <3>1. \A s \in Threads : futex'[s] \in Vectors(Keys)
      <4> SUFFICES ASSUME NEW s \in Threads PROVE futex'[s] \in Vectors(Keys)
        OBVIOUS
      <4> DEFINE f == futex'[s]
      <4>1. DOMAIN f = DOMAIN futex[s] /\ \A i \in DOMAIN futex[s] : f[i] \in Keys
        BY <1>10, <1>12
      <4>2. f = [i \in DOMAIN futex[s] |-> f[i]]
        BY <1>2
      <4> HIDE DEF f
      <4>3. f \in Vectors(Keys)
        BY <1>10, <4>1, <4>2, VectorOf
      <4>4. QED
        BY <4>3 DEF f
    <3>2. futex' = [s \in Threads |-> futex'[s]]
      BY <1>2
    <3>3. QED
      BY <3>1, <3>2
  <2>3. asked' \in [Threads -> Vectors((Keys \X Values) \cup {Moved})]
    <3> DEFINE A == (Keys \X Values) \cup {Moved}
    <3>1. \A s \in Threads : asked'[s] \in Vectors(A)
      <4> SUFFICES ASSUME NEW s \in Threads PROVE asked'[s] \in Vectors(A)
        OBVIOUS
      <4> DEFINE f == asked'[s]
      <4>1. DOMAIN f = DOMAIN asked[s] /\ \A i \in DOMAIN asked[s] : f[i] \in A
        BY <1>11, <1>12
      <4>2. f = [i \in DOMAIN asked[s] |-> f[i]] /\ asked[s] \in Vectors(A)
        BY <1>2, <1>11
      <4> HIDE DEF f, A
      <4>3. f \in Vectors(A)
        BY <4>1, <4>2, VectorOf
      <4>4. QED
        BY <4>3 DEF f
    <3> HIDE DEF A
    <3>2. asked' = [s \in Threads |-> asked'[s]]
      BY <1>2
    <3>3. asked' \in [Threads -> Vectors(A)]
      BY <3>1, <3>2
    <3>4. QED
      BY <3>3 DEF A
  <2>4. returned' \in Int
    BY <1>2
  <2>5. QED
    BY <1>1, <1>2, <1>5, <1>18, <2>1, <2>2, <2>3, <2>4, Zenon DEF FutexTypeOK
<1>20. RecordInv'
  <2> SUFFICES ASSUME NEW s \in Threads
               PROVE  /\ DOMAIN asked'[s] = DOMAIN futex'[s]
                      /\ \A i \in DOMAIN asked'[s] : asked'[s][i] # Moved => asked'[s][i][1] = futex'[s][i]
                      /\ state'[s] = "run" => futex'[s] = NoRecords /\ woken'[s] = 0
    BY DEF RecordInv
  <2>1. /\ DOMAIN asked[s] = DOMAIN futex[s]
        /\ \A i \in DOMAIN asked[s] : asked[s][i] # Moved => asked[s][i][1] = futex[s][i]
    BY <1>1 DEF RecordInv
  <2>2. /\ DOMAIN asked'[s] = DOMAIN futex'[s]
        /\ \A i \in DOMAIN asked'[s] : asked'[s][i] # Moved => asked'[s][i][1] = futex'[s][i]
    BY <1>12, <2>1
  <2>3. ASSUME state'[s] = "run" PROVE futex'[s] = NoRecords /\ woken'[s] = 0
    <3>1. state[s] = "run" /\ futex[s] = NoRecords /\ woken[s] = 0
      BY <1>1, <1>5, <2>3 DEF RecordInv
    <3>2. s \notin HitThreads(src, n)
      <4>1. \A w \in ToSet(queue[src]) : w[1] # s
        BY <1>8, <3>1 DEF Waiting
      <4>2. Hit(src, n) \subseteq ToSet(queue[src])
        BY <1>1, <1>3, WakeTakes
      <4>3. QED
        BY <4>1, <4>2 DEF HitThreads
    <3>3. futex'[s] = NoRecords
      <4>1. futex'[s] = [i \in DOMAIN futex[s] |-> IF <<s, i>> \in M THEN dst ELSE futex[s][i]]
        BY <1>2
      <4>2. QED
        BY <3>1, <4>1 DEF NoRecords
    <3>4. QED
      BY <1>5, <3>1, <3>2, <3>3
  <2>4. QED
    BY <2>2, <2>3
<1>21. QueueExact'
  <2>1. ASSUME NEW j \in Keys, NEW w \in ToSet(queue'[j])
        PROVE  Waiting(w[1])' /\ w[2] \in DOMAIN futex'[w[1]] /\ futex'[w[1]][w[2]] = j
    <3>1. /\ w \in Records /\ Waiting(w[1]) /\ w[2] \in DOMAIN futex[w[1]]
          /\ IF w \in M THEN j = dst ELSE futex[w[1]][w[2]] = j
      <4>1. CASE j = src
        <5>1. w \in ToSet(queue[src]) /\ w \notin M
          BY <1>4, <1>13, <2>1, <4>1
        <5>2. QED
          BY <1>6, <1>8, <4>1, <5>1
      <4>2. CASE j = dst
        <5>1. w \in ToSet(queue[dst]) \/ w \in M
          BY <1>13, <1>14, <2>1, <4>2
        <5>2. QED
          BY <1>6, <1>8, <1>9, <4>2, <5>1
      <4>3. CASE j \in Keys \ {src, dst}
        <5>1. w \in ToSet(queue[j])
          BY <1>13, <2>1, <4>3
        <5>2. w \notin M
          BY <1>8, <1>9, <4>3, <5>1
        <5>3. QED
          BY <1>6, <1>8, <5>1, <5>2
      <4>4. QED
        BY <4>1, <4>2, <4>3
    <3>2. w[1] \in Threads /\ w = <<w[1], w[2]>>
      BY <1>7, <3>1
    <3>3. w[2] \in DOMAIN futex'[w[1]] /\ futex'[w[1]][w[2]] = j
      BY <1>12, <3>1, <3>2
    <3>4. Waiting(w[1])'
      BY <1>5, <3>1, <3>2 DEF Waiting
    <3>5. QED
      BY <3>3, <3>4
  <2>2. ASSUME NEW s \in Threads, NEW i \in DOMAIN futex'[s], woken'[s] = 0
        PROVE  <<s, i>> \in ToSet(queue'[futex'[s][i]])
    <3>1. i \in DOMAIN futex[s] /\ futex[s][i] \in Keys /\ i \in 1..MaxVector
      BY <1>10, <1>12, <2>2
    <3>2. <<s, i>> \in ToSet(queue[futex[s][i]]) /\ <<s, i>> \notin Hit(src, n)
      BY <1>1, <1>15, <1>16, <2>2, <3>1 DEF QueueExact
    <3>3. CASE <<s, i>> \in M
      <4>1. futex'[s][i] = dst
        BY <1>12, <3>1, <3>3
      <4>2. QED
        BY <1>13, <1>14, <3>3, <4>1
    <3>4. CASE <<s, i>> \notin M
      <4>1. futex'[s][i] = futex[s][i]
        BY <1>12, <3>1, <3>4
      <4>2. CASE futex[s][i] = src
        BY <1>4, <1>13, <3>2, <3>4, <4>1, <4>2
      <4>3. CASE futex[s][i] = dst
        BY <1>13, <1>14, <3>2, <4>1, <4>3
      <4>4. CASE futex[s][i] \in Keys \ {src, dst}
        BY <1>13, <3>2, <4>1, <4>4
      <4>5. QED
        BY <3>1, <4>2, <4>3, <4>4
    <3>5. QED
      BY <3>3, <3>4
  <2>3. ASSUME NEW s \in Threads, state'[s] = "asleep", waitv'[s]
        PROVE  woken'[s] = 0
    <3>1. s \notin HitThreads(src, n) /\ waitv[s]
      BY <1>2, <1>5, <2>3
    <3>2. state[s] = "asleep" /\ woken'[s] = woken[s]
      BY <1>5, <2>3, <3>1
    <3>3. QED
      BY <1>1, <3>1, <3>2 DEF QueueExact
  <2>4. \A j \in Keys : IsInjective(queue'[j])
    <3>1. \A j \in Keys : IsInjective(queue[j])
      BY <1>1 DEF QueueExact
    <3>2. QED
      BY <1>4, <1>13, <1>14, <3>1
  <2>5. QED
    BY <2>1, <2>2, <2>3, <2>4 DEF QueueExact
<1>22. WordInv'
  <2> SUFFICES ASSUME NEW s \in Threads, NEW i \in DOMAIN asked'[s], Waiting(s)', woken'[s] = 0,
                      asked'[s][i] # Moved, word[asked'[s][i][1]] # asked'[s][i][2]
               PROVE  \E u \in Wakers : owes[u] = asked'[s][i][1]
    <3>1. word' = word /\ owes' = owes
      BY <1>2
    <3>2. QED
      BY <3>1 DEF WordInv
  <2>1. i \in DOMAIN asked[s] /\ asked'[s][i] = asked[s][i]
    BY <1>12
  <2>2. Waiting(s) /\ woken[s] = 0
    BY <1>16 DEF Waiting
  <2>3. QED
    BY <1>1, <2>1, <2>2 DEF WordInv
<1>23. QED
  BY <1>18, <1>19, <1>20, <1>21, <1>22 DEF FutexInv

----------------------------------------------------------------------------
(* Theorems *)

\* Initially no futex object exists and nobody waits.
LEMMA FutexInitInv == FutexInit => FutexInv
<1> SUFFICES ASSUME FutexInit PROVE FutexInv
  OBVIOUS
<1>1. /\ word \in [Keys -> Values] /\ refcount = [k \in Keys |-> 0] /\ queue = [k \in Keys |-> <<>>]
      /\ state = [t \in Threads |-> "run"] /\ waitv = [t \in Threads |-> FALSE]
      /\ asked = [t \in Threads |-> NoRecords] /\ futex = [t \in Threads |-> NoRecords]
      /\ woken = [t \in Threads |-> 0] /\ err = [t \in Threads |-> 0]
      /\ returned = 0 /\ owes = [t \in Threads |-> NoKey]
  BY DEF FutexInit
<1>2. FutexTypeOK
  <2>1. NoRecords \in Vectors((Keys \X Values) \cup {Moved}) /\ NoRecords \in Vectors(Keys)
    <3>1. 0 \in 0..MaxVector /\ \A S : NoRecords \in [1..0 -> S]
      BY FutexAssumption DEF NoRecords
    <3>2. QED
      BY <3>1 DEF Vectors
  <2>2. asked \in [Threads -> Vectors((Keys \X Values) \cup {Moved})] /\ futex \in [Threads -> Vectors(Keys)]
    BY <1>1, <2>1
  <2>3. /\ refcount \in [Keys -> Nat] /\ queue \in [Keys -> Seq(Records)]
        /\ woken \in [Threads -> 0..MaxVector] /\ returned \in Int
    BY <1>1, FutexAssumption
  <2>4. /\ state \in [Threads -> {"run", "asleep", "ready"}] /\ waitv \in [Threads -> BOOLEAN]
        /\ err \in [Threads -> {0, EINTR, ETIMEDOUT}] /\ owes \in [Threads -> Keys \cup {NoKey}]
    BY <1>1, Zenon
  <2>5. QED
    BY <1>1, <2>2, <2>3, <2>4, Zenon DEF FutexTypeOK
<1>3. RecordInv /\ WordInv
  BY <1>1 DEF RecordInv, WordInv, NoRecords
<1>4. RefcountExact
  <2> SUFFICES ASSUME NEW k \in Keys PROVE refcount[k] = Cardinality(Naming(k))
    BY DEF RefcountExact
  <2>1. Naming(k) = {}
    BY <1>1 DEF Naming, NoRecords
  <2>2. QED
    BY <1>1, <2>1, FS_EmptySet
<1>5. QueueExact
  BY <1>1 DEF QueueExact, IsInjective, ToSet, NoRecords
<1>6. QED
  BY <1>2, <1>3, <1>4, <1>5 DEF FutexInv

\* Every step of a waiter or a waker keeps the invariant.
LEMMA FutexStep ==
    ASSUME FutexInv, [FutexNext]_futexVars
    PROVE  FutexInv'
<1>1. ASSUME NEW t \in Waiters, NEW call \in Calls[t], NEW vec \in VectorsOf(call),
             WaitMismatch(t, vec) \/ WaitNoMemory(t, vec) \/ WaitBegin(t, vec, call = "waitv")
      PROVE  FutexInv'
  <2>1. CASE WaitMismatch(t, vec)
    BY <2>1, FailKeeps DEF WaitMismatch
  <2>2. CASE WaitNoMemory(t, vec)
    BY <2>2, NoMemoryKeeps
  <2>3. CASE WaitBegin(t, vec, call = "waitv")
    BY <2>3, BeginKeeps
  <2>4. QED
    BY <1>1, <2>1, <2>2, <2>3
<1>2. ASSUME NEW t \in Waiters,
             (\E e \in {0, ETIMEDOUT, EINTR} : StopSleeping(t, e)) \/ LongWaitAgain(t) \/ WaitvAgain(t)
      PROVE  FutexInv'
  BY <1>2, SleepKeeps
<1>3. ASSUME NEW t \in Waiters, WaitEnd(t) \/ WaitvEnd(t)
      PROVE  FutexInv'
  <2>1. err[t] \in Int /\ woken[t] \in Int /\ 0 \in Int
    <3>1. err[t] \in {0, EINTR, ETIMEDOUT} /\ woken[t] \in 0..MaxVector /\ MaxVector \in Nat
      BY FutexAssumption DEF FutexInv, FutexTypeOK, Threads
    <3>2. QED
      BY <3>1 DEF EINTR, ETIMEDOUT
  <2>2. \E r \in Int : Leave(t, r)
    BY <1>3, <2>1 DEF WaitEnd, WaitvEnd
  <2>3. QED
    BY <2>2, LeaveKeeps
<1>4. ASSUME NEW t \in Wakers, NEW k \in Keys, NEW v \in Values, Store(t, k, v)
      PROVE  FutexInv'
  BY <1>4, StoreKeeps
<1>5. ASSUME NEW t \in Wakers, WakeAll(t)
      PROVE  FutexInv'
  BY <1>5, WakeAllKeeps
<1>6. ASSUME NEW t \in Wakers, NEW k \in Keys, NEW n \in Counts, FutexWake(t, k, n)
      PROVE  FutexInv'
  BY <1>6, FutexWakeKeeps
<1>7. ASSUME NEW t \in Wakers, NEW src \in Keys, NEW dst \in Keys, NEW n \in Counts, NEW m \in Counts,
             RequeueNoMemory(t, src, dst, n, m) \/ Requeue(t, src, dst, n, m)
      PROVE  FutexInv'
  <2>1. CASE RequeueNoMemory(t, src, dst, n, m)
    BY <2>1, FailKeeps DEF RequeueNoMemory
  <2>2. CASE Requeue(t, src, dst, n, m)
    BY <2>2, RequeueKeeps
  <2>3. QED
    BY <1>7, <2>1, <2>2
<1>8. CASE UNCHANGED futexVars
  <2>1. FutexTypeOK'
    BY <1>8, Zenon DEF FutexInv, FutexTypeOK, futexVars
  <2>2. RecordInv' /\ RefcountExact' /\ QueueExact' /\ WordInv'
    BY <1>8 DEF FutexInv, RecordInv, RefcountExact, Naming, QueueExact, WordInv, Waiting, futexVars
  <2>3. QED
    BY <2>1, <2>2 DEF FutexInv
<1>9. QED
  BY <1>1, <1>2, <1>3, <1>4, <1>5, <1>6, <1>7, <1>8 DEF FutexNext

\* The invariant holds in every state of the futex core.
THEOREM FutexInvHolds == FutexSpec => []FutexInv
<1>1. FutexInit => FutexInv
  BY FutexInitInv
<1>2. FutexInv /\ [FutexNext]_futexVars => FutexInv'
  BY FutexStep
<1>3. QED
  BY <1>1, <1>2, PTL DEF FutexSpec

\* The futex core never leaves its types: reference counts do not go below
\* zero, and woken indices name a record of the longest vector.
THEOREM FutexTypeCorrect == FutexSpec => []FutexTypeOK
<1>1. FutexInv => FutexTypeOK
  BY DEF FutexInv
<1>2. QED
  BY <1>1, FutexInvHolds, PTL

\* Objects, queues and wait records agree (kernel/futex.c), for any number of
\* threads and keys and vectors of any length.
THEOREM ObjectsExactHolds == FutexSpec => []ObjectsExact
<1>1. FutexInv => ObjectsExact
  BY DEF FutexInv, ObjectsExact
<1>2. QED
  BY <1>1, FutexInvHolds, PTL

\* No thread sleeps through the change of the word it waits on: the thread that
\* changed it has still to wake it.
THEOREM NoMissedWakeHolds == FutexSpec => []NoMissedWake
<1>1. FutexInv => NoMissedWake
  <2> SUFFICES ASSUME FutexInv, NEW t \in Waiters, NEW i \in 1..MaxVector, Outdated(t, i)
               PROVE  \E s \in Wakers : owes[s] = asked[t][i][1]
    BY DEF NoMissedWake
  <2>1. t \in Threads
    BY DEF Threads
  <2>2. QED
    BY <2>1 DEF FutexInv, WordInv, Outdated, Waiting
<1>2. QED
  BY <1>1, FutexInvHolds, PTL

\* A wakeup is never hidden by the timeout or the signal it raced with: a
\* woken thread that leaves reports success (the index, or 0).
THEOREM WakeNotSwallowedHolds == FutexSpec => WakeNotSwallowed
<1> DEFINE Reported == \A t \in Waiters :
              state[t] = "ready" /\ woken[t] # 0 /\ state'[t] = "run" => returned' >= 0
<1>1. FutexInv /\ [FutexNext]_futexVars => [Reported]_futexVars
  <2> SUFFICES ASSUME FutexInv, FutexNext, NEW t \in Waiters,
                      state[t] = "ready", woken[t] # 0, state'[t] = "run"
               PROVE  returned' >= 0
    OBVIOUS
  <2>1. /\ state \in [Threads -> {"run", "asleep", "ready"}] /\ t \in Threads
        /\ woken[t] \in 0..MaxVector /\ MaxVector \in Nat
    BY FutexAssumption DEF FutexInv, FutexTypeOK, Threads
  <2>2. CASE WaitEnd(t) \/ WaitvEnd(t)
    <3>1. returned' \in {0, woken[t]}
      BY <2>2 DEF WaitEnd, WaitvEnd, Leave
    <3>2. QED
      BY <2>1, <3>1
  <2>3. CASE returned' = 0
    BY <2>3
  <2>4. ASSUME NEW s \in Waiters, WaitEnd(s) \/ WaitvEnd(s) PROVE s = t
    <3>1. state' = [state EXCEPT ![s] = "run"]
      BY <2>4 DEF WaitEnd, WaitvEnd, Leave
    <3>2. QED
      BY <2>1, <3>1
  <2>5. returned' = 0 \/ \E s \in Waiters : WaitEnd(s) \/ WaitvEnd(s)
    <3>1. /\ \A s, vec : WaitMismatch(s, vec) \/ WaitNoMemory(s, vec) => returned' = 0
          /\ \A s, vec, v : WaitBegin(s, vec, v) => returned' = 0
          /\ \A s, e : StopSleeping(s, e) => returned' = 0
          /\ \A s : LongWaitAgain(s) \/ WaitvAgain(s) \/ WakeAll(s) => returned' = 0
          /\ \A s, k, v : Store(s, k, v) => returned' = 0
          /\ \A s, k, n : FutexWake(s, k, n) => returned' = 0
      BY DEF WaitMismatch, WaitNoMemory, WaitBegin, StopSleeping, LongWaitAgain, WaitvAgain, WakeAll,
             Store, FutexWake, Fail
    <3>2. \A s, src, dst, n, m :
             RequeueNoMemory(s, src, dst, n, m) \/ Requeue(s, src, dst, n, m) => returned' = 0
      BY DEF RequeueNoMemory, Requeue, Fail
    <3>3. QED
      BY <3>1, <3>2, Zenon DEF FutexNext
  <2>6. QED
    BY <2>2, <2>3, <2>4, <2>5
<1>2. FutexSpec => [][Reported]_futexVars
  BY <1>1, FutexInvHolds, PTL DEF FutexSpec
<1>3. QED
  BY <1>2 DEF WakeNotSwallowed
=============================================================================
