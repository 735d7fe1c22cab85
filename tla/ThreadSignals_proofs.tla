------------------------ MODULE ThreadSignals_proofs ------------------------
(***************************************************************************)
(* Proofs about ThreadSignals, for every number of threads, every set of   *)
(* signals and every sequence of mask changes: no private signal is slept  *)
(* on, every shared signal keeps a taker, stop and continue exclude each   *)
(* other.                                                                  *)
(***************************************************************************)
EXTENDS ThreadSignals, TLAPS

TypeOK ==
    /\ pending \in [Threads -> SUBSET Sigs]
    /\ shared \subseteq Sigs
    /\ blocked \in [Threads -> SUBSET Sigs]
    /\ hasSaved \in [Threads -> BOOLEAN]
    /\ saved \in [Threads -> SUBSET Sigs]
    /\ state \in [Threads -> States]
    /\ newly \in [Threads -> SUBSET Sigs]
    /\ stopped \in BOOLEAN
    /\ continued \in BOOLEAN

\* What a mask change still has to hand over is blocked by now, and only the two
\* halves of a mask change have anything to hand over.
NewlyInv ==
    \A t \in Threads :
       /\ newly[t] \subseteq blocked[t]
       /\ newly[t] # {} => state[t] \in {"retarget", "retarget_stop"}

\* Somebody will take sig or pass it on.
HasTaker(sig) ==
    \E t \in Threads : \/ state[t] \notin {"asleep", "dead"} /\ sig \notin blocked[t]
                       \/ sig \in newly[t]

\* Somebody could take sig.
HasCandidate(sig) == \E t \in Threads : Live(t) /\ sig \notin blocked[t]

SignalsInv ==
    TypeOK /\ NewlyInv /\ NoLostPrivateSignal /\ SharedSignalHasTaker /\ JobControlExclusive

----------------------------------------------------------------------------

\* Nothing is pending and everybody runs.
LEMMA SignalsInit == Init => SignalsInv
<1> SUFFICES ASSUME Init PROVE SignalsInv
  OBVIOUS
<1>1. TypeOK /\ NewlyInv
  BY DEF Init, TypeOK, NewlyInv, States
<1>2. NoLostPrivateSignal /\ SharedSignalHasTaker
  BY DEF Init, NoLostPrivateSignal, NoWakeupLost, SharedSignalHasTaker
<1>3. JobControlExclusive
  BY DEF Init, JobControlExclusive
<1>4. QED
  BY <1>1, <1>2, <1>3 DEF SignalsInv

\* A wakeup changes sleepers only.
LEMMA WokenStates ==
    ASSUME TypeOK, NEW ts
    PROVE  /\ Woken(ts) \in [Threads -> States]
           /\ \A u \in Threads :
                 /\ \/ Woken(ts)[u] = state[u]
                    \/ state[u] = "asleep" /\ Woken(ts)[u] = "run"
                 /\ u \in ts => Woken(ts)[u] # "asleep"
BY DEF TypeOK, Woken, States

\* The discards of job control.
LEMMA PurgedIs ==
    ASSUME TypeOK, NEW sig \in Sigs
    PROVE  /\ Purged(sig) \in [Threads -> SUBSET Sigs]
           /\ \A u \in Threads : Purged(sig)[u] = pending[u] \ Discards(sig)
BY DEF TypeOK, Purged

----------------------------------------------------------------------------
(* What the steps do to the two kinds of pending signals.                  *)

\* A step by which one thread t, awake, changes its own mask and whatever
\* signals are pending only become fewer.
MaskStep(t) ==
    /\ state[t] = "run"
    /\ \E mask \in SUBSET Sigs : SetMask(t, mask)
    /\ \E s \in {"retarget", "retarget_stop"} : state' = [state EXCEPT ![t] = s]
    /\ \A u \in Threads : pending'[u] \subseteq pending[u]
    /\ shared' \subseteq shared
    /\ NeverStopped' => NeverStopped

\* Such a step keeps what is known of sleepers and takers: what the thread
\* blocks now it did not block before is left for it to hand over.
LEMMA MaskStepKeeps ==
    ASSUME TypeOK, NewlyInv, NoLostPrivateSignal, SharedSignalHasTaker,
           NEW t \in Threads, MaskStep(t)
    PROVE  NewlyInv' /\ NoLostPrivateSignal' /\ SharedSignalHasTaker'
<1> PICK mask \in SUBSET Sigs : SetMask(t, mask)
  BY DEF MaskStep
<1> PICK s \in {"retarget", "retarget_stop"} : state' = [state EXCEPT ![t] = s]
  BY DEF MaskStep
<1>1. /\ \A u \in Threads : blocked'[u] = IF u = t THEN mask ELSE blocked[u]
      /\ \A u \in Threads : newly'[u] = IF u = t THEN mask \ blocked[t] ELSE newly[u]
      /\ \A u \in Threads : state'[u] = IF u = t THEN s ELSE state[u]
  BY DEF TypeOK, SetMask
<1>2. NewlyInv'
  BY <1>1 DEF NewlyInv
<1>3. NoLostPrivateSignal'
  BY <1>1 DEF NoLostPrivateSignal, NoWakeupLost, MaskStep
<1>4. SharedSignalHasTaker'
  <2> SUFFICES ASSUME NeverStopped', NEW sig \in shared', HasCandidate(sig)'
               PROVE  HasTaker(sig)'
    BY DEF SharedSignalHasTaker, HasTaker, HasCandidate
  <2>1. CASE HasCandidate(sig)
    <3>1. PICK u \in Threads : \/ state[u] \notin {"asleep", "dead"} /\ sig \notin blocked[u]
                               \/ sig \in newly[u]
      BY <2>1 DEF SharedSignalHasTaker, HasCandidate, MaskStep
    <3>2. newly[t] = {}
      BY DEF NewlyInv, MaskStep
    <3>3. QED
      BY <1>1, <3>1, <3>2 DEF HasTaker
  <2>2. CASE ~HasCandidate(sig)
    BY <1>1, <2>2 DEF HasCandidate, HasTaker, Live
  <2>3. QED
    BY <2>1, <2>2
<1>5. QED
  BY <1>2, <1>3, <1>4

----------------------------------------------------------------------------
(* The choice of a receiver.                                               *)

\* Who could take a signal and does not want it has private signals to look
\* after, and is awake for their sake.
LEMMA UnwillingIsAwake ==
    ASSUME TypeOK, NoLostPrivateSignal, NeverStopped,
           NEW r \in Threads, Live(r), NEW sig, sig \notin blocked[r],
           NEW cur, NEW pend, pend[r] \subseteq pending[r],
           NEW stop, ~stop, ~Wants(r, sig, cur, pend, stop)
    PROVE  state[r] \notin {"asleep", "dead"}
BY DEF NoLostPrivateSignal, NoWakeupLost, Wants, Live

\* A receiver wants the signal, and there is one if anybody wants it.
LEMMA ReceiversWant ==
    ASSUME NEW sug \in Threads, NEW sig, NEW cur, NEW pend, NEW stop
    PROVE  /\ \A r \in Receivers(sug, sig, cur, pend, stop) :
                 r \in Threads /\ Wants(r, sig, cur, pend, stop)
           /\ Receivers(sug, sig, cur, pend, stop) = {} =>
                 \A r \in Threads : ~Wants(r, sig, cur, pend, stop)
<1> DEFINE W(u) == Wants(u, sig, cur, pend, stop)
           R == Receivers(sug, sig, cur, pend, stop)
<1>1. R = IF W(sug) THEN {sug} ELSE IF W(Leader) THEN {Leader} ELSE {u \in Threads : W(u)}
  BY DEF Receivers
<1>2. Leader \in Threads
  BY ThreadSignalsAssumption
<1> HIDE DEF W, R
<1>3. /\ \A r \in R : r \in Threads /\ W(r)
      /\ R = {} => \A r \in Threads : ~W(r)
  BY <1>1, <1>2
<1>4. QED
  BY <1>3 DEF W, R

\* Thread t hands the signals of S over: whoever is chosen for one of them wants
\* it and is woken, and nobody is chosen only if none of the threads of Among does.
HandsOver(t, S, Among, ts) ==
    \A sig \in S :
       \/ \E r \in ts : r \in Among /\ Wants(r, sig, t, pending, stopped)
       \/ \A r \in Among : ~Wants(r, sig, t, pending, stopped)

\* Handing over keeps a taker for every shared signal, if t hands over all that
\* it answers for and will not take itself.
LEMMA HandOverKeeps ==
    ASSUME TypeOK, NoLostPrivateSignal, SharedSignalHasTaker,
           NEW t \in Threads, Live(t), NEW S, NEW ts, HandsOver(t, S, Threads \ {t}, ts),
           NEW s \in States \ {"asleep"}, state' = [Woken(ts) EXCEPT ![t] = s],
           \A sig \in shared \ S : sig \notin newly[t] /\ (sig \in blocked[t] \/ s # "dead"),
           \A u \in Threads \ {t} : newly'[u] = newly[u],
           UNCHANGED <<shared, blocked, stopped, continued>>
    PROVE  SharedSignalHasTaker'
<1> SUFFICES ASSUME NeverStopped, NEW sig \in shared, HasCandidate(sig)'
             PROVE  HasTaker(sig)'
  BY DEF SharedSignalHasTaker, HasTaker, HasCandidate, NeverStopped
<1>1. /\ state'[t] = s
      /\ \A u \in Threads \ {t} :
            /\ \/ state'[u] = state[u]
               \/ state[u] = "asleep" /\ state'[u] = "run"
            /\ u \in ts => state'[u] # "asleep"
  BY WokenStates
<1>2. PICK c \in Threads : state'[c] # "dead" /\ sig \notin blocked[c]
  BY DEF HasCandidate, Live
<1>3. CASE sig \in S
  <2>1. CASE \E r \in ts : r \in Threads \ {t} /\ Wants(r, sig, t, pending, stopped)
    BY <1>1, <2>1 DEF HasTaker, Wants, Live
  <2>2. CASE \A r \in Threads \ {t} : ~Wants(r, sig, t, pending, stopped)
    <3>1. CASE c = t
      BY <1>1, <1>2, <3>1 DEF HasTaker
    <3>2. CASE c # t
      <4>1. Live(c)
        BY <1>1, <1>2, <3>2 DEF Live
      <4>2. state[c] \notin {"asleep", "dead"}
        BY <1>2, <2>2, <3>2, <4>1, UnwillingIsAwake DEF NeverStopped
      <4>3. QED
        BY <1>1, <1>2, <3>2, <4>2 DEF HasTaker
    <3>3. QED
      BY <3>1, <3>2
  <2>3. QED
    BY <1>3, <2>1, <2>2 DEF HandsOver
<1>4. CASE sig \notin S
  <2>1. HasCandidate(sig)
    BY <1>1, <1>2 DEF HasCandidate, Live
  <2>2. PICK u \in Threads : \/ state[u] \notin {"asleep", "dead"} /\ sig \notin blocked[u]
                             \/ sig \in newly[u]
    BY <2>1 DEF SharedSignalHasTaker, HasCandidate
  <2>3. QED
    BY <1>1, <1>4, <2>2 DEF HasTaker
<1>5. QED
  BY <1>3, <1>4

\* A step of a hand-over, whichever of the two it is, leaves nobody asleep on a
\* private signal: it puts nobody to sleep.
LEMMA HandOverSleeps ==
    ASSUME TypeOK, NoLostPrivateSignal, NEW t \in Threads, NEW ts,
           NEW s \in States \ {"asleep"}, state' = [Woken(ts) EXCEPT ![t] = s],
           \A u \in Threads : pending'[u] \subseteq pending[u],
           UNCHANGED <<blocked, stopped, continued>>
    PROVE  NoLostPrivateSignal'
<1>1. \A u \in Threads : state'[u] = "asleep" => state[u] = "asleep"
  BY WokenStates
<1>2. QED
  BY <1>1 DEF NoLostPrivateSignal, NoWakeupLost, NeverStopped

----------------------------------------------------------------------------
(* The steps.                                                              *)

\* The parts of the invariant that concern who is awake.
AwakeInv == NewlyInv /\ NoLostPrivateSignal /\ SharedSignalHasTaker

\* The second half of a mask change finds a taker for each signal that the first
\* half took away from one.
LEMMA RetargetKeeps ==
    ASSUME TypeOK, AwakeInv, NEW t \in Threads, Retarget(t)
    PROVE  TypeOK' /\ AwakeInv'
<1> DEFINE S == shared \cap newly[t]
           R(sig) == Receivers(t, sig, t, pending, stopped)
<1>1. PICK wake \in [S -> SUBSET Threads] :
         /\ \A sig \in S : IF R(sig) = {} THEN wake[sig] = {} ELSE \E r \in R(sig) : wake[sig] = {r}
         /\ state' = [Woken(UNION {wake[sig] : sig \in S}) EXCEPT
                         ![t] = IF @ = "retarget" THEN "run" ELSE "stopped"]
  BY DEF Retarget
<1> DEFINE ts == UNION {wake[sig] : sig \in S}
<1>2. PICK s \in {"run", "stopped"} : state' = [Woken(ts) EXCEPT ![t] = s]
  BY <1>1
<1>3. HandsOver(t, S, Threads \ {t}, ts)
  <2> SUFFICES ASSUME NEW sig \in S
               PROVE  \/ \E r \in ts : r \in Threads \ {t} /\ Wants(r, sig, t, pending, stopped)
                      \/ \A r \in Threads \ {t} : ~Wants(r, sig, t, pending, stopped)
    BY DEF HandsOver
  <2>1. ~Wants(t, sig, t, pending, stopped)
    BY DEF AwakeInv, NewlyInv, Wants
  <2>2. CASE R(sig) = {}
    BY <2>2, ReceiversWant
  <2>3. CASE R(sig) # {}
    <3>1. PICK r \in R(sig) : wake[sig] = {r}
      BY <1>1, <2>3
    <3>2. r \in ts
      BY <3>1
    <3>3. QED
      BY <2>1, <3>1, <3>2, ReceiversWant
  <2>4. QED
    BY <2>2, <2>3
<1> HIDE DEF ts
<1>4. Live(t) /\ UNCHANGED <<pending, shared, blocked, stopped, continued>>
  BY DEF Retarget, Live
<1>5. \A u \in Threads : newly'[u] = IF u = t THEN {} ELSE newly[u]
  BY DEF Retarget, TypeOK
<1>6. SharedSignalHasTaker'
  BY <1>2, <1>3, <1>4, <1>5, HandOverKeeps DEF AwakeInv, States
<1>7. NoLostPrivateSignal'
  BY <1>2, <1>4, HandOverSleeps DEF AwakeInv, States
<1>8. NewlyInv'
  <2>1. \A u \in Threads \ {t} : state[u] \in {"retarget", "retarget_stop"} => state'[u] = state[u]
    BY <1>2, WokenStates
  <2>2. QED
    BY <1>4, <1>5, <2>1 DEF AwakeInv, NewlyInv
<1>9. TypeOK'
  BY <1>2, <1>4, WokenStates DEF TypeOK, Retarget, savedVars, States
<1>10. QED
  BY <1>6, <1>7, <1>8, <1>9 DEF AwakeInv

\* A thread that exits finds a taker for each shared signal it could have taken.
LEMMA ExitKeeps ==
    ASSUME TypeOK, AwakeInv, NEW t \in Threads, Exit(t)
    PROVE  TypeOK' /\ AwakeInv'
<1> DEFINE S == shared \ blocked[t]
           O(sig) == {r \in Threads \ {t} : Wants(r, sig, t, pending, stopped)}
           P(sig) == IF Leader \in O(sig) THEN {Leader} ELSE O(sig)
<1>1. PICK wake \in [S -> SUBSET Threads] :
         /\ \A sig \in S : IF P(sig) = {} THEN wake[sig] = {} ELSE \E r \in P(sig) : wake[sig] = {r}
         /\ state' = [Woken(UNION {wake[sig] : sig \in S}) EXCEPT ![t] = "dead"]
  BY DEF Exit
<1> DEFINE ts == UNION {wake[sig] : sig \in S}
<1>2. state' = [Woken(ts) EXCEPT ![t] = "dead"]
  BY <1>1
<1>3. HandsOver(t, S, Threads \ {t}, ts)
  <2> SUFFICES ASSUME NEW sig \in S
               PROVE  \/ \E r \in ts : r \in Threads \ {t} /\ Wants(r, sig, t, pending, stopped)
                      \/ \A r \in Threads \ {t} : ~Wants(r, sig, t, pending, stopped)
    BY DEF HandsOver
  <2>1. CASE P(sig) = {}
    BY <2>1
  <2>2. CASE P(sig) # {}
    <3>1. PICK r \in P(sig) : wake[sig] = {r}
      BY <1>1, <2>2
    <3>2. r \in ts /\ r \in O(sig)
      BY <3>1
    <3>3. QED
      BY <3>2
  <2>3. QED
    BY <2>1, <2>2
<1> HIDE DEF ts
<1>4. /\ Live(t) /\ newly[t] = {}
      /\ UNCHANGED <<shared, blocked, newly, stopped, continued>>
      /\ \A u \in Threads : pending'[u] \subseteq pending[u]
  BY DEF Exit, Live, AwakeInv, NewlyInv, TypeOK
<1>5. SharedSignalHasTaker'
  BY <1>2, <1>3, <1>4, HandOverKeeps DEF AwakeInv, States
<1>6. NoLostPrivateSignal'
  BY <1>2, <1>4, HandOverSleeps DEF AwakeInv, States
<1>7. NewlyInv'
  <2>1. \A u \in Threads \ {t} : state[u] \in {"retarget", "retarget_stop"} => state'[u] = state[u]
    BY <1>2, WokenStates
  <2>2. QED
    BY <1>4, <2>1 DEF AwakeInv, NewlyInv
<1>8. TypeOK'
  BY <1>2, <1>4, WokenStates DEF TypeOK, Exit, ForgetSaved, States
<1>9. QED
  BY <1>5, <1>6, <1>7, <1>8 DEF AwakeInv

\* The first half of every mask change: a system call, or a delivery that blocks
\* the signal or brings the saved mask back.
LEMMA MaskChangeKeeps ==
    ASSUME TypeOK, AwakeInv, NEW t \in Threads,
           \/ \E mask \in SUBSET Sigs : Sigprocmask(t, mask) \/ Sigsuspend(t, mask)
           \/ PollIdle(t)
           \/ \E sig \in Sigs : PollTake(t, sig)
    PROVE  TypeOK' /\ AwakeInv'
<1> DEFINE Fewer == /\ \A u \in Threads : pending'[u] \subseteq pending[u]
                    /\ pending' \in [Threads -> SUBSET Sigs] /\ shared' \subseteq shared
                    /\ hasSaved' \in [Threads -> BOOLEAN]
                    /\ saved' \in [Threads -> SUBSET Sigs]
                    /\ stopped' \in BOOLEAN /\ continued' \in BOOLEAN
                    /\ NeverStopped' => NeverStopped
<1>0. ASSUME state[t] = "run", NEW mask \in SUBSET Sigs, SetMask(t, mask),
             NEW s \in {"retarget", "retarget_stop"}, state' = [state EXCEPT ![t] = s], Fewer
      PROVE  TypeOK' /\ MaskStep(t)
  <2>1. TypeOK'
    BY <1>0 DEF TypeOK, States, SetMask
  <2>2. MaskStep(t)
    BY <1>0 DEF MaskStep
  <2>3. QED
    BY <2>1, <2>2
<1>1. ASSUME NEW mask \in SUBSET Sigs, Sigprocmask(t, mask) \/ Sigsuspend(t, mask)
      PROVE  TypeOK' /\ MaskStep(t)
  <2>1. Fewer
    BY <1>1 DEF Sigprocmask, Sigsuspend, savedVars, NeverStopped, TypeOK
  <2>2. state[t] = "run" /\ SetMask(t, mask) /\ state' = [state EXCEPT ![t] = "retarget"]
    BY <1>1 DEF Sigprocmask, Sigsuspend
  <2>3. QED
    BY <1>0, <2>1, <2>2
<1>2. ASSUME PollIdle(t)
      PROVE  TypeOK' /\ MaskStep(t)
  <2>1. Restored(t) \in SUBSET Sigs
    BY DEF Restored, TypeOK
  <2>2. Fewer
    BY <1>2 DEF PollIdle, ForgetSaved, NeverStopped, TypeOK
  <2>3. /\ state[t] = "run" /\ SetMask(t, Restored(t))
        /\ state' = [state EXCEPT ![t] = "retarget"]
    BY <1>2 DEF PollIdle
  <2>4. QED
    BY <1>0, <2>1, <2>2, <2>3
<1>3. ASSUME NEW sig \in Sigs, PollTake(t, sig)
      PROVE  TypeOK' /\ MaskStep(t)
  <2>1. Restored(t) \in SUBSET Sigs /\ Restored(t) \cup {sig} \in SUBSET Sigs
    BY DEF Restored, TypeOK
  <2>2. /\ pending' \in [Threads -> SUBSET Sigs] /\ shared' \subseteq shared
        /\ \A u \in Threads : pending'[u] \subseteq pending[u]
    BY <1>3 DEF PollTake, TypeOK
  <2>3. /\ stopped' \in BOOLEAN /\ continued' \in BOOLEAN
        /\ NeverStopped' => NeverStopped
    BY <1>3 DEF PollTake, NeverStopped, TypeOK
  <2>4. Fewer
    BY <1>3, <2>2, <2>3 DEF PollTake, ForgetSaved, TypeOK
  <2>5. PICK mask \in SUBSET Sigs, s \in {"retarget", "retarget_stop"} :
           SetMask(t, mask) /\ state' = [state EXCEPT ![t] = s]
    <3>1. CASE sig \in StopSigs
      <4>1. SetMask(t, Restored(t)) /\ state' = [state EXCEPT ![t] = "retarget_stop"]
        BY <1>3, <3>1 DEF PollTake
      <4>2. QED
        BY <2>1, <4>1
    <3>2. CASE sig \notin StopSigs
      <4>1. SetMask(t, Restored(t) \cup {sig}) /\ state' = [state EXCEPT ![t] = "retarget"]
        BY <1>3, <3>2 DEF PollTake
      <4>2. QED
        BY <2>1, <4>1
    <3>3. QED
      BY <3>1, <3>2
  <2>6. state[t] = "run"
    BY <1>3 DEF PollTake
  <2>7. QED
    BY <1>0, <2>4, <2>5, <2>6
<1>4. TypeOK' /\ MaskStep(t)
  BY <1>1, <1>2, <1>3
<1>5. QED
  BY <1>4, MaskStepKeeps DEF AwakeInv

\* A thread goes to sleep only when it has nothing to take; the steps around a
\* stop and the end of a sleep put nobody to sleep.
LEMMA SleepKeeps ==
    ASSUME TypeOK, AwakeInv, NEW t \in Threads,
           Sleep(t) \/ Awake(t) \/ EnterStop(t) \/ LeaveStop(t)
    PROVE  TypeOK' /\ AwakeInv'
<1>1. PICK s \in {"asleep", "run", "stopped"} : state' = [state EXCEPT ![t] = s]
  BY DEF Sleep, Awake, EnterStop, LeaveStop
<1>2. /\ UNCHANGED <<pending, shared, blocked, savedVars, newly, stopped, continued>>
      /\ state[t] \in {"run", "asleep", "stopped"}
      /\ s = "asleep" => Deliverable(t) = {}
  BY <1>1 DEF Sleep, Awake, EnterStop, LeaveStop, TypeOK
<1>3. TypeOK'
  BY <1>1, <1>2 DEF TypeOK, savedVars, States
<1>4. NewlyInv'
  BY <1>1, <1>2 DEF AwakeInv, NewlyInv, TypeOK
<1>5. NoLostPrivateSignal'
  BY <1>1, <1>2 DEF AwakeInv, NoLostPrivateSignal, NoWakeupLost, NeverStopped, TypeOK, Deliverable
<1>6. SharedSignalHasTaker'
  <2> SUFFICES ASSUME NeverStopped, NEW sig \in shared, HasCandidate(sig)'
               PROVE  HasTaker(sig)'
    BY <1>2 DEF SharedSignalHasTaker, HasTaker, HasCandidate, NeverStopped
  <2>1. HasCandidate(sig)
    BY <1>1, <1>2 DEF HasCandidate, Live, TypeOK
  <2>2. HasTaker(sig)
    BY <2>1 DEF AwakeInv, SharedSignalHasTaker, HasTaker, HasCandidate
  <2>3. QED
    BY <1>1, <1>2, <2>2 DEF HasTaker, TypeOK, Deliverable
<1>7. QED
  BY <1>3, <1>4, <1>5, <1>6 DEF AwakeInv

\* The stop flag after resume_group_for_signal.
LEMMA ResumeIs ==
    ASSUME TypeOK, NEW sig \in Sigs, Resume(sig)
    PROVE  /\ stopped' \in BOOLEAN /\ continued' \in BOOLEAN
           /\ NeverStopped' => NeverStopped
           /\ ~(stopped /\ continued) => ~(stopped' /\ continued')
BY DEF TypeOK, Resume, NeverStopped

\* A signal for one thread wakes it unless it blocks the signal or is awake
\* already.
LEMMA SendThreadKeeps ==
    ASSUME TypeOK, AwakeInv, NEW cur, NEW t \in Threads, NEW sig \in Sigs,
           SendThread(cur, t, sig)
    PROVE  TypeOK' /\ AwakeInv'
<1> DEFINE pend == Purged(sig)
           stop == stopped /\ sig \notin ContSigs
<1>1. /\ \A u \in Threads : pend[u] \subseteq pending[u]
      /\ pend \in [Threads -> SUBSET Sigs]
  BY PurgedIs
<1>2. /\ Resume(sig)
      /\ shared' \subseteq shared
      /\ pending' = [pend EXCEPT ![t] = @ \cup {sig}]
      /\ state' = IF sig \notin pend[t] /\ Wants(t, sig, cur, pend, stop)
                  THEN Woken({t}) ELSE state
      /\ UNCHANGED <<blocked, savedVars, newly>>
  BY DEF SendThread
<1>3. /\ state' \in [Threads -> States]
      /\ \A u \in Threads : \/ state'[u] = state[u]
                            \/ state[u] = "asleep" /\ state'[u] = "run"
  BY <1>2, WokenStates DEF TypeOK
<1> HIDE DEF pend, stop
<1>4. TypeOK'
  BY <1>1, <1>2, <1>3, ResumeIs DEF TypeOK, savedVars
<1>5. NewlyInv'
  BY <1>2, <1>3 DEF AwakeInv, NewlyInv
<1>6. NoLostPrivateSignal'
  <2> SUFFICES ASSUME NeverStopped', NEW u \in Threads, state'[u] = "asleep"
               PROVE  pending'[u] \ blocked[u] = {}
    BY <1>2 DEF NoLostPrivateSignal, NoWakeupLost
  <2>1. NeverStopped /\ ~stop
    BY <1>2, ResumeIs DEF NeverStopped, stop
  <2>2. state[u] = "asleep" /\ pending[u] \ blocked[u] = {}
    BY <1>3, <2>1 DEF AwakeInv, NoLostPrivateSignal, NoWakeupLost
  <2>3. CASE u # t
    BY <1>1, <1>2, <2>2, <2>3
  <2>4. CASE u = t
    <3>1. ~(sig \notin pend[t] /\ Wants(t, sig, cur, pend, stop))
      <4>1. Woken({t})[t] # "asleep"
        BY WokenStates
      <4>2. QED
        BY <1>2, <2>4, <4>1
    <3>2. sig \in pend[t] \/ sig \in blocked[t]
      BY <1>1, <2>1, <2>2, <2>4, <3>1 DEF Wants, Live
    <3>3. pending'[t] = pend[t] \cup {sig}
      BY <1>1, <1>2
    <3>4. QED
      BY <1>1, <2>2, <2>4, <3>2, <3>3
  <2>5. QED
    BY <2>3, <2>4
<1>7. SharedSignalHasTaker'
  <2> SUFFICES ASSUME NeverStopped', NEW g \in shared', HasCandidate(g)'
               PROVE  HasTaker(g)'
    BY DEF SharedSignalHasTaker, HasTaker, HasCandidate
  <2>1. NeverStopped /\ HasCandidate(g) /\ g \in shared
    BY <1>2, <1>3, ResumeIs DEF HasCandidate, Live
  <2>2. HasTaker(g)
    BY <2>1 DEF AwakeInv, SharedSignalHasTaker, HasTaker, HasCandidate
  <2>3. QED
    BY <1>2, <1>3, <2>2 DEF HasTaker
<1>8. QED
  BY <1>4, <1>5, <1>6, <1>7 DEF AwakeInv

\* A signal for the process wakes a thread that wants it; if none does, those who
\* could take it are awake.
LEMMA SendProcessKeeps ==
    ASSUME TypeOK, AwakeInv, NEW cur, NEW sug \in Threads, NEW sig \in Sigs,
           SendProcess(cur, sug, sig)
    PROVE  TypeOK' /\ AwakeInv'
<1> DEFINE pend == Purged(sig)
           stop == stopped /\ sig \notin ContSigs
           shr  == shared \ Discards(sig)
           R    == Receivers(sug, sig, cur, pend, stop)
<1>1. /\ \A u \in Threads : pend[u] \subseteq pending[u]
      /\ pend \in [Threads -> SUBSET Sigs]
  BY PurgedIs
<1>2. /\ Resume(sig)
      /\ pending' = pend
      /\ shared' = shr \cup {sig} /\ shr \subseteq shared
      /\ \/ (sig \in shr \/ R = {}) /\ state' = state
         \/ \E r \in R : state' = Woken({r})
      /\ UNCHANGED <<blocked, savedVars, newly>>
  BY DEF SendProcess
<1>3. /\ state' \in [Threads -> States]
      /\ \A u \in Threads : \/ state'[u] = state[u]
                            \/ state[u] = "asleep" /\ state'[u] = "run"
  <2> HIDE DEF R
  <2>1. CASE state' = state
    BY <2>1 DEF TypeOK
  <2>2. CASE \E r \in R : state' = Woken({r})
    <3>1. PICK r \in R : state' = Woken({r})
      BY <2>2
    <3>2. QED
      BY <3>1, WokenStates
  <2>3. QED
    BY <1>2, <2>1, <2>2
<1>4. /\ \A r \in R : r \in Threads /\ Wants(r, sig, cur, pend, stop)
      /\ R = {} => \A r \in Threads : ~Wants(r, sig, cur, pend, stop)
  BY ReceiversWant
<1> HIDE DEF pend, stop, shr, R
<1>5. TypeOK'
  BY <1>1, <1>2, <1>3, ResumeIs DEF TypeOK, savedVars
<1>6. NewlyInv'
  BY <1>2, <1>3 DEF AwakeInv, NewlyInv
<1>7. NoLostPrivateSignal'
  BY <1>1, <1>2, <1>3, ResumeIs DEF AwakeInv, NoLostPrivateSignal, NoWakeupLost
<1>8. SharedSignalHasTaker'
  <2> SUFFICES ASSUME NeverStopped', NEW g \in shared', HasCandidate(g)'
               PROVE  HasTaker(g)'
    BY DEF SharedSignalHasTaker, HasTaker, HasCandidate
  <2>1. NeverStopped /\ HasCandidate(g)
    BY <1>2, <1>3, ResumeIs DEF HasCandidate, Live
  <2>2. CASE g \in shared
    <3>1. HasTaker(g)
      BY <2>1, <2>2 DEF AwakeInv, SharedSignalHasTaker, HasTaker, HasCandidate
    <3>2. QED
      BY <1>2, <1>3, <3>1 DEF HasTaker
  <2>3. CASE g \notin shared
    <3>1. g = sig /\ sig \notin shr
      BY <1>2, <2>3
    <3>2. ~stop
      BY <2>1 DEF NeverStopped, stop
    <3>3. CASE R = {}
      <4>1. PICK c \in Threads : Live(c) /\ sig \notin blocked[c]
        BY <2>1, <3>1 DEF HasCandidate
      <4>2. state[c] \notin {"asleep", "dead"}
        BY <1>1, <1>4, <2>1, <3>2, <3>3, <4>1, UnwillingIsAwake DEF AwakeInv
      <4>3. state'[c] \notin {"asleep", "dead"} /\ g \notin blocked'[c]
        BY <1>2, <1>3, <3>1, <4>1, <4>2
      <4>4. QED
        BY <4>3 DEF HasTaker
    <3>4. CASE R # {}
      <4>1. PICK r \in R : state' = Woken({r})
        BY <1>2, <3>1, <3>4
      <4>2. r \in Threads /\ Wants(r, sig, cur, pend, stop)
        BY <1>4
      <4>3. state'[r] # "asleep"
        BY <4>1, <4>2, WokenStates
      <4>4. state'[r] # "dead" /\ g \notin blocked'[r]
        BY <1>2, <1>3, <3>1, <4>2 DEF Wants, Live
      <4>5. QED
        BY <4>2, <4>3, <4>4 DEF HasTaker
    <3>5. QED
      BY <3>3, <3>4
  <2>4. QED
    BY <2>2, <2>3
<1>9. QED
  BY <1>5, <1>6, <1>7, <1>8 DEF AwakeInv

----------------------------------------------------------------------------
(* Job control.                                                            *)

\* Signals sent: what is pending afterwards is the new signal and what it did not
\* discard.
Generates(sig) ==
    /\ \A g \in shared' : g = sig \/ g \in shared \ Discards(sig)
    /\ \A u \in Threads : \A g \in pending'[u] : g = sig \/ g \in pending[u] \ Discards(sig)

\* A signal that is sent discards its opposites in every queue of the group.
LEMMA GeneratesExclusive ==
    ASSUME TypeOK, JobControlExclusive, NEW sig \in Sigs, Generates(sig),
           ~(stopped' /\ continued')
    PROVE  JobControlExclusive'
<1> DEFINE all == shared \cup UNION {pending[t] : t \in Threads}
<1>1. all \cap StopSigs = {} \/ all \cap ContSigs = {}
  BY DEF JobControlExclusive
<1>2. \A g \in all' : g = sig \/ g \in all \ Discards(sig)
  BY DEF Generates
<1>3. JobControlExclusive' <=> /\ all' \cap StopSigs = {} \/ all' \cap ContSigs = {}
                               /\ ~(stopped' /\ continued')
  BY DEF JobControlExclusive
<1> HIDE DEF all
<1>4. all' \cap StopSigs = {} \/ all' \cap ContSigs = {}
  BY <1>1, <1>2, ThreadSignalsAssumption DEF Discards
<1>5. QED
  BY <1>3, <1>4

\* Nothing a thread does to itself makes a signal pending, and a stop forgets that
\* the group was continued.
LEMMA ThreadStepExclusive ==
    ASSUME TypeOK, JobControlExclusive,
           \A u \in Threads : pending'[u] \subseteq pending[u],
           shared' \subseteq shared,
           UNCHANGED <<stopped, continued>> \/ continued' = FALSE
    PROVE  JobControlExclusive'
<1> DEFINE all == shared \cup UNION {pending[t] : t \in Threads}
<1>1. all \cap StopSigs = {} \/ all \cap ContSigs = {}
  BY DEF JobControlExclusive
<1>2. all' \subseteq all
  OBVIOUS
<1>3. ~(stopped' /\ continued')
  BY DEF JobControlExclusive
<1>4. JobControlExclusive' <=> /\ all' \cap StopSigs = {} \/ all' \cap ContSigs = {}
                               /\ ~(stopped' /\ continued')
  BY DEF JobControlExclusive
<1> HIDE DEF all
<1>5. QED
  BY <1>1, <1>2, <1>3, <1>4

----------------------------------------------------------------------------
(* Theorems.                                                               *)

\* The inductive invariant holds in every reachable state.
LEMMA SignalsInvariant == Spec => []SignalsInv
<1>1. SignalsInv /\ [Next]_vars => SignalsInv'
  <2> SUFFICES ASSUME SignalsInv, [Next]_vars PROVE SignalsInv'
    OBVIOUS
  <2>0. TypeOK /\ AwakeInv /\ JobControlExclusive
    BY DEF SignalsInv, AwakeInv
  <2> SUFFICES TypeOK' /\ AwakeInv' /\ JobControlExclusive'
    BY DEF SignalsInv, AwakeInv
  <2>1. ASSUME NEW t \in Threads, ThreadStep(t) PROVE TypeOK' /\ AwakeInv'
    BY <2>0, <2>1, SleepKeeps, MaskChangeKeeps, RetargetKeeps, ExitKeeps, Zenon DEF ThreadStep
  <2>2. ASSUME NEW t \in Threads, ThreadStep(t) PROVE JobControlExclusive'
    <3> DEFINE Fewer == /\ \A u \in Threads : pending'[u] \subseteq pending[u]
                        /\ shared' \subseteq shared
    <3>1. Fewer
      <4>1. CASE Sleep(t) \/ Awake(t) \/ Retarget(t) \/ PollIdle(t) \/ EnterStop(t) \/ LeaveStop(t)
        BY <4>1 DEF Sleep, Awake, Retarget, PollIdle, EnterStop, LeaveStop
      <4>2. ASSUME NEW mask \in SUBSET Sigs, Sigprocmask(t, mask) \/ Sigsuspend(t, mask)
            PROVE  Fewer
        BY <4>2 DEF Sigprocmask, Sigsuspend
      <4>3. ASSUME NEW sig \in Sigs, PollTake(t, sig) PROVE Fewer
        BY <2>0, <4>3 DEF PollTake, TypeOK
      <4>4. CASE Exit(t)
        BY <2>0, <4>4 DEF Exit, TypeOK
      <4>5. QED
        BY <2>2, <4>1, <4>2, <4>3, <4>4, Zenon DEF ThreadStep
    <3>2. UNCHANGED <<stopped, continued>> \/ continued' = FALSE
      BY <2>2 DEF ThreadStep, Sleep, Awake, Sigprocmask, Sigsuspend, Retarget, PollIdle,
                  PollTake, EnterStop, LeaveStop, Exit
    <3>3. QED
      BY <2>0, <3>1, <3>2, ThreadStepExclusive
  <2>3. ASSUME NEW cur \in Threads \cup {Outside}, NEW t \in Threads, NEW sig \in Sigs,
               SendThread(cur, t, sig)
        PROVE  TypeOK' /\ AwakeInv' /\ JobControlExclusive'
    <3>1. TypeOK' /\ AwakeInv'
      BY <2>0, <2>3, SendThreadKeeps
    <3>2. Generates(sig)
      BY <2>0, <2>3, PurgedIs DEF SendThread, Generates
    <3>3. ~(stopped' /\ continued')
      BY <2>0, <2>3, ResumeIs DEF SendThread, JobControlExclusive
    <3>4. QED
      BY <2>0, <3>1, <3>2, <3>3, GeneratesExclusive
  <2>4. ASSUME NEW cur \in Threads \cup {Outside}, NEW t \in Threads, NEW sig \in Sigs,
               SendProcess(cur, t, sig)
        PROVE  TypeOK' /\ AwakeInv' /\ JobControlExclusive'
    <3>1. TypeOK' /\ AwakeInv'
      BY <2>0, <2>4, SendProcessKeeps
    <3>2. Generates(sig)
      BY <2>0, <2>4, PurgedIs DEF SendProcess, Generates
    <3>3. ~(stopped' /\ continued')
      BY <2>0, <2>4, ResumeIs DEF SendProcess, JobControlExclusive
    <3>4. QED
      BY <2>0, <3>1, <3>2, <3>3, GeneratesExclusive
  <2>5. CASE UNCHANGED vars
    BY <2>0, <2>5 DEF vars, savedVars, TypeOK, AwakeInv, NewlyInv, NoLostPrivateSignal, NoWakeupLost,
                      SharedSignalHasTaker, NeverStopped, Live, JobControlExclusive
  <2>6. QED
    BY <2>1, <2>2, <2>3, <2>4, <2>5, Zenon DEF Next
<1>2. QED
  BY SignalsInit, <1>1, PTL DEF Spec

\* Every reachable state is well typed.
THEOREM TypeCorrect == Spec => []TypeOK
<1>1. SignalsInv => TypeOK
  BY DEF SignalsInv
<1>2. QED
  BY SignalsInvariant, <1>1, PTL

\* The one wakeup that comes with a private signal (wake_signal_task_unlocked) is
\* enough: nobody in a group that was never stopped sleeps on a private signal.
THEOREM NoLostPrivateSignalHolds == Spec => []NoLostPrivateSignal
<1>1. SignalsInv => NoLostPrivateSignal
  BY DEF SignalsInv
<1>2. QED
  BY SignalsInvariant, <1>1, PTL

\* The one receiver that is chosen for a shared signal, and the hand-overs of mask
\* changes and exits (signal_retarget_shared_pending, do_exit), leave no shared
\* signal without a taker that is awake.
THEOREM SharedSignalHasTakerHolds == Spec => []SharedSignalHasTaker
<1>1. SignalsInv => SharedSignalHasTaker
  BY DEF SignalsInv
<1>2. QED
  BY SignalsInvariant, <1>1, PTL

\* Stop signals and SIGCONT are never pending together in a group, whichever of its
\* queues they are in (prepare_job_control_signal_locked).
THEOREM JobControlExclusiveHolds == Spec => []JobControlExclusive
<1>1. SignalsInv => JobControlExclusive
  BY DEF SignalsInv
<1>2. QED
  BY SignalsInvariant, <1>1, PTL
====
