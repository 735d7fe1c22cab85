----------------------------- MODULE Poll_proofs -----------------------------
(***************************************************************************)
(* Proofs about Poll, for any number of tasks, descriptors and records:    *)
(* nobody uses a record or a descriptor that is gone, no event and no      *)
(* signal is slept on, and the destruction can always go on.               *)
(***************************************************************************)
EXTENDS Poll, FiniteSetTheorems, TLAPS

Phases == {"out", "scan", "check", "host", "back", "idle", "relock", "quit"}

SlotRecs == [st : {"none", "free", "used"}, fd : Fds \cup {None},
             mode : {"level", "edge", "oneshot"}, wake : BOOLEAN, trig : BOOLEAN,
             forced : BOOLEAN, enabled : BOOLEAN, fresh : BOOLEAN]

\* The type of every variable.
TypeOK ==
    /\ pollLock \in Tasks \cup {Destroyer, None}
    /\ destroy \in {"no", "drain", "sweep", "yield", "done"}
    /\ waiters \in Nat /\ exclusive \in BOOLEAN /\ bytes \in -1..PipeSize
    /\ slot \in [Slots -> SlotRecs]
    /\ edge \in [Host -> BOOLEAN]
    /\ ready \in [Fds -> BOOLEAN] /\ owes \in [Fds -> {"none", "read", "write"}]
    /\ fdLock \in [Fds -> {None, "waker", "closer"}]
    /\ fdState \in [Fds -> {"open", "closing", "gone"}]
    /\ guestRef \in [Fds -> BOOLEAN] /\ closer \in [Fds -> Tasks \cup {None}]
    /\ phase \in [Tasks -> Phases] /\ got \in [Tasks -> SUBSET Slots]
    /\ held \in [Tasks -> SUBSET Host]
    /\ pending \in [Tasks -> BOOLEAN] /\ wasPending \in [Tasks -> BOOLEAN]
    /\ sender \in [Tasks -> BOOLEAN] /\ notifyFd \in [Tasks -> BOOLEAN]
    /\ ops \in Nat

\* The tasks inside poll_wait_deadline.
Inside == {t \in Tasks : phase[t] # "out"}

\* poll->waiters counts them, and the pipe is open while there is one.
CountInv ==
    /\ IsFiniteSet(Inside) /\ waiters = Cardinality(Inside)
    /\ bytes = -1 <=> waiters = 0

\* The destruction goes on only when nobody is inside, and nobody enters then.
DestroyInv ==
    /\ destroy \in {"sweep", "yield", "done"} => waiters = 0
    /\ destroy = "done" => Used = {}

\* The records of a host wait are held only until they are evaluated.
GotInv == \A t \in Tasks : /\ phase[t] # "back" => got[t] = {}
                           /\ \A s \in got[t] : slot[s].st # "none"

\* The guest's reference keeps a descriptor open, a close is done once.
FdInv ==
    /\ \A f \in Fds : /\ guestRef[f] => fdState[f] = "open"
                      /\ fdLock[f] = "closer" => fdState[f] = "closing"
    /\ \A s \in Used : slot[s].fd # None => fdState[slot[s].fd] # "gone"

\* A task that publishes the pipe to signal senders is alone in the object.
AloneInv ==
    /\ exclusive => waiters = 1
    /\ \A t \in Tasks : notifyFd[t] => exclusive /\ phase[t] # "out"

\* A readiness that poll_wakeup forces is that of a wake-only target, and new; the
\* tombstone of a closed descriptor was a wake-only target.
RecordInv ==
    \A s \in Slots : /\ slot[s].forced => slot[s].wake /\ slot[s].fresh
                     /\ slot[s].st = "used" /\ slot[s].fd = None => slot[s].wake

\* NoEventLost, from the end of the scan on, and with the host event that the
\* record itself is to cause.
EventInv ==
    Cardinality(Slots) <= Capacity =>
       \A s \in Slots :
          /\ Reportable(s) /\ slot[s].fresh /\ ~Destroying
          /\ \E t \in Tasks : phase[t] \in {"check", "host"}
          => \/ bytes > 0
             \/ s \in HostEvents
             \/ \E t \in Tasks : WillScan(t)
             \/ slot[s].fd # None /\ owes[slot[s].fd] = "read"

PollInv == /\ TypeOK /\ CountInv /\ DestroyInv /\ GotInv /\ FdInv
           /\ AloneInv /\ SignalNoticed /\ RecordInv /\ EventInv

----------------------------------------------------------------------------
(* Records *)

\* Records of the free list.
LEMMA UnusedRec ==
    /\ Unused \in SlotRecs /\ [Unused EXCEPT !.st = "free"] \in SlotRecs
    /\ Unused.st = "none" /\ Unused.forced = FALSE
    /\ [Unused EXCEPT !.st = "free"].st = "free" /\ [Unused EXCEPT !.st = "free"].forced = FALSE
  BY DEF Unused, SlotRecs

\* The fields of a record.
LEMMA Fields ==
    ASSUME NEW r \in SlotRecs
    PROVE  /\ r.st \in {"none", "free", "used"} /\ r.fd \in Fds \cup {None}
           /\ r.wake \in BOOLEAN /\ r.trig \in BOOLEAN /\ r.forced \in BOOLEAN
           /\ r.enabled \in BOOLEAN /\ r.fresh \in BOOLEAN
  BY DEF SlotRecs

\* What a registration writes.
LEMMA RegisteredRec ==
    ASSUME NEW f \in Fds, NEW mode \in Modes, NEW wake \in BOOLEAN
    PROVE  /\ Registered(f, mode, wake) \in SlotRecs
           /\ Registered(f, mode, wake).st = "used"
           /\ Registered(f, mode, wake).fd = f
           /\ Registered(f, mode, wake).forced = FALSE
  BY PollAssumption DEF Registered, Unused, SlotRecs

\* What a report changes.
LEMMA ReportedRec ==
    ASSUME NEW r \in SlotRecs
    PROVE  /\ Reported(r) \in SlotRecs
           /\ Reported(r).st = r.st /\ Reported(r).fd = r.fd /\ Reported(r).mode = r.mode
           /\ Reported(r).wake = r.wake
           /\ Reported(r).fresh = FALSE /\ Reported(r).forced = FALSE
  BY DEF Reported, SlotRecs

\* A change of one flag keeps the rest.
LEMMA FlagRec ==
    ASSUME NEW r \in SlotRecs, NEW b \in BOOLEAN
    PROVE  /\ [r EXCEPT !.trig = b] \in SlotRecs
           /\ [r EXCEPT !.fresh = b] \in SlotRecs
           /\ [r EXCEPT !.fd = None, !.forced = TRUE, !.fresh = TRUE] \in SlotRecs
           /\ [r EXCEPT !.trig = FALSE, !.fresh = TRUE, !.forced = b] \in SlotRecs
  BY DEF SlotRecs

\* The pipe stays within its size; with a reader it gets a byte or has one.
LEMMA NotifiedRange ==
    ASSUME TypeOK
    PROVE  /\ Notified \in -1..PipeSize
           /\ bytes # -1 => Notified > 0
           /\ Notified >= bytes /\ (Notified = -1 <=> bytes = -1)
  BY PollAssumption DEF TypeOK, Notified

----------------------------------------------------------------------------
(* Types *)

\* What the count of the waiters says about who is inside.
LEMMA WhoIsInside ==
    ASSUME CountInv
    PROVE  /\ waiters \in Nat
           /\ waiters = 0 <=> \A t \in Tasks : phase[t] = "out"
           /\ waiters = 1 => \A t, u \in Tasks : phase[t] # "out" /\ phase[u] # "out" => t = u
<1>1. waiters \in Nat
  BY FS_CardinalityType DEF CountInv
<1>2. waiters = 0 <=> Inside = {}
  BY FS_EmptySet DEF CountInv
<1>3. waiters = 1 => \E t : Inside = {t}
  BY FS_Singleton DEF CountInv
<1>4. QED
  BY <1>1, <1>2, <1>3 DEF Inside

\* Every step leaves well-formed records.
LEMMA SlotType == ASSUME TypeOK, Next PROVE slot' \in [Slots -> SlotRecs]
<1>0. slot \in [Slots -> SlotRecs] /\ \A s \in Slots : slot[s] \in SlotRecs
  BY DEF TypeOK
<1>1. ASSUME NEW f \in Fds, FdCall(f) PROVE slot' \in [Slots -> SlotRecs]
  <2>1. ASSUME NEW s \in Slots, NEW mode \in Modes, NEW wake \in BOOLEAN, Add(f, s, mode, wake)
        PROVE  slot' \in [Slots -> SlotRecs]
    BY <1>0, <2>1, RegisteredRec DEF Add
  <2>2. ASSUME NEW s \in Slots, AddFails(f, s) PROVE slot' \in [Slots -> SlotRecs]
    BY <1>0, <2>2, UnusedRec DEF AddFails
  <2>3. ASSUME NEW mode \in Modes, Mod(f, mode) PROVE slot' \in [Slots -> SlotRecs]
    <3>1. PICK s \in Slots : slot' = [slot EXCEPT ![s] = Registered(f, mode, slot[s].wake)]
      BY <2>3 DEF Mod, Of, Used
    <3>2. Registered(f, mode, slot[s].wake) \in SlotRecs
      BY <1>0, Fields, RegisteredRec
    <3>3. QED
      BY <1>0, <3>1, <3>2
  <2>4. CASE Del(f)
    BY <1>0, <2>4, UnusedRec DEF Del, Of, Used
  <2>5. CASE Rearm(f)
    <3>1. PICK s \in Of(f) : slot' = [slot EXCEPT ![s] = [slot[s] EXCEPT !.trig = FALSE]]
      BY <1>0, <2>5 DEF Rearm, Of, Used
    <3>2. QED
      BY <1>0, <3>1, FlagRec DEF Of, Used
  <2>6. ASSUME NEW r \in BOOLEAN, HostChange(f, r) PROVE slot' \in [Slots -> SlotRecs]
    BY <1>0, <2>6, FlagRec DEF HostChange
  <2>7. (\E r \in BOOLEAN : Change(f, r)) \/ Close(f) => slot' \in [Slots -> SlotRecs]
    BY <1>0 DEF Change, Close
  <2>8. QED
    BY <1>1, <2>1, <2>2, <2>3, <2>4, <2>5, <2>6, <2>7 DEF FdCall
<1>2. ASSUME NEW f \in Fds, FdStep(f) PROVE slot' \in [Slots -> SlotRecs]
  <2>1. WakeupLock(f) \/ CleanupLock(f) => slot' \in [Slots -> SlotRecs]
    BY <1>0 DEF WakeupLock, CleanupLock
  <2>2. CASE Wakeup(f)
    <3>1. \A s \in Slots :
             [slot[s] EXCEPT !.trig = FALSE, !.fresh = TRUE, !.forced = @ \/ slot[s].wake] \in SlotRecs
      BY <1>0, Fields DEF SlotRecs
    <3>2. QED
      BY <1>0, <2>2, <3>1 DEF Wakeup
  <2>3. CASE Cleanup(f)
    BY <1>0, <2>3, FlagRec, UnusedRec DEF Cleanup
  <2>4. QED
    BY <1>2, <2>1, <2>2, <2>3 DEF FdStep
<1>3. ASSUME NEW t \in Tasks, WaitStep(t) PROVE slot' \in [Slots -> SlotRecs]
  <2>1. CASE ScanReports(t)
    <3>1. PICK D \in SUBSET Slots :
             slot' = [s \in Slots |-> IF s \in D THEN Reported(slot[s]) ELSE slot[s]]
      BY <2>1 DEF ScanReports, Able
    <3>2. QED
      BY <1>0, <3>1, ReportedRec
  <2>2. CASE Back(t)
    BY <1>0, <2>2, FlagRec DEF Back
  <2>3. QED
    BY <1>0, <1>3, <2>1, <2>2
    DEF WaitStep, ScanNothing, CheckLeaves, CheckSleeps, HostReturn, HostGiveUp, Relock, Quit
<1>4. ASSUME DestroyStep PROVE slot' \in [Slots -> SlotRecs]
  BY <1>0, <1>4, UnusedRec
  DEF DestroyStep, DestroyBegin, DestroyLock, DestroyEnd, DestroyRemove, DestroyYield, Used
<1>5. ASSUME NEW t \in Tasks,
             SignalWake(t) \/ SignalTaken(t) \/ SignalQueue(t) \/ \E s \in BOOLEAN : WaitEnter(t, s)
      PROVE  slot' \in [Slots -> SlotRecs]
  BY <1>0, <1>5 DEF SignalWake, SignalTaken, SignalQueue, WaitEnter
<1>6. QED
  BY <1>1, <1>2, <1>3, <1>4, <1>5 DEF Next, FromOutside

USE DEF pollVars, fdVars, callVars, signalVars

\* The types are kept.
LEMMA TypeStep == ASSUME TypeOK, CountInv, Next PROVE TypeOK'
<1> USE PollAssumption DEF Phases
<1>0. slot' \in [Slots -> SlotRecs]
  BY SlotType
<1>1. Notified \in -1..PipeSize
  BY NotifiedRange
<1>2. \A f \in Fds : Rewatched(f) \in [Host -> BOOLEAN]
  BY DEF TypeOK, Rewatched, Fds
<1>3. ASSUME NEW who \in Tasks \cup {None}, NEW open, NEW holds, Dropped(who, open, holds)
      PROVE  /\ fdState' \in [Fds -> {"open", "closing", "gone"}]
             /\ closer' \in [Fds -> Tasks \cup {None}]
  BY <1>3 DEF TypeOK, Dropped
<1>4. ASSUME NEW f \in Fds, FdCall(f), ops' \in Nat PROVE TypeOK'
  <2>1. ASSUME NEW s \in Slots, NEW mode \in Modes, NEW wake \in BOOLEAN, Add(f, s, mode, wake)
        PROVE  TypeOK'
    BY <1>0, <1>1, <1>2, <1>4, <2>1 DEF Add, TypeOK
  <2>2. ASSUME NEW s \in Slots, AddFails(f, s) PROVE TypeOK'
    BY <1>0, <1>4, <2>2 DEF AddFails, TypeOK
  <2>3. ASSUME NEW mode \in Modes, Mod(f, mode) PROVE TypeOK'
    BY <1>0, <1>1, <1>2, <1>4, <2>3 DEF Mod, TypeOK
  <2>4. CASE Del(f)
    BY <1>0, <1>4, <2>4 DEF Del, TypeOK
  <2>5. CASE Rearm(f)
    BY <1>0, <1>1, <1>2, <1>4, <2>5 DEF Rearm, TypeOK
  <2>6. ASSUME NEW r \in BOOLEAN, Change(f, r) PROVE TypeOK'
    BY <1>0, <1>4, <2>6 DEF Change, TypeOK
  <2>7. ASSUME NEW r \in BOOLEAN, HostChange(f, r) PROVE TypeOK'
    BY <1>0, <1>4, <2>7 DEF HostChange, TypeOK
  <2>8. CASE Close(f)
    BY <1>0, <1>3, <1>4, <2>8 DEF Close, TypeOK
  <2>9. QED
    BY <1>4, <2>1, <2>2, <2>3, <2>4, <2>5, <2>6, <2>7, <2>8 DEF FdCall
<1>5. ASSUME NEW f \in Fds, FdStep(f) PROVE TypeOK'
  <2>1. CASE WakeupLock(f) \/ CleanupLock(f)
    BY <1>0, <2>1 DEF WakeupLock, CleanupLock, TypeOK
  <2>2. CASE Wakeup(f)
    BY <1>0, <1>1, <2>2 DEF Wakeup, TypeOK
  <2>3. CASE Cleanup(f)
    BY <1>0, <1>1, <2>3 DEF Cleanup, TypeOK, Fds
  <2>4. QED
    BY <1>5, <2>1, <2>2, <2>3 DEF FdStep
<1>6. ASSUME NEW t \in Tasks, WaitStep(t) PROVE TypeOK'
  <2>1. ASSUME phase[t] # "out", Leave(t),
               UNCHANGED <<destroy, edge, fdVars, got, held, pending, sender, ops>>
        PROVE  TypeOK'
    <3>1. waiters - 1 \in Nat
      BY <2>1, WhoIsInside
    <3>2. bytes' \in -1..PipeSize
      BY <2>1 DEF Leave, TypeOK
    <3>3. phase' \in [Tasks -> Phases] /\ notifyFd' \in [Tasks -> BOOLEAN]
          /\ wasPending' \in [Tasks -> BOOLEAN]
      BY <2>1 DEF Leave, Goto, TypeOK
    <3>4. waiters' = waiters - 1 /\ exclusive' = FALSE /\ pollLock' = None
      BY <2>1 DEF Leave
    <3>5. QED
      BY <1>0, <2>1, <3>1, <3>2, <3>3, <3>4 DEF TypeOK
  <2>2. CASE ScanReports(t) \/ CheckLeaves(t) \/ Quit(t)
    BY <2>1, <2>2 DEF ScanReports, CheckLeaves, Quit
  <2>3. CASE CheckSleeps(t)
    BY <1>0, <2>3 DEF CheckSleeps, Goto, TypeOK
  <2>4. CASE HostReturn(t)
    BY <1>0, <2>4 DEF HostReturn, Goto, TypeOK, HostEvents, Used
  <2>5. CASE Back(t)
    <3>1. fdState' \in [Fds -> {"open", "closing", "gone"}] /\ closer' \in [Fds -> Tasks \cup {None}]
      BY <1>3, <2>5 DEF Back
    <3>2. phase' \in [Tasks -> Phases]
      BY <2>5 DEF Back, Goto, TypeOK
    <3>3. bytes' \in -1..PipeSize
      BY <2>5 DEF Back, TypeOK
    <3>4. got' \in [Tasks -> SUBSET Slots] /\ held' \in [Tasks -> SUBSET Host]
      BY <2>5 DEF Back, TypeOK
    <3>5. UNCHANGED <<pollLock, destroy, waiters, exclusive, edge, ready, owes, fdLock, guestRef,
                      signalVars, ops>>
      BY <2>5 DEF Back
    <3>6. QED
      BY <1>0, <3>1, <3>2, <3>3, <3>4, <3>5 DEF TypeOK
  <2>6. CASE ScanNothing(t) \/ HostGiveUp(t) \/ Relock(t)
    BY <1>0, <2>6 DEF ScanNothing, HostGiveUp, Relock, Goto, TypeOK
  <2>7. QED
    BY <1>6, <2>2, <2>3, <2>4, <2>5, <2>6 DEF WaitStep
<1>7. ASSUME NEW t \in Tasks, NEW s \in BOOLEAN, WaitEnter(t, s) PROVE TypeOK'
  BY <1>0, <1>7 DEF WaitEnter, Goto, TypeOK
<1>8. ASSUME NEW t \in Tasks, SignalWake(t) \/ SignalTaken(t) PROVE TypeOK'
  <2>1. CASE SignalWake(t)
    BY <1>0, <1>1, <2>1 DEF SignalWake, TypeOK
  <2>2. CASE SignalTaken(t)
    BY <1>0, <2>2 DEF SignalTaken, TypeOK
  <2>3. QED
    BY <1>8, <2>1, <2>2
<1>9. ASSUME NEW t \in Tasks, SignalQueue(t), ops' \in Nat PROVE TypeOK'
  BY <1>0, <1>9 DEF SignalQueue, TypeOK
<1>10. ASSUME DestroyStep PROVE TypeOK'
  <2>1. CASE DestroyBegin
    BY <1>0, <1>1, <2>1 DEF DestroyBegin, TypeOK
  <2>2. CASE DestroyLock \/ DestroyEnd
    BY <1>0, <2>2 DEF DestroyLock, DestroyEnd, TypeOK
  <2>3. ASSUME NEW s \in Slots, DestroyRemove(s) \/ DestroyYield(s) PROVE TypeOK'
    BY <1>0, <2>3 DEF DestroyRemove, DestroyYield, TypeOK
  <2>4. QED
    BY <1>10, <2>1, <2>2, <2>3 DEF DestroyStep
<1>11. FromOutside => ops' \in Nat
  BY DEF FromOutside, TypeOK
<1>12. QED
  BY <1>4, <1>5, <1>6, <1>7, <1>8, <1>9, <1>10, <1>11 DEF Next, FromOutside

----------------------------------------------------------------------------
(* Waiters *)

\* A step in which nobody enters or leaves the object.
Stays ==
    /\ UNCHANGED <<waiters, exclusive, notifyFd>>
    /\ \A t \in Tasks : phase'[t] = "out" <=> phase[t] = "out"
    /\ bytes = -1 <=> bytes' = -1

\* Only poll_wait_deadline's first and last section change who is inside.
LEMMA StepKinds ==
    ASSUME TypeOK, Next
    PROVE  \/ Stays
           \/ \E t \in Tasks, s \in BOOLEAN : WaitEnter(t, s)
           \/ \E t \in Tasks : phase[t] # "out" /\ Leave(t) /\ destroy' = destroy
<1>1. Notified = -1 <=> bytes = -1
  BY NotifiedRange
<1>2. ASSUME NEW f \in Fds, FdCall(f) \/ FdStep(f) PROVE Stays
  BY <1>1, <1>2 DEF Stays, FdCall, Add, AddFails, Mod, Del, Rearm, Change, HostChange, Close,
                    FdStep, WakeupLock, Wakeup, CleanupLock, Cleanup
<1>3. ASSUME NEW t \in Tasks, SignalQueue(t) \/ SignalWake(t) \/ SignalTaken(t) PROVE Stays
  BY <1>1, <1>3 DEF Stays, SignalQueue, SignalWake, SignalTaken
<1>4. ASSUME DestroyStep PROVE Stays
  BY <1>1, <1>4 DEF Stays, DestroyStep, DestroyBegin, DestroyLock, DestroyEnd, DestroyRemove, DestroyYield
<1>5. ASSUME NEW t \in Tasks, WaitStep(t) PROVE Stays \/ (phase[t] # "out" /\ Leave(t) /\ destroy' = destroy)
  <2>1. CASE ScanReports(t) \/ CheckLeaves(t) \/ Quit(t)
    BY <2>1 DEF ScanReports, CheckLeaves, Quit
  <2>2. CASE ScanNothing(t) \/ CheckSleeps(t) \/ HostReturn(t) \/ HostGiveUp(t) \/ Relock(t)
    BY <2>2 DEF ScanNothing, CheckSleeps, HostReturn, HostGiveUp, Relock, Stays, Goto, TypeOK
  <2>3. CASE Back(t)
    <3>1. phase[t] # "out" /\ (Goto(t, "relock") \/ Goto(t, "quit"))
      BY <2>3 DEF Back
    <3>2. bytes = -1 <=> bytes' = -1
      BY <2>3 DEF Back, TypeOK
    <3>3. UNCHANGED <<waiters, exclusive, notifyFd>>
      BY <2>3 DEF Back
    <3>4. QED
      BY <3>1, <3>2, <3>3 DEF Stays, Goto, TypeOK
  <2>4. QED
    BY <1>5, <2>1, <2>2, <2>3 DEF WaitStep
<1>6. QED
  BY <1>2, <1>3, <1>4, <1>5 DEF Next, FromOutside

\* The count is kept.
LEMMA CountStep == ASSUME TypeOK, CountInv, Next PROVE CountInv'
<1>0. waiters \in Nat /\ bytes \in -1..PipeSize /\ phase \in [Tasks -> Phases]
  BY DEF TypeOK
<1>1. CASE Stays
  <2>1. Inside' = Inside
    BY <1>1 DEF Stays, Inside
  <2>2. QED
    BY <1>1, <2>1 DEF Stays, CountInv
<1>2. ASSUME NEW t \in Tasks, NEW s \in BOOLEAN, WaitEnter(t, s) PROVE CountInv'
  <2>1. Inside' = Inside \cup {t} /\ t \notin Inside
    BY <1>0, <1>2 DEF Inside, WaitEnter, Goto
  <2>2. IsFiniteSet(Inside') /\ Cardinality(Inside') = Cardinality(Inside) + 1
    BY <2>1, FS_AddElement DEF CountInv
  <2>3. waiters' = waiters + 1 /\ bytes' = IF waiters = 0 THEN 0 ELSE bytes
    BY <1>2 DEF WaitEnter
  <2>4. QED
    BY <1>0, <2>2, <2>3 DEF CountInv
<1>3. ASSUME NEW t \in Tasks, phase[t] # "out", Leave(t) PROVE CountInv'
  <2>1. Inside' = Inside \ {t} /\ t \in Inside
    BY <1>0, <1>3 DEF Inside, Leave, Goto
  <2>2. IsFiniteSet(Inside') /\ Cardinality(Inside') = Cardinality(Inside) - 1
    BY <2>1, FS_RemoveElement DEF CountInv
  <2>3. waiters' = waiters - 1 /\ bytes' = IF waiters = 1 THEN -1 ELSE bytes
    BY <1>3 DEF Leave
  <2>4. waiters # 0
    BY <1>3, WhoIsInside
  <2>5. QED
    BY <1>0, <2>2, <2>3, <2>4 DEF CountInv
<1>4. QED
  BY <1>1, <1>2, <1>3, StepKinds

\* A wait that publishes the pipe stays alone.
LEMMA AloneStep == ASSUME TypeOK, CountInv, AloneInv, Next PROVE AloneInv'
<1>0. waiters \in Nat /\ phase \in [Tasks -> Phases] /\ notifyFd \in [Tasks -> BOOLEAN]
  BY DEF TypeOK
<1>1. CASE Stays
  BY <1>1 DEF Stays, AloneInv
<1>2. ASSUME NEW t \in Tasks, NEW s \in BOOLEAN, WaitEnter(t, s) PROVE AloneInv'
  <2>1. /\ ~exclusive /\ (s => waiters = 0) /\ waiters' = waiters + 1 /\ exclusive' = s
        /\ notifyFd' = [notifyFd EXCEPT ![t] = s] /\ phase' = [phase EXCEPT ![t] = "scan"]
    BY <1>2 DEF WaitEnter, Goto
  <2>2. QED
    BY <1>0, <2>1 DEF AloneInv
<1>3. ASSUME NEW t \in Tasks, phase[t] # "out", Leave(t) PROVE AloneInv'
  <2>1. /\ notifyFd' = [notifyFd EXCEPT ![t] = FALSE] /\ exclusive' = FALSE
    BY <1>3 DEF Leave
  <2>2. \A u \in Tasks : notifyFd[u] => u = t
    BY <1>3, WhoIsInside DEF AloneInv
  <2>3. QED
    BY <1>0, <2>1, <2>2 DEF AloneInv
<1>4. QED
  BY <1>1, <1>2, <1>3, StepKinds

----------------------------------------------------------------------------
(* Memory *)

\* What a step can do to a registration.
LEMMA SlotSteps ==
    ASSUME TypeOK, Next, NEW s \in Slots
    PROVE  /\ slot'[s].st = "none" => slot[s].st = "none" \/ destroy = "sweep"
           /\ slot'[s].st = "used" =>
                \/ slot[s].st = "used" /\ slot'[s].fd \in {slot[s].fd, None}
                \/ destroy = "no" /\ slot'[s].fd \in Fds /\ guestRef[slot'[s].fd]
<1> DEFINE OK == /\ slot'[s].st = "none" => slot[s].st = "none" \/ destroy = "sweep"
                 /\ slot'[s].st = "used" =>
                      \/ slot[s].st = "used" /\ slot'[s].fd \in {slot[s].fd, None}
                      \/ destroy = "no" /\ slot'[s].fd \in Fds /\ guestRef[slot'[s].fd]
<1>0. slot \in [Slots -> SlotRecs] /\ \A q \in Slots : slot[q] \in SlotRecs
  BY DEF TypeOK
<1>00. ASSUME slot'[s].st = slot[s].st, slot'[s].fd = slot[s].fd PROVE OK
  BY <1>00
<1>1. ASSUME NEW f \in Fds, FdCall(f) PROVE OK
  <2>1. ASSUME NEW q \in Slots, NEW mode \in Modes, NEW wake \in BOOLEAN, Add(f, q, mode, wake)
        PROVE  OK
    <3>1. /\ slot' = [slot EXCEPT ![q] = Registered(f, mode, wake)]
          /\ destroy = "no" /\ guestRef[f]
      BY <2>1 DEF Add, MayChange, Destroying
    <3>2. QED
      BY <1>0, <3>1, RegisteredRec, ZenonT(60)
  <2>2. ASSUME NEW q \in Slots, AddFails(f, q) PROVE OK
    BY <1>0, <2>2, UnusedRec DEF AddFails
  <2>3. ASSUME NEW mode \in Modes, Mod(f, mode) PROVE OK
    <3>1. PICK q \in Slots : slot' = [slot EXCEPT ![q] = Registered(f, mode, slot[q].wake)]
      BY <2>3 DEF Mod, Of, Used
    <3>2. slot[q].wake \in BOOLEAN /\ destroy = "no" /\ guestRef[f]
      BY <1>0, <2>3, Fields DEF Mod, MayChange, Destroying
    <3>3. QED
      BY <1>0, <3>1, <3>2, RegisteredRec, ZenonT(60)
  <2>4. CASE Del(f)
    BY <1>0, <2>4, UnusedRec DEF Del, Of, Used
  <2>5. CASE Rearm(f)
    <3>1. PICK q \in Slots : slot' = [slot EXCEPT ![q] = [slot[q] EXCEPT !.trig = FALSE]]
      BY <1>0, <2>5 DEF Rearm, Of, Used
    <3>2. QED
      BY <1>0, <1>00, <3>1 DEF SlotRecs
  <2>6. ASSUME NEW r \in BOOLEAN, HostChange(f, r) PROVE OK
    <3>1. slot'[s] = [slot[s] EXCEPT !.fresh = TRUE] \/ slot'[s] = slot[s]
      BY <1>0, <2>6 DEF HostChange
    <3>2. QED
      BY <1>0, <1>00, <3>1 DEF SlotRecs
  <2>7. (\E r \in BOOLEAN : Change(f, r)) \/ Close(f) => slot' = slot
    BY DEF Change, Close
  <2>8. QED
    BY <1>00, <1>1, <2>1, <2>2, <2>3, <2>4, <2>5, <2>6, <2>7 DEF FdCall
<1>2. ASSUME NEW f \in Fds, FdStep(f) PROVE OK
  <2>1. WakeupLock(f) \/ CleanupLock(f) => slot' = slot
    BY DEF WakeupLock, CleanupLock
  <2>2. CASE Wakeup(f)
    <3>1. \/ slot'[s] = [slot[s] EXCEPT !.trig = FALSE, !.fresh = TRUE, !.forced = @ \/ slot[s].wake]
          \/ slot'[s] = slot[s]
      BY <1>0, <2>2 DEF Wakeup
    <3>2. QED
      BY <1>0, <1>00, <3>1 DEF SlotRecs
  <2>3. CASE Cleanup(f)
    <3>1. \/ slot'[s] = slot[s]
          \/ slot'[s] = [slot[s] EXCEPT !.fd = None, !.forced = TRUE, !.fresh = TRUE]
          \/ slot'[s] = [Unused EXCEPT !.st = "free"]
      BY <1>0, <2>3 DEF Cleanup
    <3>2. ASSUME slot'[s] = [slot[s] EXCEPT !.fd = None, !.forced = TRUE, !.fresh = TRUE]
          PROVE  slot'[s].st = slot[s].st /\ slot'[s].fd = None
      BY <1>0, <3>2 DEF SlotRecs
    <3>3. QED
      BY <3>1, <3>2, UnusedRec
  <2>4. QED
    BY <1>00, <1>2, <2>1, <2>2, <2>3 DEF FdStep
<1>3. ASSUME NEW t \in Tasks, WaitStep(t) PROVE OK
  <2>1. CASE ScanReports(t)
    <3>1. slot'[s] = Reported(slot[s]) \/ slot'[s] = slot[s]
      BY <2>1 DEF ScanReports
    <3>2. QED
      BY <1>0, <1>00, <3>1, ReportedRec
  <2>2. CASE Back(t)
    <3>1. slot'[s] = [slot[s] EXCEPT !.trig = FALSE] \/ slot'[s] = slot[s]
      BY <2>2 DEF Back
    <3>2. QED
      BY <1>0, <1>00, <3>1 DEF SlotRecs
  <2>3. QED
    BY <1>00, <1>3, <2>1, <2>2
    DEF WaitStep, ScanNothing, CheckLeaves, CheckSleeps, HostReturn, HostGiveUp, Relock, Quit
<1>4. ASSUME DestroyStep PROVE OK
  <2>1. CASE DestroyBegin \/ DestroyLock \/ \E q \in Slots : DestroyYield(q)
    BY <1>00, <2>1 DEF DestroyBegin, DestroyLock, DestroyYield
  <2>2. CASE DestroyEnd \/ \E q \in Slots : DestroyRemove(q)
    <3>1. destroy = "sweep" /\ (slot'[s] = slot[s] \/ slot'[s] = Unused)
      BY <1>0, <2>2 DEF DestroyEnd, DestroyRemove
    <3>2. QED
      BY <3>1, UnusedRec
  <2>3. QED
    BY <1>4, <2>1, <2>2 DEF DestroyStep
<1>5. ASSUME NEW t \in Tasks,
             SignalWake(t) \/ SignalTaken(t) \/ SignalQueue(t) \/ \E b \in BOOLEAN : WaitEnter(t, b)
      PROVE  OK
  BY <1>00, <1>5 DEF SignalWake, SignalTaken, SignalQueue, WaitEnter
<1>6. QED
  BY <1>1, <1>2, <1>3, <1>4, <1>5 DEF Next, FromOutside

\* How the destruction advances.
LEMMA DestroySteps ==
    ASSUME Next
    PROVE  \/ destroy' = destroy
           \/ destroy' = "drain"
           \/ destroy' \in {"sweep", "yield", "done"} /\ (waiters = 0 \/ destroy = "sweep")
              /\ (destroy' = "done" => slot' = [s \in Slots |-> Unused])
<1>1. ASSUME NEW f \in Fds, FdCall(f) \/ FdStep(f) PROVE destroy' = destroy
  BY <1>1 DEF FdCall, Add, AddFails, Mod, Del, Rearm, Change, HostChange, Close,
              FdStep, WakeupLock, Wakeup, CleanupLock, Cleanup
<1>2. ASSUME NEW t \in Tasks, WaitStep(t) PROVE destroy' = destroy
  BY <1>2 DEF WaitStep, ScanReports, ScanNothing, CheckLeaves, CheckSleeps, HostReturn, HostGiveUp,
              Back, Relock, Quit
<1>3. ASSUME NEW t \in Tasks,
             SignalWake(t) \/ SignalTaken(t) \/ SignalQueue(t) \/ \E b \in BOOLEAN : WaitEnter(t, b)
      PROVE  destroy' = destroy
  BY <1>3 DEF SignalWake, SignalTaken, SignalQueue, WaitEnter
<1>4. QED
  BY <1>1, <1>2, <1>3 DEF Next, FromOutside, DestroyStep, DestroyBegin, DestroyLock, DestroyEnd,
                          DestroyRemove, DestroyYield

\* Once the destruction has passed the waiters, the object is and stays empty.
LEMMA DestroyInvStep == ASSUME TypeOK, CountInv, DestroyInv, Next PROVE DestroyInv'
<1>1. destroy \in {"sweep", "yield", "done"} => waiters' = waiters /\ waiters = 0
  <2> SUFFICES ASSUME destroy \in {"sweep", "yield", "done"} PROVE waiters' = waiters /\ waiters = 0
    OBVIOUS
  <2>1. waiters = 0 /\ \A t \in Tasks : phase[t] = "out"
    BY WhoIsInside DEF DestroyInv
  <2>2. ASSUME NEW t \in Tasks, NEW s \in BOOLEAN, WaitEnter(t, s) PROVE FALSE
    BY <2>2 DEF WaitEnter, Destroying
  <2>3. QED
    BY <2>1, <2>2, StepKinds DEF Stays
<1>2. destroy' \in {"sweep", "yield", "done"} => waiters' = 0
  <2>1. ASSUME destroy' # destroy PROVE waiters' = waiters
    <3>1. ASSUME NEW t \in Tasks, NEW s \in BOOLEAN, WaitEnter(t, s) PROVE FALSE
      BY <2>1, <3>1 DEF WaitEnter
    <3>2. QED
      BY <2>1, <3>1, StepKinds DEF Stays
  <2>2. QED
    BY <1>1, <2>1, DestroySteps DEF DestroyInv
<1>3. destroy' = "done" => Used' = {}
  <2>1. CASE destroy = "done"
    <3>1. \A s \in Slots : slot[s].st # "used"
      BY <2>1 DEF DestroyInv, Used
    <3>2. \A s \in Slots : slot'[s].st # "used"
      BY <2>1, <3>1, SlotSteps
    <3>3. QED
      BY <3>2 DEF Used
  <2>2. CASE destroy # "done" /\ destroy' = "done"
    BY <2>2, DestroySteps, UnusedRec DEF Used
  <2>3. QED
    BY <2>1, <2>2
<1>4. QED
  BY <1>2, <1>3 DEF DestroyInv

\* A record in the hands of the host back end keeps its memory.
LEMMA GotStep == ASSUME TypeOK, CountInv, DestroyInv, GotInv, Next PROVE GotInv'
<1>0. phase \in [Tasks -> Phases] /\ got \in [Tasks -> SUBSET Slots]
  BY DEF TypeOK
<1>1. ASSUME NEW t \in Tasks, NEW s \in got[t] PROVE slot'[s].st # "none"
  <2>1. slot[s].st # "none" /\ s \in Slots /\ phase[t] # "out"
    BY <1>0 DEF GotInv
  <2>2. destroy # "sweep"
    BY <2>1, WhoIsInside DEF DestroyInv
  <2>3. QED
    BY <2>1, <2>2, SlotSteps
<1>2. \A t \in Tasks : /\ got'[t] \subseteq got[t] \/ (got'[t] \subseteq Used /\ slot' = slot)
                       /\ phase'[t] # "back" => got'[t] = {}
  <2> DEFINE OK == \A t \in Tasks : /\ got'[t] \subseteq got[t] \/ (got'[t] \subseteq Used /\ slot' = slot)
                                    /\ phase'[t] # "back" => got'[t] = {}
  <2>1. ASSUME got' = got, NEW t \in Tasks, phase[t] # "back", NEW p, phase' = [phase EXCEPT ![t] = p]
        PROVE  OK
    BY <1>0, <2>1 DEF GotInv
  <2>2. ASSUME got' = got, phase' = phase PROVE OK
    BY <2>2 DEF GotInv
  <2>3. ASSUME NEW f \in Fds, FdCall(f) \/ FdStep(f) PROVE got' = got /\ phase' = phase
    BY <2>3 DEF FdCall, Add, AddFails, Mod, Del, Rearm, Change, HostChange, Close,
                FdStep, WakeupLock, Wakeup, CleanupLock, Cleanup
  <2>4. ASSUME NEW t \in Tasks, WaitStep(t) PROVE OK
    <3>1. CASE HostReturn(t)
      <4>1. got' = [got EXCEPT ![t] = HostEvents] /\ phase' = [phase EXCEPT ![t] = "back"] /\ slot' = slot
        BY <3>1 DEF HostReturn, Goto
      <4>2. QED
        BY <1>0, <4>1 DEF HostEvents, GotInv
    <3>2. CASE Back(t)
      <4>1. /\ got' = [got EXCEPT ![t] = {}]
            /\ \E p \in Phases : phase' = [phase EXCEPT ![t] = p]
        BY <3>2 DEF Back, Goto, Phases
      <4>2. QED
        BY <1>0, <4>1 DEF GotInv
    <3>3. CASE ScanReports(t) \/ ScanNothing(t) \/ CheckLeaves(t) \/ CheckSleeps(t) \/ HostGiveUp(t)
               \/ Relock(t) \/ Quit(t)
      <4>1. got' = got /\ phase[t] # "back" /\ \E p \in Phases : phase' = [phase EXCEPT ![t] = p]
        BY <3>3 DEF ScanReports, ScanNothing, CheckLeaves, CheckSleeps, HostGiveUp, Relock, Quit,
                    Leave, Goto, Phases
      <4>2. QED
        BY <2>1, <4>1
    <3>4. QED
      BY <2>4, <3>1, <3>2, <3>3 DEF WaitStep
  <2>5. ASSUME NEW t \in Tasks, NEW s \in BOOLEAN, WaitEnter(t, s) PROVE OK
    <3>1. got' = got /\ phase[t] # "back" /\ phase' = [phase EXCEPT ![t] = "scan"]
      BY <2>5 DEF WaitEnter, Goto
    <3>2. QED
      BY <2>1, <3>1
  <2>6. ASSUME NEW t \in Tasks, SignalWake(t) \/ SignalTaken(t) \/ SignalQueue(t)
        PROVE  got' = got /\ phase' = phase
    BY <2>6 DEF SignalWake, SignalTaken, SignalQueue
  <2>7. ASSUME DestroyStep PROVE got' = got /\ phase' = phase
    BY <2>7 DEF DestroyStep, DestroyBegin, DestroyLock, DestroyEnd, DestroyRemove, DestroyYield
  <2>8. QED
    BY <2>2, <2>3, <2>4, <2>5, <2>6, <2>7 DEF Next, FromOutside
<1>3. QED
  BY <1>1, <1>2 DEF GotInv, Used

\* A descriptor goes away only after its registrations.
LEMMA FdStepInv == ASSUME TypeOK, FdInv, Next PROVE FdInv'
<1> USE PollAssumption
<1>0. /\ guestRef \in [Fds -> BOOLEAN] /\ fdLock \in [Fds -> {None, "waker", "closer"}]
      /\ fdState \in [Fds -> {"open", "closing", "gone"}]
      /\ slot \in [Slots -> SlotRecs]
  BY DEF TypeOK
<1> DEFINE A == \A f \in Fds : /\ guestRef'[f] => fdState'[f] = "open"
                               /\ fdLock'[f] = "closer" => fdState'[f] = "closing"
           B == \A s \in Slots : slot'[s].st = "used" /\ slot'[s].fd # None => fdState'[slot'[s].fd] # "gone"
<1>00. \A s \in Slots : slot[s].st = "used" /\ slot[s].fd # None =>
                           slot[s].fd \in Fds /\ fdState[slot[s].fd] # "gone"
  BY <1>0, Fields DEF FdInv, Used
<1>1. ASSUME \A f \in Fds : fdState'[f] = "gone" => fdState[f] = "gone" PROVE B
  <2> SUFFICES ASSUME NEW s \in Slots, slot'[s].st = "used", slot'[s].fd # None
               PROVE  fdState'[slot'[s].fd] # "gone"
    OBVIOUS
  <2>1. \/ slot[s].st = "used" /\ slot'[s].fd = slot[s].fd
        \/ slot'[s].fd \in Fds /\ guestRef[slot'[s].fd]
    BY SlotSteps
  <2>2. QED
    BY <1>00, <1>1, <2>1 DEF FdInv
<1>2. ASSUME UNCHANGED <<fdState, guestRef, fdLock>> PROVE A /\ B
  BY <1>1, <1>2 DEF FdInv
<1>3. ASSUME NEW who, NEW holds, Dropped(who, guestRef', holds), fdLock' = fdLock,
             \A f \in Fds : guestRef'[f] => guestRef[f]
      PROVE  A /\ B
  <2>1. \A f \in Fds : \/ fdState'[f] = fdState[f]
                       \/ fdState[f] = "open" /\ ~guestRef'[f] /\ fdState'[f] = "closing"
    BY <1>3 DEF Dropped
  <2>2. A
    BY <1>0, <1>3, <2>1 DEF FdInv
  <2>3. QED
    BY <1>1, <2>1, <2>2
<1>4. ASSUME NEW f \in Fds, FdCall(f) PROVE A /\ B
  <2>1. CASE Close(f)
    <3>1. Dropped(None, guestRef', held) /\ fdLock' = fdLock /\ guestRef' = [guestRef EXCEPT ![f] = FALSE]
      BY <2>1 DEF Close
    <3>2. QED
      BY <1>0, <1>3, <3>1
  <2>2. CASE ~Close(f)
    BY <1>2, <1>4, <2>2 DEF FdCall, Add, AddFails, Mod, Del, Rearm, Change, HostChange
  <2>3. QED
    BY <2>1, <2>2
<1>5. ASSUME NEW f \in Fds, FdStep(f) PROVE A /\ B
  <2>1. CASE WakeupLock(f) \/ CleanupLock(f) \/ Wakeup(f)
    <3>1. /\ guestRef' = guestRef /\ fdState' = fdState
          /\ \E l \in {None, "waker", "closer"} : /\ fdLock' = [fdLock EXCEPT ![f] = l]
                                                  /\ l = "closer" => fdState[f] = "closing"
      BY <2>1 DEF WakeupLock, CleanupLock, Wakeup
    <3>2. A
      BY <1>0, <3>1 DEF FdInv
    <3>3. QED
      BY <1>1, <3>1, <3>2
  <2>2. CASE Cleanup(f)
    <3>1. /\ guestRef' = guestRef /\ fdState' = [fdState EXCEPT ![f] = "gone"]
          /\ fdLock' = [fdLock EXCEPT ![f] = None] /\ fdLock[f] = "closer"
      BY <2>2 DEF Cleanup
    <3>2. A
      BY <1>0, <3>1 DEF FdInv
    <3>3. ASSUME NEW s \in Slots, slot'[s].st = "used", slot'[s].fd # None PROVE slot'[s].fd # f
      <4>1. CASE s \notin Of(f)
        <5>1. slot'[s] = slot[s]
          BY <2>2, <4>1 DEF Cleanup
        <5>2. QED
          BY <3>3, <4>1, <5>1 DEF Of, Used
      <4>2. CASE s \in Of(f)
        <5>1. \/ slot'[s] = [slot[s] EXCEPT !.fd = None, !.forced = TRUE, !.fresh = TRUE]
              \/ slot'[s] = [Unused EXCEPT !.st = "free"]
          BY <2>2, <4>2 DEF Cleanup
        <5>2. [slot[s] EXCEPT !.fd = None, !.forced = TRUE, !.fresh = TRUE].fd = None
          BY <1>0 DEF SlotRecs
        <5>3. QED
          BY <3>3, <5>1, <5>2, UnusedRec
      <4>3. QED
        BY <4>1, <4>2
    <3>4. B
      <4> SUFFICES ASSUME NEW s \in Slots, slot'[s].st = "used", slot'[s].fd # None
                   PROVE  fdState'[slot'[s].fd] # "gone"
        OBVIOUS
      <4>1. \/ slot[s].st = "used" /\ slot'[s].fd = slot[s].fd
            \/ slot'[s].fd \in Fds /\ guestRef[slot'[s].fd]
        BY SlotSteps
      <4>2. QED
        BY <1>0, <1>00, <3>1, <3>3, <4>1 DEF FdInv
    <3>5. QED
      BY <3>2, <3>4
  <2>3. QED
    BY <1>5, <2>1, <2>2 DEF FdStep
<1>6. ASSUME NEW t \in Tasks, WaitStep(t) PROVE A /\ B
  <2>1. CASE Back(t)
    <3>1. Dropped(t, guestRef', held') /\ fdLock' = fdLock /\ guestRef' = guestRef
      BY <2>1 DEF Back
    <3>2. QED
      BY <1>3, <3>1
  <2>2. CASE ~Back(t)
    BY <1>2, <1>6, <2>2
    DEF WaitStep, ScanReports, ScanNothing, CheckLeaves, CheckSleeps, HostReturn, HostGiveUp, Relock, Quit
  <2>3. QED
    BY <2>1, <2>2
<1>7. ASSUME NEW t \in Tasks,
             SignalWake(t) \/ SignalTaken(t) \/ SignalQueue(t) \/ \E b \in BOOLEAN : WaitEnter(t, b)
      PROVE  A /\ B
  BY <1>2, <1>7 DEF SignalWake, SignalTaken, SignalQueue, WaitEnter
<1>8. ASSUME DestroyStep PROVE A /\ B
  BY <1>2, <1>8 DEF DestroyStep, DestroyBegin, DestroyLock, DestroyEnd, DestroyRemove, DestroyYield
<1>9. A /\ B
  BY <1>4, <1>5, <1>6, <1>7, <1>8 DEF Next, FromOutside
<1>10. QED
  BY <1>9 DEF FdInv, Used

----------------------------------------------------------------------------
(* Signals and events *)

\* A signal is not slept on.
LEMMA SignalStep == ASSUME TypeOK, CountInv, AloneInv, SignalNoticed, Next PROVE SignalNoticed'
<1> SUFFICES ASSUME NEW t \in Tasks, notifyFd'[t], phase'[t] = "host", pending'[t]
             PROVE  bytes' > 0 \/ sender'[t]
  BY DEF SignalNoticed, Asleep
<1>0. /\ phase \in [Tasks -> Phases] /\ notifyFd \in [Tasks -> BOOLEAN] /\ pending \in [Tasks -> BOOLEAN]
      /\ sender \in [Tasks -> BOOLEAN] /\ bytes \in -1..PipeSize /\ waiters \in Nat
  BY DEF TypeOK
<1>1. Notified >= bytes /\ Notified \in Int /\ (bytes # -1 => Notified > 0)
  BY NotifiedRange
<1>2. ASSUME phase[t] = "host", notifyFd[t], pending[t] => sender'[t] \/ pending[t] = pending'[t],
             pending[t], sender'[t] = sender[t], bytes' \in {bytes, Notified}
      PROVE  bytes' > 0 \/ sender'[t]
  BY <1>0, <1>1, <1>2 DEF SignalNoticed, Asleep
<1>3. ASSUME NEW f \in Fds, FdCall(f) \/ FdStep(f) PROVE bytes' > 0 \/ sender'[t]
  <2>1. UNCHANGED <<phase, notifyFd, pending, sender>> /\ bytes' \in {bytes, Notified}
    BY <1>3 DEF FdCall, Add, AddFails, Mod, Del, Rearm, Change, HostChange, Close,
                FdStep, WakeupLock, Wakeup, CleanupLock, Cleanup
  <2>2. QED
    BY <1>2, <2>1
<1>4. ASSUME DestroyStep PROVE bytes' > 0 \/ sender'[t]
  <2>1. UNCHANGED <<phase, notifyFd, pending, sender>> /\ bytes' \in {bytes, Notified}
    BY <1>4 DEF DestroyStep, DestroyBegin, DestroyLock, DestroyEnd, DestroyRemove, DestroyYield
  <2>2. QED
    BY <1>2, <2>1
<1>5. ASSUME NEW u \in Tasks, SignalQueue(u) PROVE bytes' > 0 \/ sender'[t]
  <2>1. CASE u = t
    BY <1>0, <1>5, <2>1 DEF SignalQueue
  <2>2. CASE u # t
    BY <1>0, <1>2, <1>5, <2>2 DEF SignalQueue
  <2>3. QED
    BY <2>1, <2>2
<1>6. ASSUME NEW u \in Tasks, SignalWake(u) PROVE bytes' > 0 \/ sender'[t]
  <2>1. UNCHANGED <<phase, notifyFd, pending>> /\ bytes' = (IF notifyFd[u] THEN Notified ELSE bytes)
        /\ sender' = [sender EXCEPT ![u] = FALSE]
    BY <1>6 DEF SignalWake
  <2>2. CASE u = t
    <3>1. bytes # -1
      BY <2>1, WhoIsInside DEF CountInv
    <3>2. QED
      BY <1>1, <2>1, <2>2, <3>1
  <2>3. CASE u # t
    BY <1>0, <1>2, <2>1, <2>3
  <2>4. QED
    BY <2>2, <2>3
<1>7. ASSUME NEW u \in Tasks, SignalTaken(u) PROVE bytes' > 0 \/ sender'[t]
  <2>1. UNCHANGED <<phase, notifyFd, sender, bytes>> /\ pending' = [pending EXCEPT ![u] = FALSE]
    BY <1>7 DEF SignalTaken
  <2>2. QED
    BY <1>0, <1>2, <2>1
<1>8. ASSUME NEW u \in Tasks, NEW s \in BOOLEAN, WaitEnter(u, s) PROVE FALSE
  <2>1. ~exclusive /\ phase' = [phase EXCEPT ![u] = "scan"] /\ notifyFd' = [notifyFd EXCEPT ![u] = s]
    BY <1>8 DEF WaitEnter, Goto
  <2>2. QED
    BY <1>0, <2>1 DEF AloneInv
<1>9. ASSUME NEW u \in Tasks, WaitStep(u) PROVE bytes' > 0 \/ sender'[t]
  <2>1. phase[u] # "out" /\ (\E p \in Phases : phase' = [phase EXCEPT ![u] = p])
        /\ (notifyFd' = notifyFd \/ notifyFd' = [notifyFd EXCEPT ![u] = FALSE])
    BY <1>9 DEF WaitStep, ScanReports, ScanNothing, CheckLeaves, CheckSleeps, HostReturn, HostGiveUp,
                Back, Relock, Quit, Leave, Goto, Phases
  <2>2. u = t
    <3> SUFFICES ASSUME u # t PROVE FALSE
      OBVIOUS
    <3>1. notifyFd[t] /\ phase[t] # "out"
      BY <1>0, <2>1
    <3>2. waiters = 1
      BY <3>1 DEF AloneInv
    <3>3. QED
      BY <2>1, <3>1, <3>2, WhoIsInside
  <2>3. CASE CheckSleeps(u)
    BY <2>2, <2>3 DEF CheckSleeps
  <2>4. CASE ~CheckSleeps(u)
    <3>1. \E p \in Phases \ {"host"} : phase' = [phase EXCEPT ![u] = p]
      BY <1>9, <2>4 DEF WaitStep, ScanReports, ScanNothing, CheckLeaves, HostReturn, HostGiveUp,
                        Back, Relock, Quit, Leave, Goto, Phases
    <3>2. QED
      BY <1>0, <2>2, <3>1
  <2>5. QED
    BY <2>3, <2>4
<1>10. QED
  BY <1>3, <1>4, <1>5, <1>6, <1>7, <1>8, <1>9 DEF Next, FromOutside

\* The records stay well-formed.
LEMMA RecordStep == ASSUME TypeOK, RecordInv, Next PROVE RecordInv'
<1> USE PollAssumption
<1>0. slot \in [Slots -> SlotRecs] /\ \A q \in Slots : slot[q] \in SlotRecs
  BY DEF TypeOK
<1> SUFFICES ASSUME NEW s \in Slots
             PROVE  /\ slot'[s].forced => slot'[s].wake /\ slot'[s].fresh
                    /\ slot'[s].st = "used" /\ slot'[s].fd = None => slot'[s].wake
  BY DEF RecordInv
<1> DEFINE OK == /\ slot'[s].forced => slot'[s].wake /\ slot'[s].fresh
                 /\ slot'[s].st = "used" /\ slot'[s].fd = None => slot'[s].wake
<1>00. /\ slot[s].forced => slot[s].wake /\ slot[s].fresh
       /\ slot[s].st = "used" /\ slot[s].fd = None => slot[s].wake
  BY DEF RecordInv
<1>01. ASSUME slot'[s] = slot[s] PROVE OK
  BY <1>00, <1>01
<1>02. ASSUME slot'[s].forced = FALSE, slot'[s].st # "used" \/ slot'[s].fd # None PROVE OK
  BY <1>02
<1>03. ASSUME slot'[s] = [slot[s] EXCEPT !.trig = FALSE] PROVE OK
  BY <1>0, <1>00, <1>03 DEF SlotRecs
<1>1. ASSUME NEW f \in Fds, FdCall(f) PROVE OK
  <2>0. f # None
    BY DEF Fds
  <2>1. ASSUME NEW q \in Slots, NEW mode \in Modes, NEW wake \in BOOLEAN, Add(f, q, mode, wake)
        PROVE  OK
    <3>1. slot' = [slot EXCEPT ![q] = Registered(f, mode, wake)]
      BY <2>1 DEF Add
    <3>2. slot'[s] = slot[s] \/ slot'[s] = Registered(f, mode, wake)
      BY <1>0, <3>1
    <3>3. Registered(f, mode, wake).forced = FALSE /\ Registered(f, mode, wake).fd = f
      BY DEF Registered, Unused
    <3>4. QED
      BY <1>01, <1>02, <2>0, <3>2, <3>3
  <2>2. ASSUME NEW q \in Slots, AddFails(f, q) PROVE OK
    BY <1>0, <1>01, <1>02, <2>2, UnusedRec DEF AddFails
  <2>3. ASSUME NEW mode \in Modes, Mod(f, mode) PROVE OK
    <3>1. PICK q \in Slots : slot' = [slot EXCEPT ![q] = Registered(f, mode, slot[q].wake)]
      BY <2>3 DEF Mod, Of, Used
    <3>2. slot[q].wake \in BOOLEAN
      BY <1>0, Fields
    <3>3. slot'[s] = slot[s] \/ slot'[s] = Registered(f, mode, slot[q].wake)
      BY <1>0, <3>1
    <3>4. Registered(f, mode, slot[q].wake).forced = FALSE /\ Registered(f, mode, slot[q].wake).fd = f
      BY DEF Registered, Unused
    <3>5. QED
      BY <1>01, <1>02, <2>0, <3>3, <3>4
  <2>4. CASE Del(f)
    BY <1>0, <1>01, <1>02, <2>4, UnusedRec DEF Del, Of, Used
  <2>5. CASE Rearm(f)
    <3>1. PICK q \in Slots : slot' = [slot EXCEPT ![q] = [slot[q] EXCEPT !.trig = FALSE]]
      BY <1>0, <2>5 DEF Rearm, Of, Used
    <3>2. QED
      BY <1>0, <1>01, <1>03, <3>1
  <2>6. ASSUME NEW r \in BOOLEAN, HostChange(f, r) PROVE OK
    <3>1. slot'[s] = [slot[s] EXCEPT !.fresh = TRUE] \/ slot'[s] = slot[s]
      BY <1>0, <2>6 DEF HostChange
    <3>2. QED
      BY <1>0, <1>00, <1>01, <3>1 DEF SlotRecs
  <2>7. (\E r \in BOOLEAN : Change(f, r)) \/ Close(f) => slot' = slot
    BY DEF Change, Close
  <2>8. QED
    BY <1>01, <1>1, <2>1, <2>2, <2>3, <2>4, <2>5, <2>6, <2>7 DEF FdCall
<1>2. ASSUME NEW f \in Fds, FdStep(f) PROVE OK
  <2>1. WakeupLock(f) \/ CleanupLock(f) => slot' = slot
    BY DEF WakeupLock, CleanupLock
  <2>2. CASE Wakeup(f)
    <3>1. \/ slot'[s] = [slot[s] EXCEPT !.trig = FALSE, !.fresh = TRUE, !.forced = slot[s].forced \/ slot[s].wake]
          \/ slot'[s] = slot[s]
      BY <1>0, <2>2 DEF Wakeup
    <3>2. ASSUME slot'[s] = [slot[s] EXCEPT !.trig = FALSE, !.fresh = TRUE,
                                            !.forced = slot[s].forced \/ slot[s].wake]
          PROVE  /\ slot'[s].forced = (slot[s].forced \/ slot[s].wake) /\ slot'[s].wake = slot[s].wake
                 /\ slot'[s].fresh = TRUE /\ slot'[s].st = slot[s].st /\ slot'[s].fd = slot[s].fd
      BY <1>0, <3>2 DEF SlotRecs
    <3>3. QED
      BY <1>00, <1>01, <3>1, <3>2
  <2>3. CASE Cleanup(f)
    <3>1. \/ slot'[s] = slot[s]
          \/ slot'[s] = [slot[s] EXCEPT !.fd = None, !.forced = TRUE, !.fresh = TRUE] /\ slot[s].wake
          \/ slot'[s] = [Unused EXCEPT !.st = "free"]
      BY <1>0, <2>3 DEF Cleanup
    <3>2. ASSUME slot'[s] = [slot[s] EXCEPT !.fd = None, !.forced = TRUE, !.fresh = TRUE]
          PROVE  slot'[s].wake = slot[s].wake /\ slot'[s].fresh = TRUE
      BY <1>0, <3>2 DEF SlotRecs
    <3>3. QED
      BY <1>01, <1>02, <3>1, <3>2, UnusedRec
  <2>4. QED
    BY <1>01, <1>2, <2>1, <2>2, <2>3 DEF FdStep
<1>3. ASSUME NEW t \in Tasks, WaitStep(t) PROVE OK
  <2>1. CASE ScanReports(t)
    <3>1. slot'[s] = Reported(slot[s]) \/ slot'[s] = slot[s]
      BY <2>1 DEF ScanReports
    <3>2. QED
      BY <1>0, <1>00, <1>01, <3>1, ReportedRec, ZenonT(60)
  <2>2. CASE Back(t)
    <3>1. slot'[s] = [slot[s] EXCEPT !.trig = FALSE] \/ slot'[s] = slot[s]
      BY <2>2 DEF Back
    <3>2. QED
      BY <1>01, <1>03, <3>1
  <2>3. QED
    BY <1>01, <1>3, <2>1, <2>2
    DEF WaitStep, ScanNothing, CheckLeaves, CheckSleeps, HostReturn, HostGiveUp, Relock, Quit
<1>4. ASSUME DestroyStep PROVE OK
  <2>1. slot'[s] = slot[s] \/ slot'[s] = Unused
    BY <1>0, <1>4 DEF DestroyStep, DestroyBegin, DestroyLock, DestroyYield, DestroyEnd, DestroyRemove
  <2>2. QED
    BY <1>01, <1>02, <2>1, UnusedRec
<1>5. ASSUME NEW t \in Tasks,
             SignalWake(t) \/ SignalTaken(t) \/ SignalQueue(t) \/ \E b \in BOOLEAN : WaitEnter(t, b)
      PROVE  OK
  BY <1>01, <1>5 DEF SignalWake, SignalTaken, SignalQueue, WaitEnter
<1>6. QED
  BY <1>1, <1>2, <1>3, <1>4, <1>5 DEF Next, FromOutside

\* An event that comes after the scan is not slept on.
LEMMA EventStep ==
    ASSUME TypeOK, CountInv, RecordInv, EventInv, Next PROVE EventInv'
<1> USE PollAssumption
<1> SUFFICES ASSUME Cardinality(Slots) <= Capacity, NEW s \in Slots, Reportable(s)', slot'[s].fresh,
                    destroy' = "no", NEW w \in Tasks, phase'[w] \in {"check", "host"}
             PROVE  \/ bytes' > 0
                    \/ (s \in HostEvents)'
                    \/ \E t \in Tasks : WillScan(t)'
                    \/ slot'[s].fd # None /\ owes'[slot'[s].fd] = "read"
  BY DEF EventInv, Destroying
<1> DEFINE Noticed == \/ bytes' > 0
                      \/ (s \in HostEvents)'
                      \/ \E t \in Tasks : WillScan(t)'
                      \/ slot'[s].fd # None /\ owes'[slot'[s].fd] = "read"
<1>0. /\ phase \in [Tasks -> Phases] /\ ready \in [Fds -> BOOLEAN]
      /\ owes \in [Fds -> {"none", "read", "write"}] /\ edge \in [Host -> BOOLEAN]
      /\ bytes \in -1..PipeSize /\ slot \in [Slots -> SlotRecs] /\ Host \subseteq Fds
  BY DEF TypeOK, Fds
<1>1. /\ slot[s] \in SlotRecs /\ slot[s].fd \in Fds \cup {None}
      /\ slot[s].forced => slot[s].wake /\ slot[s].fresh
      /\ slot[s].st = "used" /\ slot[s].fd = None => slot[s].wake
  BY <1>0, Fields DEF RecordInv
<1>2. /\ slot'[s].st = "used" /\ slot'[s].enabled
      /\ slot'[s].forced \/ (~slot'[s].wake /\ ready'[slot'[s].fd])
      /\ ~(slot'[s].mode = "edge" /\ slot'[s].trig)
  BY DEF Reportable
<1>3. Notified >= bytes /\ Notified \in Int /\ (bytes # -1 => Notified > 0)
  BY NotifiedRange
<1>4. destroy = "no"
  BY DestroySteps
\* The event was there before, with a notice that is still there.
<1>5. ASSUME slot[s].st = "used", slot[s].enabled, slot[s].fresh,
             slot[s].forced \/ (~slot[s].wake /\ ready[slot[s].fd]),
             ~(slot[s].mode = "edge" /\ slot[s].trig),
             \E t \in Tasks : phase[t] \in {"check", "host"}
      PROVE  bytes > 0 \/ s \in HostEvents \/ (\E t \in Tasks : WillScan(t))
             \/ (slot[s].fd # None /\ owes[slot[s].fd] = "read")
  BY <1>4, <1>5 DEF EventInv, Reportable, Destroying
<1>6. ASSUME slot'[s] = slot[s],
             slot[s].fd \in Fds =>
                 ready'[slot[s].fd] = ready[slot[s].fd] /\ owes'[slot[s].fd] = owes[slot[s].fd],
             slot[s].fd \in Host => edge'[slot[s].fd] = edge[slot[s].fd],
             bytes > 0 => bytes' > 0,
             \A t \in Tasks : WillScan(t) => WillScan(t)',
             \E t \in Tasks : phase[t] \in {"check", "host"}
      PROVE  Noticed
  <2>1. slot[s].forced \/ (~slot[s].wake /\ ready[slot[s].fd])
    BY <1>1, <1>2, <1>6
  <2>2. bytes > 0 \/ s \in HostEvents \/ (\E t \in Tasks : WillScan(t))
        \/ (slot[s].fd # None /\ owes[slot[s].fd] = "read")
    BY <1>2, <1>5, <1>6, <2>1
  <2>3. s \in HostEvents => (s \in HostEvents)'
    BY <1>0, <1>6 DEF HostEvents, Watched, Used
  <2>4. QED
    BY <1>1, <1>6, <2>2, <2>3
<1>7. ASSUME phase' = phase, slot'[s] = slot[s],
             slot[s].fd \in Fds =>
                 ready'[slot[s].fd] = ready[slot[s].fd] /\ owes'[slot[s].fd] = owes[slot[s].fd],
             slot[s].fd \in Host => edge'[slot[s].fd] = edge[slot[s].fd],
             bytes' \in {bytes, Notified}
      PROVE  Noticed
  <2>1. \A t \in Tasks : WillScan(t) => WillScan(t)'
    BY <1>7 DEF WillScan
  <2>2. bytes > 0 => bytes' > 0
    BY <1>0, <1>3, <1>7
  <2>3. QED
    BY <1>6, <1>7, <2>1, <2>2
\* Somebody is inside, so a notification is a byte in the pipe.
<1>8. ASSUME phase' = phase, bytes' = Notified PROVE Noticed
  <2>1. bytes # -1
    BY <1>8, WhoIsInside DEF CountInv
  <2>2. QED
    BY <1>3, <1>8, <2>1
<1>9. ASSUME NEW t \in Tasks, phase' = [phase EXCEPT ![t] = "scan"] \/ phase' = [phase EXCEPT ![t] = "back"]
                              \/ phase' = [phase EXCEPT ![t] = "relock"]
      PROVE  Noticed
  BY <1>0, <1>9 DEF WillScan
\* Forced readiness does not depend on the descriptor.
<1>10. ASSUME slot[s].st = "used", slot[s].enabled, ~(slot[s].mode = "edge" /\ slot[s].trig), slot[s].forced,
              slot'[s].fd = slot[s].fd, slot[s].fd \in Fds => owes[slot[s].fd] # "read" \/ owes' = owes,
              bytes' = bytes, phase' = phase
       PROVE  Noticed
  <2>1. s \notin HostEvents
    BY <1>1, <1>10 DEF HostEvents, Watched
  <2>2. bytes > 0 \/ (\E t \in Tasks : WillScan(t)) \/ (slot[s].fd # None /\ owes[slot[s].fd] = "read")
    BY <1>1, <1>5, <1>10, <2>1
  <2>3. (\E t \in Tasks : WillScan(t)) => \E t \in Tasks : WillScan(t)'
    BY <1>10 DEF WillScan
  <2>4. QED
    BY <1>1, <1>10, <2>2, <2>3
<1> HIDE DEF Noticed
<1>11. ASSUME NEW f \in Fds, FdCall(f) PROVE Noticed
  <2>1. ASSUME NEW q \in Slots, NEW mode \in Modes, NEW wake \in BOOLEAN, Add(f, q, mode, wake)
        PROVE  Noticed
    BY <1>8, <2>1 DEF Add
  <2>2. ASSUME NEW q \in Slots, AddFails(f, q) PROVE Noticed
    <3>1. /\ slot' = [slot EXCEPT ![q] = [Unused EXCEPT !.st = "free"]]
          /\ UNCHANGED <<phase, bytes, edge, ready, owes>>
      BY <2>2 DEF AddFails
    <3>2. slot'[s] = slot[s]
      BY <1>0, <1>2, <3>1, UnusedRec
    <3>3. QED
      BY <1>7, <3>1, <3>2
  <2>3. ASSUME NEW mode \in Modes, Mod(f, mode) PROVE Noticed
    BY <1>8, <2>3 DEF Mod
  <2>4. CASE Del(f)
    <3>1. /\ \E q \in Slots : slot' = [slot EXCEPT ![q] = [Unused EXCEPT !.st = "free"]]
          /\ UNCHANGED <<phase, bytes, edge, ready, owes>>
      BY <2>4 DEF Del, Of, Used
    <3>2. slot'[s] = slot[s]
      BY <1>0, <1>2, <3>1, UnusedRec
    <3>3. QED
      BY <1>7, <3>1, <3>2
  <2>5. CASE Rearm(f)
    BY <1>8, <2>5 DEF Rearm
  <2>6. ASSUME NEW r \in BOOLEAN, Change(f, r) PROVE Noticed
    <3>1. /\ UNCHANGED <<phase, bytes, edge, slot>> /\ f \in Plain /\ owes[f] = "none"
          /\ ready' = [ready EXCEPT ![f] = r] /\ owes' = [owes EXCEPT ![f] = IF r THEN "read" ELSE "write"]
      BY <2>6 DEF Change
    <3>2. CASE slot[s].fd # f
      BY <1>0, <1>7, <3>1, <3>2
    <3>3. CASE slot[s].fd = f /\ r
      BY <1>0, <1>1, <3>1, <3>3 DEF Noticed, Fds
    <3>4. CASE slot[s].fd = f /\ ~r
      <4>1. ~ready'[f]
        BY <1>0, <3>1, <3>4
      <4>2. QED
        BY <1>2, <1>10, <3>1, <3>4, <4>1
    <3>5. QED
      BY <3>2, <3>3, <3>4
  <2>7. ASSUME NEW r \in BOOLEAN, HostChange(f, r) PROVE Noticed
    <3>1. /\ UNCHANGED <<phase, bytes, owes>> /\ f \in Host
          /\ ready' = [ready EXCEPT ![f] = r] /\ edge' = [edge EXCEPT ![f] = r]
          /\ slot'[s] = IF s \in Of(f) /\ r THEN [slot[s] EXCEPT !.fresh = TRUE] ELSE slot[s]
      BY <2>7 DEF HostChange
    <3>2. /\ slot'[s].st = slot[s].st /\ slot'[s].fd = slot[s].fd /\ slot'[s].enabled = slot[s].enabled
          /\ slot'[s].mode = slot[s].mode /\ slot'[s].trig = slot[s].trig /\ slot'[s].wake = slot[s].wake
          /\ slot'[s].forced = slot[s].forced
      BY <1>1, <3>1 DEF SlotRecs
    <3>3. CASE slot[s].fd # f
      <4>1. slot'[s] = slot[s]
        BY <3>1, <3>3 DEF Of
      <4>2. QED
        BY <1>0, <1>7, <3>1, <3>3, <4>1
    <3>4. CASE slot[s].fd = f /\ slot[s].forced
      BY <1>2, <1>10, <3>1, <3>2, <3>4
    <3>5. CASE slot[s].fd = f /\ ~slot[s].forced
      <4>1. ready'[f] /\ ~slot'[s].wake
        BY <1>2, <3>2, <3>5
      <4>2. edge'[f] = TRUE
        BY <1>0, <3>1, <4>1
      <4>3. (s \in HostEvents)'
        BY <1>2, <3>1, <3>2, <3>5, <4>1, <4>2 DEF HostEvents, Watched, Used
      <4>4. QED
        BY <4>3 DEF Noticed
    <3>6. QED
      BY <3>3, <3>4, <3>5
  <2>8. CASE Close(f)
    BY <1>7, <2>8 DEF Close
  <2>9. QED
    BY <1>11, <2>1, <2>2, <2>3, <2>4, <2>5, <2>6, <2>7, <2>8 DEF FdCall
<1>12. ASSUME NEW f \in Fds, FdStep(f) PROVE Noticed
  <2>1. CASE WakeupLock(f) \/ CleanupLock(f)
    BY <1>7, <2>1 DEF WakeupLock, CleanupLock
  <2>2. CASE Wakeup(f)
    <3>1. CASE s \in Of(f) /\ slot[s].enabled
      <4>1. bytes' = Notified /\ phase' = phase
        BY <2>2, <3>1 DEF Wakeup
      <4>2. QED
        BY <1>8, <4>1
    <3>2. CASE ~(s \in Of(f) /\ slot[s].enabled)
      <4>1. /\ slot'[s] = slot[s] /\ bytes' \in {bytes, Notified} /\ UNCHANGED <<phase, ready, edge>>
            /\ owes' = [owes EXCEPT ![f] = "none"]
        BY <2>2, <3>2 DEF Wakeup
      <4>2. slot[s].fd # f
        BY <1>2, <3>2, <4>1 DEF Of, Used
      <4>3. QED
        BY <1>0, <1>7, <4>1, <4>2
    <3>3. QED
      BY <3>1, <3>2
  <2>3. CASE Cleanup(f)
    <3>1. CASE s \in Of(f)
      <4>1. slot[s].wake
        BY <1>2, <2>3, <3>1, UnusedRec DEF Cleanup
      <4>2. bytes' = Notified /\ phase' = phase
        BY <2>3, <3>1, <4>1 DEF Cleanup
      <4>3. QED
        BY <1>8, <4>2
    <3>2. CASE s \notin Of(f)
      <4>1. /\ slot'[s] = slot[s] /\ bytes' \in {bytes, Notified} /\ UNCHANGED <<phase, owes>>
            /\ ready' = [ready EXCEPT ![f] = FALSE] /\ edge' = [g \in Host |-> edge[g] /\ g # f]
        BY <2>3, <3>2 DEF Cleanup
      <4>2. slot[s].fd # f
        BY <1>2, <3>2, <4>1 DEF Of, Used
      <4>3. slot[s].fd \in Host => edge'[slot[s].fd] = edge[slot[s].fd]
        BY <1>0, <4>1, <4>2
      <4>4. QED
        BY <1>0, <1>7, <4>1, <4>2, <4>3
    <3>3. QED
      BY <3>1, <3>2
  <2>4. QED
    BY <1>12, <2>1, <2>2, <2>3 DEF FdStep
<1>13. ASSUME NEW t \in Tasks, SignalWake(t) \/ SignalTaken(t) \/ SignalQueue(t) PROVE Noticed
  BY <1>7, <1>13 DEF SignalWake, SignalTaken, SignalQueue
<1>14. ASSUME DestroyStep PROVE Noticed
  BY <1>4, <1>14 DEF DestroyStep, DestroyBegin, DestroyLock, DestroyEnd, DestroyRemove, DestroyYield
<1>15. ASSUME NEW t \in Tasks, NEW b \in BOOLEAN, WaitEnter(t, b) PROVE Noticed
  BY <1>9, <1>15 DEF WaitEnter, Goto
\* A step of a wait that neither ends a scan nor changes what there is to report.
<1>16. ASSUME NEW t \in Tasks, NEW p, phase' = [phase EXCEPT ![t] = p], ~WillScan(t), t # w \/ phase[t] = "check",
              UNCHANGED <<slot, edge, ready, owes>>, bytes > 0 => bytes' > 0
       PROVE  Noticed
  <2>1. \E u \in Tasks : phase[u] \in {"check", "host"}
    BY <1>0, <1>16
  <2>2. \A u \in Tasks : WillScan(u) => WillScan(u)'
    BY <1>0, <1>16 DEF WillScan
  <2>3. QED
    BY <1>6, <1>16, <2>1, <2>2
\* Leaving, while w stays.
<1>17. ASSUME NEW t \in Tasks, phase[t] # "out", Leave(t) PROVE t # w /\ bytes' = bytes
  <2>1. t # w /\ phase[w] # "out"
    BY <1>0, <1>17 DEF Leave, Goto
  <2>2. waiters # 1
    BY <1>17, <2>1, WhoIsInside
  <2>3. QED
    BY <1>17, <2>1, <2>2 DEF Leave
<1>18. ASSUME NEW t \in Tasks, WaitStep(t) PROVE Noticed
  <2>1. CASE ScanReports(t)
    <3>1. PICK D \in SUBSET Able :
             /\ Cardinality(D) = IF Cardinality(Able) < Capacity THEN Cardinality(Able) ELSE Capacity
             /\ slot' = [q \in Slots |-> IF q \in D THEN Reported(slot[q]) ELSE slot[q]]
      BY <2>1 DEF ScanReports
    <3>2. IsFiniteSet(Able) /\ Cardinality(Able) <= Cardinality(Slots) /\ Cardinality(Able) \in Nat
          /\ Cardinality(Slots) \in Nat
      BY FS_Subset, FS_CardinalityType DEF Able
    <3>3. Cardinality(D) = Cardinality(Able)
      BY <3>1, <3>2
    <3>4. D = Able
      BY <3>2, <3>3, FS_Subset
    <3>5. CASE s \in Able
      BY <1>1, <3>1, <3>4, <3>5, ReportedRec
    <3>6. CASE s \notin Able
      <4>1. slot'[s] = slot[s] /\ ready' = ready
        BY <2>1, <3>1, <3>4, <3>6 DEF ScanReports
      <4>2. QED
        BY <1>2, <3>6, <4>1 DEF Able, Reportable
    <3>7. QED
      BY <3>5, <3>6
  <2>2. CASE ScanNothing(t)
    BY <1>2, <2>2 DEF ScanNothing, Able, Reportable
  <2>3. CASE CheckLeaves(t) \/ Quit(t)
    <3>1. /\ Leave(t) /\ phase[t] \in {"check", "quit"} /\ UNCHANGED <<slot, edge, ready, owes>>
      BY <2>3 DEF CheckLeaves, Quit
    <3>2. t # w /\ bytes' = bytes
      BY <1>17, <3>1
    <3>3. phase' = [phase EXCEPT ![t] = "out"]
      BY <3>1 DEF Leave, Goto
    <3>4. QED
      BY <1>16, <3>1, <3>2, <3>3 DEF WillScan
  <2>4. CASE CheckSleeps(t)
    <3>1. /\ phase[t] = "check" /\ phase' = [phase EXCEPT ![t] = "host"]
          /\ UNCHANGED <<slot, edge, ready, owes, bytes>>
      BY <2>4 DEF CheckSleeps, Goto
    <3>2. QED
      BY <1>16, <3>1 DEF WillScan
  <2>5. CASE HostReturn(t) \/ Relock(t)
    BY <1>9, <2>5 DEF HostReturn, Relock, Goto
  <2>6. CASE HostGiveUp(t)
    <3>1. /\ phase[t] = "host" /\ phase' = [phase EXCEPT ![t] = "idle"]
          /\ UNCHANGED <<slot, edge, ready, owes, bytes>>
      BY <2>6 DEF HostGiveUp, Goto
    <3>2. t # w
      BY <1>0, <3>1
    <3>3. QED
      BY <1>16, <3>1, <3>2 DEF WillScan
  <2>7. CASE Back(t)
    <3>1. CASE Goto(t, "relock")
      BY <1>9, <3>1 DEF Goto
    <3>2. CASE ~Goto(t, "relock")
      <4>1. /\ phase[t] = "idle" /\ phase' = [phase EXCEPT ![t] = "quit"]
            /\ slot' = [q \in Slots |-> slot[q]] /\ UNCHANGED <<edge, ready, owes, bytes>>
        BY <1>4, <2>7, <3>2 DEF Back, Goto, Destroying
      <4>2. slot' = slot
        BY <1>0, <4>1
      <4>3. t # w
        BY <1>0, <4>1
      <4>4. QED
        BY <1>16, <4>1, <4>2, <4>3 DEF WillScan
    <3>3. QED
      BY <3>1, <3>2
  <2>8. QED
    BY <1>18, <2>1, <2>2, <2>3, <2>4, <2>5, <2>6, <2>7 DEF WaitStep
<1>19. Noticed
  BY <1>11, <1>12, <1>13, <1>14, <1>15, <1>18 DEF Next, FromOutside
<1>20. QED
  BY <1>19 DEF Noticed

----------------------------------------------------------------------------
(* Theorems *)

\* Every descriptor has a record of its own in a table that is full from the start.
LEMMA Assignment ==
    \E b \in [Slots -> Fds] : \A r, s \in Slots : r # s => b[r] # b[s]
<1>1. ExistsBijection(Slots, Fds)
  BY PollAssumption, FS_SameCardinalityBij
<1>2. PICK b : b \in Bijection(Slots, Fds)
  BY <1>1 DEF ExistsBijection
<1>3. QED
  BY <1>2 DEF Bijection, Injection, IsInjective

\* The records of a new object.
LEMMA InitRecords ==
    ASSUME InitSlots
    PROVE  /\ slot \in [Slots -> SlotRecs]
           /\ \A s \in Slots : slot[s].forced = FALSE /\ (slot[s].st = "used" => slot[s].fd \in Fds)
<1> DEFINE at == CHOOSE b \in [Slots -> Fds] : \A r, s \in Slots : r # s => b[r] # b[s]
<1>1. at \in [Slots -> Fds]
  BY Assignment
<1> HIDE DEF at
<1>2. CASE slot = [s \in Slots |-> Unused]
  BY <1>2, UnusedRec
<1>3. CASE \E mode \in Modes, W \in {{}, Plain} :
              slot = [s \in Slots |-> Registered(at[s], mode, at[s] \in W)]
  <2>1. PICK mode \in Modes, W \in {{}, Plain} :
              slot = [s \in Slots |-> Registered(at[s], mode, at[s] \in W)]
    BY <1>3
  <2>2. ASSUME NEW s \in Slots
        PROVE  /\ Registered(at[s], mode, at[s] \in W) \in SlotRecs
               /\ Registered(at[s], mode, at[s] \in W).forced = FALSE
               /\ Registered(at[s], mode, at[s] \in W).fd \in Fds
    <3>1. at[s] \in Fds /\ (at[s] \in W) \in BOOLEAN
      BY <1>1
    <3>2. Registered(at[s], mode, at[s] \in W) \in SlotRecs
          /\ Registered(at[s], mode, at[s] \in W).fd = at[s]
      BY <3>1, RegisteredRec
    <3>3. Registered(at[s], mode, at[s] \in W).forced = FALSE
      BY DEF Registered, Unused
    <3>4. QED
      BY <3>1, <3>2, <3>3
  <2>3. QED
    BY <2>1, <2>2
<1>4. QED
  BY <1>2, <1>3 DEF InitSlots, at

\* The initial states satisfy the inductive invariant.
LEMMA InitInv == Init => PollInv
<1> USE PollAssumption
<1> SUFFICES ASSUME Init PROVE PollInv
  OBVIOUS
<1>1. TypeOK
  <2>1. slot \in [Slots -> SlotRecs]
    BY InitRecords DEF Init
  <2>2. bytes \in -1..PipeSize
    BY DEF Init
  <2>3. QED
    BY <2>1, <2>2 DEF Init, TypeOK, Phases
<1>2. Inside = {} /\ CountInv
  BY FS_EmptySet DEF Init, Inside, CountInv
<1>3. DestroyInv /\ GotInv /\ AloneInv /\ SignalNoticed
  BY DEF Init, DestroyInv, GotInv, AloneInv, SignalNoticed, Asleep
<1>4. FdInv /\ RecordInv
  BY InitRecords DEF Init, FdInv, RecordInv, Used, Fds
<1>5. EventInv
  BY DEF Init, EventInv
<1>6. QED
  BY <1>1, <1>2, <1>3, <1>4, <1>5 DEF PollInv

\* Every step keeps the inductive invariant.
LEMMA NextInv == PollInv /\ [Next]_vars => PollInv'
<1> SUFFICES ASSUME PollInv, [Next]_vars PROVE PollInv'
  OBVIOUS
<1>1. CASE Next
  <2>1. TypeOK' /\ CountInv'
    BY <1>1, TypeStep, CountStep DEF PollInv
  <2>2. DestroyInv' /\ GotInv' /\ FdInv'
    BY <1>1, DestroyInvStep, GotStep, FdStepInv DEF PollInv
  <2>3. AloneInv' /\ SignalNoticed'
    BY <1>1, AloneStep, SignalStep DEF PollInv
  <2>4. RecordInv' /\ EventInv'
    BY <1>1, RecordStep, EventStep DEF PollInv
  <2>5. QED
    BY <2>1, <2>2, <2>3, <2>4 DEF PollInv
<1>2. CASE UNCHANGED vars
  BY <1>2 DEF PollInv, TypeOK, CountInv, Inside, DestroyInv, GotInv, FdInv, AloneInv, SignalNoticed,
              RecordInv, EventInv, vars, Used, Asleep, Reportable, Destroying, WillScan, HostEvents, Watched
<1>3. QED
  BY <1>1, <1>2

\* The inductive invariant holds throughout.
THEOREM PollInvariant == Spec => []PollInv
  BY InitInv, NextInv, PTL DEF Spec

\* The variables keep their types.
THEOREM TypeCorrect == Spec => []TypeOK
<1>1. PollInv => TypeOK
  BY DEF PollInv
<1>2. QED
  BY <1>1, PollInvariant, PTL

\* poll_wait_deadline evaluates the pointers of the host back end in a section of
\* its own, after records may have been deleted or their descriptors closed: they
\* still point to records, records to descriptors, and poll_destroy waits for
\* everyone inside.
THEOREM MemorySafeHolds == Spec => []MemorySafe
<1>1. PollInv => MemorySafe
  <2> SUFFICES ASSUME PollInv PROVE MemorySafe
    OBVIOUS
  <2>1. destroy = "done" => \A t \in Tasks : phase[t] = "out"
    BY WhoIsInside DEF PollInv, DestroyInv
  <2>2. QED
    BY <2>1 DEF PollInv, MemorySafe, GotInv, FdInv, DestroyInv
<1>2. QED
  BY <1>1, PollInvariant, PTL

\* A wait with a signal mask publishes its pipe before it looks at the pending set,
\* so that a later sender writes to the pipe it sleeps on.
THEOREM SignalNoticedHolds == Spec => []SignalNoticed
<1>1. PollInv => SignalNoticed
  BY DEF PollInv
<1>2. QED
  BY <1>1, PollInvariant, PTL

\* Waiters share the pipe and the host back end and scan one after another: an event
\* that comes after a waiter's scan, or that one waiter took from the back end and
\* has not reported, does not leave every waiter asleep.
THEOREM NoEventLostHolds == Spec => []NoEventLost
<1>1. PollInv => NoEventLost
  BY DEF PollInv, EventInv, NoEventLost, Used, Asleep
<1>2. QED
  BY <1>1, PollInvariant, PTL

----------------------------------------------------------------------------
(* The destruction can go on *)

\* Who holds poll->lock over several steps has a next step that needs no lock.
LockInv ==
    /\ pollLock \in Tasks => phase[pollLock] \in {"scan", "check"}
    /\ pollLock = Destroyer => destroy = "sweep"

\* A waiter that the destruction waits for finds a byte in the pipe: nobody reads
\* the pipe any more.
PipeInv == Destroying /\ waiters # 0 => bytes > 0

\* A close that fell to a task is under way.
CloserInv == \A f \in Fds : closer[f] # None => fdState[f] = "closing"

GoOnInv == LockInv /\ PipeInv /\ CloserInv

\* The holder of poll->lock gives it up before a step that needs a lock.
LEMMA LockStep == ASSUME TypeOK, LockInv, Next PROVE LockInv'
<1> USE PollAssumption
<1>0. phase \in [Tasks -> Phases] /\ pollLock \in Tasks \cup {Destroyer, None}
  BY DEF TypeOK
<1>1. ASSUME UNCHANGED <<pollLock, phase, destroy>> PROVE LockInv'
  BY <1>1 DEF LockInv
<1>2. ASSUME NEW f \in Fds, FdCall(f) \/ FdStep(f) PROVE LockInv'
  <2>1. UNCHANGED <<pollLock, phase, destroy>>
    BY <1>2 DEF FdCall, Add, AddFails, Mod, Del, Rearm, Change, HostChange, Close,
                FdStep, WakeupLock, Wakeup, CleanupLock, Cleanup, pollVars, callVars
  <2>2. QED
    BY <1>1, <2>1
<1>3. ASSUME NEW t \in Tasks, SignalQueue(t) \/ SignalWake(t) \/ SignalTaken(t) PROVE LockInv'
  <2>1. UNCHANGED <<pollLock, phase, destroy>>
    BY <1>3 DEF SignalQueue, SignalWake, SignalTaken, pollVars, callVars
  <2>2. QED
    BY <1>1, <2>1
<1>4. ASSUME NEW t \in Tasks, NEW s \in BOOLEAN, WaitEnter(t, s) PROVE LockInv'
  <2>1. pollLock' = t /\ phase' = [phase EXCEPT ![t] = "scan"]
    BY <1>4 DEF WaitEnter, Goto
  <2>2. QED
    BY <1>0, <2>1 DEF LockInv
<1>5. ASSUME NEW t \in Tasks, WaitStep(t) PROVE LockInv'
  <2>1. CASE ScanReports(t) \/ CheckLeaves(t) \/ Quit(t) \/ CheckSleeps(t)
    <3>1. pollLock' = None
      BY <2>1 DEF ScanReports, CheckLeaves, Quit, CheckSleeps, Leave
    <3>2. QED
      BY <3>1 DEF LockInv
  <2>2. CASE ScanNothing(t) \/ Relock(t)
    <3>1. \E p \in {"scan", "check"} : phase' = [phase EXCEPT ![t] = p]
      BY <2>2 DEF ScanNothing, Relock, Goto
    <3>2. pollLock' \in {pollLock, t} /\ destroy' = destroy
      BY <2>2 DEF ScanNothing, Relock, pollVars
    <3>3. QED
      BY <1>0, <3>1, <3>2 DEF LockInv
  <2>3. CASE HostReturn(t) \/ HostGiveUp(t) \/ Back(t)
    <3>1. phase[t] \notin {"scan", "check"} /\ pollLock' = pollLock /\ destroy' = destroy
      BY <2>3 DEF HostReturn, HostGiveUp, Back, pollVars
    <3>2. \A u \in Tasks : u # t => phase'[u] = phase[u]
      <4>1. \E p \in Phases : phase' = [phase EXCEPT ![t] = p]
        BY <2>3 DEF HostReturn, HostGiveUp, Back, Goto, Phases
      <4>2. QED
        BY <1>0, <4>1
    <3>3. QED
      BY <1>0, <3>1, <3>2 DEF LockInv
  <2>4. QED
    BY <1>5, <2>1, <2>2, <2>3 DEF WaitStep
<1>6. ASSUME DestroyStep PROVE LockInv'
  <2>1. CASE DestroyBegin
    <3>1. pollLock' = None
      BY <2>1 DEF DestroyBegin
    <3>2. QED
      BY <3>1 DEF LockInv
  <2>2. CASE DestroyLock
    <3>1. pollLock' = Destroyer /\ destroy' = "sweep"
      BY <2>2 DEF DestroyLock
    <3>2. QED
      BY <3>1 DEF LockInv
  <2>3. CASE DestroyEnd \/ \E s \in Slots : DestroyYield(s)
    <3>1. pollLock' = None
      BY <2>3 DEF DestroyEnd, DestroyYield
    <3>2. QED
      BY <3>1 DEF LockInv
  <2>4. CASE \E s \in Slots : DestroyRemove(s)
    <3>1. UNCHANGED <<pollLock, phase, destroy>>
      BY <2>4 DEF DestroyRemove, pollVars, callVars
    <3>2. QED
      BY <1>1, <3>1
  <2>5. QED
    BY <1>6, <2>1, <2>2, <2>3, <2>4 DEF DestroyStep
<1>7. QED
  BY <1>2, <1>3, <1>4, <1>5, <1>6 DEF Next, FromOutside

\* Once the destruction has begun, the byte it wrote stays until the last waiter
\* closes the pipe.
LEMMA PipeStep == ASSUME TypeOK, CountInv, PipeInv, Next PROVE PipeInv'
<1>0. waiters \in Nat /\ bytes \in -1..PipeSize /\ PipeSize \in Nat
  BY PollAssumption DEF TypeOK
<1>1. bytes # -1 => Notified > 0
  BY NotifiedRange
<1>2. waiters # 0 => bytes # -1
  BY DEF CountInv
<1>3. ASSUME waiters' = waiters, destroy' = destroy, bytes' \in {bytes, Notified} PROVE PipeInv'
  BY <1>0, <1>1, <1>2, <1>3 DEF PipeInv, Destroying
<1>4. ASSUME NEW f \in Fds, FdCall(f) \/ FdStep(f) PROVE PipeInv'
  <2>1. waiters' = waiters /\ destroy' = destroy /\ bytes' \in {bytes, Notified}
    BY <1>4 DEF FdCall, Add, AddFails, Mod, Del, Rearm, Change, HostChange, Close,
                FdStep, WakeupLock, Wakeup, CleanupLock, Cleanup, pollVars
  <2>2. QED
    BY <1>3, <2>1
<1>5. ASSUME NEW t \in Tasks, SignalQueue(t) \/ SignalWake(t) \/ SignalTaken(t) PROVE PipeInv'
  <2>1. waiters' = waiters /\ destroy' = destroy /\ bytes' \in {bytes, Notified}
    BY <1>5 DEF SignalQueue, SignalWake, SignalTaken, pollVars
  <2>2. QED
    BY <1>3, <2>1
<1>6. ASSUME NEW t \in Tasks, NEW s \in BOOLEAN, WaitEnter(t, s) PROVE PipeInv'
  BY <1>6 DEF WaitEnter, PipeInv, Destroying
<1>7. ASSUME NEW t \in Tasks, WaitStep(t) PROVE PipeInv'
  <2>1. CASE ScanReports(t) \/ CheckLeaves(t) \/ Quit(t)
    <3>1. /\ waiters' = waiters - 1 /\ bytes' = (IF waiters = 1 THEN -1 ELSE bytes)
          /\ destroy' = destroy
      BY <2>1 DEF ScanReports, CheckLeaves, Quit, Leave
    <3>2. phase[t] # "out"
      BY <2>1 DEF ScanReports, CheckLeaves, Quit
    <3>3. waiters # 0
      BY <3>2, WhoIsInside
    <3>4. QED
      BY <1>0, <3>1, <3>3 DEF PipeInv, Destroying
  <2>2. CASE ScanNothing(t) \/ CheckSleeps(t) \/ HostReturn(t) \/ HostGiveUp(t) \/ Relock(t)
    <3>1. waiters' = waiters /\ destroy' = destroy /\ bytes' = bytes
      BY <2>2 DEF ScanNothing, CheckSleeps, HostReturn, HostGiveUp, Relock, pollVars
    <3>2. QED
      BY <1>3, <3>1
  <2>3. CASE Back(t)
    <3>1. waiters' = waiters /\ destroy' = destroy /\ (Destroying => bytes' = bytes)
      BY <2>3 DEF Back
    <3>2. QED
      BY <3>1 DEF PipeInv, Destroying
  <2>4. QED
    BY <1>7, <2>1, <2>2, <2>3 DEF WaitStep
<1>8. ASSUME DestroyStep PROVE PipeInv'
  <2>1. CASE DestroyBegin
    <3>1. bytes' = Notified /\ waiters' = waiters
      BY <2>1 DEF DestroyBegin
    <3>2. QED
      BY <1>1, <1>2, <3>1 DEF PipeInv
  <2>2. CASE DestroyLock \/ DestroyEnd \/ \E s \in Slots : DestroyRemove(s) \/ DestroyYield(s)
    <3>1. Destroying /\ waiters' = waiters /\ bytes' = bytes
      BY <2>2 DEF DestroyLock, DestroyEnd, DestroyRemove, DestroyYield, Destroying, pollVars
    <3>2. QED
      BY <3>1 DEF PipeInv
  <2>3. QED
    BY <1>8, <2>1, <2>2 DEF DestroyStep
<1>9. QED
  BY <1>4, <1>5, <1>6, <1>7, <1>8 DEF Next, FromOutside

\* A close falls to somebody only together with the last reference.
LEMMA CloserStep == ASSUME TypeOK, CloserInv, Next PROVE CloserInv'
<1>0. /\ fdState \in [Fds -> {"open", "closing", "gone"}] /\ closer \in [Fds -> Tasks \cup {None}]
  BY DEF TypeOK
<1>1. ASSUME UNCHANGED <<fdState, closer>> PROVE CloserInv'
  BY <1>1 DEF CloserInv
<1>2. ASSUME NEW who, NEW open, NEW holds, Dropped(who, open, holds) PROVE CloserInv'
  <2>1. \A f \in Fds : \/ fdState'[f] = "closing"
                       \/ fdState'[f] = fdState[f] /\ closer'[f] = closer[f]
    BY <1>2 DEF Dropped
  <2>2. QED
    BY <2>1 DEF CloserInv
<1>3. ASSUME NEW f \in Fds, FdCall(f) PROVE CloserInv'
  <2>1. CASE Close(f)
    BY <1>2, <2>1 DEF Close
  <2>2. CASE ~Close(f)
    <3>1. UNCHANGED <<fdState, closer>>
      BY <1>3, <2>2 DEF FdCall, Add, AddFails, Mod, Del, Rearm, Change, HostChange, fdVars
    <3>2. QED
      BY <1>1, <3>1
  <2>3. QED
    BY <2>1, <2>2
<1>4. ASSUME NEW f \in Fds, FdStep(f) PROVE CloserInv'
  <2>1. CASE Cleanup(f)
    <3>1. fdState' = [fdState EXCEPT ![f] = "gone"] /\ closer' = [closer EXCEPT ![f] = None]
      BY <2>1 DEF Cleanup
    <3>2. QED
      BY <1>0, <3>1 DEF CloserInv
  <2>2. CASE WakeupLock(f) \/ CleanupLock(f) \/ Wakeup(f)
    <3>1. UNCHANGED <<fdState, closer>>
      BY <2>2 DEF WakeupLock, CleanupLock, Wakeup
    <3>2. QED
      BY <1>1, <3>1
  <2>3. QED
    BY <1>4, <2>1, <2>2 DEF FdStep
<1>5. ASSUME NEW t \in Tasks, WaitStep(t) PROVE CloserInv'
  <2>1. CASE Back(t)
    BY <1>2, <2>1 DEF Back
  <2>2. CASE ~Back(t)
    <3>1. UNCHANGED <<fdState, closer>>
      BY <1>5, <2>2 DEF WaitStep, ScanReports, ScanNothing, CheckLeaves, CheckSleeps, HostReturn,
                        HostGiveUp, Relock, Quit, fdVars
    <3>2. QED
      BY <1>1, <3>1
  <2>3. QED
    BY <2>1, <2>2
<1>6. ASSUME NEW t \in Tasks,
             SignalWake(t) \/ SignalTaken(t) \/ SignalQueue(t) \/ \E b \in BOOLEAN : WaitEnter(t, b)
      PROVE  CloserInv'
  <2>1. UNCHANGED <<fdState, closer>>
    BY <1>6 DEF SignalWake, SignalTaken, SignalQueue, WaitEnter, fdVars
  <2>2. QED
    BY <1>1, <2>1
<1>7. ASSUME DestroyStep PROVE CloserInv'
  <2>1. UNCHANGED <<fdState, closer>>
    BY <1>7 DEF DestroyStep, DestroyBegin, DestroyLock, DestroyEnd, DestroyRemove, DestroyYield, fdVars
  <2>2. QED
    BY <1>1, <2>1
<1>8. QED
  BY <1>3, <1>4, <1>5, <1>6, <1>7 DEF Next, FromOutside

\* What the destruction relies on holds throughout.
THEOREM GoOnInvariant == Spec => []GoOnInv
<1>1. Init => GoOnInv
  BY PollAssumption DEF Init, GoOnInv, LockInv, PipeInv, CloserInv, Destroying
<1>2. PollInv /\ GoOnInv /\ [Next]_vars => GoOnInv'
  <2> SUFFICES ASSUME PollInv, GoOnInv, [Next]_vars PROVE GoOnInv'
    OBVIOUS
  <2>1. CASE Next
    BY <2>1, LockStep, PipeStep, CloserStep DEF PollInv, GoOnInv
  <2>2. CASE UNCHANGED vars
    BY <2>2 DEF GoOnInv, LockInv, PipeInv, CloserInv, Destroying, vars, pollVars, fdVars, callVars
  <2>3. QED
    BY <2>1, <2>2
<1>3. QED
  BY <1>1, <1>2, PollInvariant, PTL DEF Spec

\* poll_destroy holds poll->lock when it tries the lock of a descriptor, whose
\* holder may wait for poll->lock, and it waits for waiters, which may sleep in the
\* host or have closes to do: the circle is never complete.
THEOREM DestroyNeverStuckHolds == Spec => []DestroyNeverStuck
<1>1. PollInv /\ GoOnInv => DestroyNeverStuck
  <2> SUFFICES ASSUME PollInv, GoOnInv, destroy \notin {"no", "done"}
               PROVE  \/ DestroyerCanGoOn
                      \/ \E t \in Tasks : WaiterCanGoOn(t)
                      \/ \E f \in Fds : FdCanGoOn(f)
    BY DEF DestroyNeverStuck
  <2>1. /\ destroy \in {"drain", "sweep", "yield"} /\ pollLock \in Tasks \cup {Destroyer, None}
        /\ \A t \in Tasks : phase[t] \in Phases
        /\ \A f \in Fds : fdLock[f] \in {None, "waker", "closer"} /\ closer[f] \in Tasks \cup {None}
    BY DEF PollInv, TypeOK
  <2>2. CASE destroy = "sweep"
    BY <2>2 DEF DestroyerCanGoOn, GivesWay
  <2>3. CASE pollLock \in Tasks
    BY <2>3 DEF GoOnInv, LockInv, WaiterCanGoOn
  <2>4. CASE destroy # "sweep" /\ pollLock \notin Tasks
    <3>1. pollLock = None
      BY <2>1, <2>4 DEF GoOnInv, LockInv
    <3>2. Unlocked
      BY <2>1, <3>1 DEF Unlocked
    <3>3. CASE waiters = 0
      BY <2>1, <2>4, <3>1, <3>3 DEF DestroyerCanGoOn
    <3>4. CASE waiters # 0
      <4>1. PICK t \in Tasks : phase[t] # "out"
        BY <3>4, WhoIsInside DEF PollInv
      <4>2. bytes > 0
        BY <2>1, <3>4 DEF GoOnInv, PipeInv, Destroying
      <4>3. CASE Closed(t) \/ phase[t] \notin {"relock", "quit"}
        BY <2>1, <3>2, <4>1, <4>2, <4>3 DEF WaiterCanGoOn, Phases
      <4>4. CASE ~Closed(t)
        <5>1. PICK f \in Fds : closer[f] = t
          BY <4>4 DEF Closed
        <5>2. fdState[f] = "closing"
          BY <5>1, PollAssumption DEF GoOnInv, CloserInv
        <5>3. FdCanGoOn(f)
          BY <3>2, <5>2 DEF FdCanGoOn
        <5>4. QED
          BY <5>3
      <4>5. QED
        BY <4>3, <4>4
    <3>5. QED
      BY <3>3, <3>4
  <2>5. QED
    BY <2>2, <2>3, <2>4
<1>2. QED
  BY <1>1, PollInvariant, GoOnInvariant, PTL
=============================================================================
