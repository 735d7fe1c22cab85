------------------------- MODULE ThreadGroup_proofs -------------------------
(***************************************************************************)
(* Proofs about ThreadGroup, for every number of tasks and pids and every  *)
(* set of exit codes: typing, the pid table, the reach of group actions,   *)
(* exec and the status that the parent sees.                               *)
(***************************************************************************)
EXTENDS ThreadGroup, TLAPS

Statuses == Codes \cup {SIGKILL}

TypeOK ==
    /\ phase \in [Tasks -> Phases]
    /\ child \in [Tasks -> Tasks \cup {None}]
    /\ pid \in [Tasks -> Pids \cup {None}]
    /\ pidTask \in [Pids -> Tasks \cup {None}]
    /\ reserved \subseteq Pids
    /\ status \in [Tasks -> Statuses \cup {None, 0}]
    /\ kill \subseteq Tasks
    /\ threads \subseteq Tasks
    /\ leader \in Tasks
    /\ exec \in Tasks \cup {None}
    /\ exiting \in BOOLEAN /\ stopped \in BOOLEAN /\ sharedKill \in BOOLEAN
    /\ reaped \in BOOLEAN /\ tgkilled \in BOOLEAN
    /\ code \in Statuses \cup {None}
    /\ fatal \in {None, SIGKILL}
    /\ timers \in Nat

Outside == {"free", "new", "exited"}
Building == {"cloning", "releasing", "suspended"}

\* The thread list holds the tasks that are published and have not left; only a
\* leader stays in the table after it left, and it does until it is reaped.
ListInv ==
    /\ \A t \in Tasks : t \in threads <=> phase[t] \notin Outside
    /\ \A t \in Tasks : phase[t] = "exited" => t = leader
    /\ reaped => threads = {}
    /\ ~reaped => phase[leader] \notin {"free", "new"}

\* A clone and the task it creates.
CloneInv ==
    /\ \A t \in Tasks :
          /\ phase[t] = "cloning" => child[t] \in Tasks /\ phase[child[t]] = "new"
          /\ phase[t] = "releasing" => child[t] \in Tasks /\ phase[child[t]] = "suspended"
          /\ phase[t] \notin {"cloning", "releasing"} => child[t] = None
    /\ \A t, u \in Tasks : child[t] = child[u] /\ child[t] # None => t = u
    /\ \A c \in Tasks : phase[c] = "new" => \E t \in Tasks : phase[t] = "cloning" /\ child[t] = c

\* Who has a pid, and how the table names it.
PidInv ==
    /\ \A t \in Tasks :
          /\ phase[t] = "free" => pid[t] = None
          /\ phase[t] = "new" => pid[t] \in reserved
          /\ phase[t] \notin {"free", "new"} => pid[t] \in Pids /\ pidTask[pid[t]] = t
    /\ \A t, u \in Tasks : phase[t] = "new" /\ phase[u] = "new" /\ pid[t] = pid[u] => t = u
    /\ \A p \in Pids : /\ p \in reserved => pidTask[p] = None /\ p # MainPid
                       /\ pidTask[p] # None => pid[pidTask[p]] = p
                                               /\ phase[pidTask[p]] \notin {"free", "new"}
    /\ ~reaped => pidTask[MainPid] = leader

\* exec_task is the thread that waits for its peers.
ExecInv == \A t \in Tasks : phase[t] \in {"execwait", "execwoken"} <=> t = exec

\* SIGKILL is pending only for the sake of a group action.
KillInv ==
    /\ kill \subseteq threads
    /\ \A t \in kill : exiting \/ exec \notin {None, t}

\* The reason of a group exit.
CodeInv ==
    /\ fatal # None => exiting /\ code = fatal
    /\ exiting => code \in Statuses

\* A thread on its way out has a status of its own, unless it goes for an exec or
\* the group's code counts.
StatusInv ==
    \A t \in Tasks :
       /\ phase[t] = "dying" => status[t] \in Statuses
       /\ phase[t] \in {"leaving", "timers", "last", "exited"} =>
             status[t] \in Statuses \/ exiting \/ exec # None

\* The parent is told when the last thread left.
ReportInv == reported # None => threads = {}

TableInv == ListInv /\ CloneInv /\ PidInv
GroupInv ==
    ExecInv /\ KillInv /\ CodeInv /\ StatusInv /\ GroupActionReachesAll /\ ExecNotTurnedOnItself
ThreadGroupInv == TypeOK /\ TableInv /\ GroupInv /\ ReportInv

USE DEF historyVars

----------------------------------------------------------------------------

\* One thread, which runs.
LEMMA GroupInit == Init => ThreadGroupInv
<1> SUFFICES ASSUME Init PROVE ThreadGroupInv
  OBVIOUS
<1> USE ThreadGroupAssumption DEF Init
<1>1. TypeOK
  BY DEF TypeOK, Phases, Statuses
<1>2. ListInv /\ CloneInv
  BY DEF ListInv, CloneInv, Outside
<1>3. PidInv
  BY DEF PidInv
<1>4. GroupInv
  BY DEF GroupInv, ExecInv, KillInv, CodeInv, StatusInv, GroupActionReachesAll,
         ExecNotTurnedOnItself
<1>5. ReportInv
  BY DEF ReportInv
<1>6. QED
  BY <1>1, <1>2, <1>3, <1>4, <1>5 DEF ThreadGroupInv, TableInv

\* Where a signal wakes a task to.
LEMMA WokenPhases ==
    ASSUME TypeOK, NEW ts
    PROVE  /\ Woken(ts) \in [Tasks -> Phases]
           /\ \A u \in Tasks : \/ Woken(ts)[u] = phase[u]
                               \/ phase[u] = "asleep" /\ Woken(ts)[u] = "run"
                               \/ phase[u] = "execwait" /\ Woken(ts)[u] = "execwoken"
BY DEF TypeOK, Woken, Phases

----------------------------------------------------------------------------
(* Steps that move listed threads about and leave the table alone. *)

Moves ==
    /\ phase' \in [Tasks -> Phases]
    /\ \A u \in Tasks : \/ phase'[u] = phase[u]
                        \/ {phase[u], phase'[u]} \cap (Outside \cup Building) = {}
    /\ UNCHANGED <<child, pid, pidTask, reserved, threads, leader, reaped>>

\* Such a step keeps the thread list, the clones and the pid table.
LEMMA MovesKeepTable == ASSUME TypeOK, TableInv, Moves PROVE TableInv'
<1> USE DEF Moves, Outside, Building, TypeOK
<1>1. ListInv'
  BY DEF TableInv, ListInv
<1>2. CloneInv'
  BY ZenonT(60) DEF TableInv, CloneInv
<1>3. PidInv'
  <2>1. \A u \in Tasks : /\ phase'[u] = "free" <=> phase[u] = "free"
                         /\ phase'[u] = "new" <=> phase[u] = "new"
    OBVIOUS
  <2> HIDE DEF Moves
  <2>2. UNCHANGED <<pid, pidTask, reserved, leader, reaped>>
    BY DEF Moves
  <2>3. QED
    BY <2>1, <2>2 DEF TableInv, PidInv
<1>4. QED
  BY <1>1, <1>2, <1>3 DEF TableInv

\* A system call goes to sleep.
LEMMA SleepStep ==
    ASSUME ThreadGroupInv, NEW t \in Tasks, Sleep(t) PROVE ThreadGroupInv'
<1> USE ThreadGroupAssumption DEF Sleep, Goto
<1>0. TypeOK /\ TableInv /\ ExecInv /\ KillInv /\ CodeInv /\ StatusInv
      /\ GroupActionReachesAll /\ ExecNotTurnedOnItself /\ t \in threads /\ reported = None
  BY DEF ThreadGroupInv, GroupInv, TableInv, ListInv, Outside, ReportInv
<1>1. TypeOK'
  BY <1>0 DEF TypeOK, Phases, groupVars, parentVars, Statuses
<1>2. Moves
  BY <1>0 DEF Moves, Outside, Building, TypeOK, Phases, groupVars, parentVars
<1>3. TableInv'
  BY <1>0, <1>2, MovesKeepTable
<1>4. ExecInv' /\ KillInv' /\ CodeInv' /\ ExecNotTurnedOnItself'
  BY <1>0 DEF TypeOK, ExecInv, KillInv, CodeInv, ExecNotTurnedOnItself, groupVars
<1>5. StatusInv'
  BY <1>0 DEF TypeOK, StatusInv, Statuses, groupVars, CodeInv, KillInv, ExecInv
<1>6. GroupActionReachesAll'
  BY <1>0 DEF TypeOK, GroupActionReachesAll, ExecInv, groupVars
<1>7. ReportInv'
  BY <1>0 DEF ReportInv, parentVars
<1>8. QED
  BY <1>1, <1>3, <1>4, <1>5, <1>6, <1>7 DEF ThreadGroupInv, GroupInv

\* A sleep ends.
LEMMA AwakeStep ==
    ASSUME ThreadGroupInv, NEW t \in Tasks, Awake(t) PROVE ThreadGroupInv'
<1> USE ThreadGroupAssumption DEF Awake, Goto
<1>0. TypeOK /\ TableInv /\ ExecInv /\ KillInv /\ CodeInv /\ StatusInv
      /\ GroupActionReachesAll /\ ExecNotTurnedOnItself /\ t \in threads /\ reported = None
  BY DEF ThreadGroupInv, GroupInv, TableInv, ListInv, Outside, ReportInv
<1>1. TypeOK'
  BY <1>0 DEF TypeOK, Phases, groupVars, parentVars, Statuses
<1>2. Moves
  BY <1>0 DEF Moves, Outside, Building, TypeOK, Phases, groupVars, parentVars
<1>3. TableInv'
  BY <1>0, <1>2, MovesKeepTable
<1>4. ExecInv' /\ KillInv' /\ CodeInv' /\ ExecNotTurnedOnItself'
  BY <1>0 DEF TypeOK, ExecInv, KillInv, CodeInv, ExecNotTurnedOnItself, groupVars
<1>5. StatusInv'
  BY <1>0 DEF TypeOK, StatusInv, Statuses, groupVars, CodeInv, KillInv, ExecInv
<1>6. GroupActionReachesAll'
  BY <1>0 DEF TypeOK, GroupActionReachesAll, ExecInv, groupVars
<1>7. ReportInv'
  BY <1>0 DEF ReportInv, parentVars
<1>8. QED
  BY <1>1, <1>3, <1>4, <1>5, <1>6, <1>7 DEF ThreadGroupInv, GroupInv

\* A poll finds that the thread must go.
LEMMA PollTerminateStep ==
    ASSUME ThreadGroupInv, NEW t \in Tasks, PollTerminate(t) PROVE ThreadGroupInv'
<1> USE ThreadGroupAssumption DEF PollTerminate, ForcedExit, Goto
<1>0. TypeOK /\ TableInv /\ ExecInv /\ KillInv /\ CodeInv /\ StatusInv
      /\ GroupActionReachesAll /\ ExecNotTurnedOnItself /\ t \in threads /\ reported = None
  BY DEF ThreadGroupInv, GroupInv, TableInv, ListInv, Outside, ReportInv
<1>1. TypeOK'
  BY <1>0 DEF TypeOK, Phases, groupVars, parentVars, Statuses
<1>2. Moves
  BY <1>0 DEF Moves, Outside, Building, TypeOK, Phases, groupVars, parentVars
<1>3. TableInv'
  BY <1>0, <1>2, MovesKeepTable
<1>4. ExecInv' /\ KillInv' /\ CodeInv' /\ ExecNotTurnedOnItself'
  BY <1>0 DEF TypeOK, ExecInv, KillInv, CodeInv, ExecNotTurnedOnItself, groupVars
<1>5. StatusInv'
  BY <1>0 DEF TypeOK, StatusInv, Statuses, groupVars, CodeInv, KillInv, ExecInv
<1>6. GroupActionReachesAll'
  BY <1>0 DEF TypeOK, GroupActionReachesAll, ExecInv, groupVars
<1>7. ReportInv'
  BY <1>0 DEF ReportInv, parentVars
<1>8. QED
  BY <1>1, <1>3, <1>4, <1>5, <1>6, <1>7 DEF ThreadGroupInv, GroupInv

\* A poll stops the thread.
LEMMA PollStopStep ==
    ASSUME ThreadGroupInv, NEW t \in Tasks, PollStop(t) PROVE ThreadGroupInv'
<1> USE ThreadGroupAssumption DEF PollStop, Goto
<1>0. TypeOK /\ TableInv /\ ExecInv /\ KillInv /\ CodeInv /\ StatusInv
      /\ GroupActionReachesAll /\ ExecNotTurnedOnItself /\ t \in threads /\ reported = None
  BY DEF ThreadGroupInv, GroupInv, TableInv, ListInv, Outside, ReportInv
<1>1. TypeOK'
  BY <1>0 DEF TypeOK, Phases, groupVars, parentVars, Statuses
<1>2. Moves
  BY <1>0 DEF Moves, Outside, Building, TypeOK, Phases, groupVars, parentVars
<1>3. TableInv'
  BY <1>0, <1>2, MovesKeepTable
<1>4. ExecInv' /\ KillInv' /\ CodeInv' /\ ExecNotTurnedOnItself'
  BY <1>0 DEF TypeOK, ExecInv, KillInv, CodeInv, ExecNotTurnedOnItself, groupVars
<1>5. StatusInv'
  BY <1>0 DEF TypeOK, StatusInv, Statuses, groupVars, CodeInv, KillInv, ExecInv
<1>6. GroupActionReachesAll'
  BY <1>0 DEF TypeOK, GroupActionReachesAll, ExecInv, groupVars
<1>7. ReportInv'
  BY <1>0 DEF ReportInv, parentVars
<1>8. QED
  BY <1>1, <1>3, <1>4, <1>5, <1>6, <1>7 DEF ThreadGroupInv, GroupInv

\* A stopped thread goes on.
LEMMA LeaveStopStep ==
    ASSUME ThreadGroupInv, NEW t \in Tasks, LeaveStop(t) PROVE ThreadGroupInv'
<1> USE ThreadGroupAssumption DEF LeaveStop, Goto
<1>0. TypeOK /\ TableInv /\ ExecInv /\ KillInv /\ CodeInv /\ StatusInv
      /\ GroupActionReachesAll /\ ExecNotTurnedOnItself /\ t \in threads /\ reported = None
  BY DEF ThreadGroupInv, GroupInv, TableInv, ListInv, Outside, ReportInv
<1>1. TypeOK'
  BY <1>0 DEF TypeOK, Phases, groupVars, parentVars, Statuses
<1>2. Moves
  BY <1>0 DEF Moves, Outside, Building, TypeOK, Phases, groupVars, parentVars
<1>3. TableInv'
  BY <1>0, <1>2, MovesKeepTable
<1>4. ExecInv' /\ KillInv' /\ CodeInv' /\ ExecNotTurnedOnItself'
  BY <1>0 DEF TypeOK, ExecInv, KillInv, CodeInv, ExecNotTurnedOnItself, groupVars
<1>5. StatusInv'
  BY <1>0 DEF TypeOK, StatusInv, Statuses, groupVars, CodeInv, KillInv, ExecInv
<1>6. GroupActionReachesAll'
  BY <1>0 DEF TypeOK, GroupActionReachesAll, ExecInv, groupVars
<1>7. ReportInv'
  BY <1>0 DEF ReportInv, parentVars
<1>8. QED
  BY <1>1, <1>3, <1>4, <1>5, <1>6, <1>7 DEF ThreadGroupInv, GroupInv

\* A thread calls exit_group.
LEMMA CallExitGroupStep ==
    ASSUME ThreadGroupInv, NEW t \in Tasks, NEW c \in Codes, CallExitGroup(t, c) PROVE ThreadGroupInv'
<1> USE ThreadGroupAssumption DEF CallExitGroup, Goto
<1>0. TypeOK /\ TableInv /\ ExecInv /\ KillInv /\ CodeInv /\ StatusInv
      /\ GroupActionReachesAll /\ ExecNotTurnedOnItself /\ t \in threads /\ reported = None
  BY DEF ThreadGroupInv, GroupInv, TableInv, ListInv, Outside, ReportInv
<1>1. TypeOK'
  BY <1>0 DEF TypeOK, Phases, groupVars, parentVars, Statuses
<1>2. Moves
  BY <1>0 DEF Moves, Outside, Building, TypeOK, Phases, groupVars, parentVars
<1>3. TableInv'
  BY <1>0, <1>2, MovesKeepTable
<1>4. ExecInv' /\ KillInv' /\ CodeInv' /\ ExecNotTurnedOnItself'
  BY <1>0 DEF TypeOK, ExecInv, KillInv, CodeInv, ExecNotTurnedOnItself, groupVars
<1>5. StatusInv'
  BY <1>0 DEF TypeOK, StatusInv, Statuses, groupVars, CodeInv, KillInv, ExecInv
<1>6. GroupActionReachesAll'
  BY <1>0 DEF TypeOK, GroupActionReachesAll, ExecInv, groupVars
<1>7. ReportInv'
  BY <1>0 DEF ReportInv, parentVars
<1>8. QED
  BY <1>1, <1>3, <1>4, <1>5, <1>6, <1>7 DEF ThreadGroupInv, GroupInv

\* A thread calls exit.
LEMMA CallExitStep ==
    ASSUME ThreadGroupInv, NEW t \in Tasks, NEW c \in Codes, CallExit(t, c) PROVE ThreadGroupInv'
<1> USE ThreadGroupAssumption DEF CallExit, Goto
<1>0. TypeOK /\ TableInv /\ ExecInv /\ KillInv /\ CodeInv /\ StatusInv
      /\ GroupActionReachesAll /\ ExecNotTurnedOnItself /\ t \in threads /\ reported = None
  BY DEF ThreadGroupInv, GroupInv, TableInv, ListInv, Outside, ReportInv
<1>1. TypeOK'
  BY <1>0 DEF TypeOK, Phases, groupVars, parentVars, Statuses
<1>2. Moves
  BY <1>0 DEF Moves, Outside, Building, TypeOK, Phases, groupVars, parentVars
<1>3. TableInv'
  BY <1>0, <1>2, MovesKeepTable
<1>4. ExecInv' /\ KillInv' /\ CodeInv' /\ ExecNotTurnedOnItself'
  BY <1>0 DEF TypeOK, ExecInv, KillInv, CodeInv, ExecNotTurnedOnItself, groupVars
<1>5. StatusInv'
  BY <1>0 DEF TypeOK, StatusInv, Statuses, groupVars, CodeInv, KillInv, ExecInv
<1>6. GroupActionReachesAll'
  BY <1>0 DEF TypeOK, GroupActionReachesAll, ExecInv, groupVars
<1>7. ReportInv'
  BY <1>0 DEF ReportInv, parentVars
<1>8. QED
  BY <1>1, <1>3, <1>4, <1>5, <1>6, <1>7 DEF ThreadGroupInv, GroupInv

\* A thread leaves for the exec of another one.
LEMMA ExecPeerExitStep ==
    ASSUME ThreadGroupInv, NEW t \in Tasks, ExecPeerExit(t) PROVE ThreadGroupInv'
<1> USE ThreadGroupAssumption DEF ExecPeerExit, Goto
<1>0. TypeOK /\ TableInv /\ ExecInv /\ KillInv /\ CodeInv /\ StatusInv
      /\ GroupActionReachesAll /\ ExecNotTurnedOnItself /\ t \in threads /\ reported = None
  BY DEF ThreadGroupInv, GroupInv, TableInv, ListInv, Outside, ReportInv
<1>1. TypeOK'
  BY <1>0 DEF TypeOK, Phases, groupVars, parentVars, Statuses
<1>2. Moves
  BY <1>0 DEF Moves, Outside, Building, TypeOK, Phases, groupVars, parentVars
<1>3. TableInv'
  BY <1>0, <1>2, MovesKeepTable
<1>4. ExecInv' /\ KillInv' /\ CodeInv' /\ ExecNotTurnedOnItself'
  BY <1>0 DEF TypeOK, ExecInv, KillInv, CodeInv, ExecNotTurnedOnItself, groupVars
<1>5. StatusInv'
  BY <1>0 DEF TypeOK, StatusInv, Statuses, groupVars, CodeInv, KillInv, ExecInv
<1>6. GroupActionReachesAll'
  BY <1>0 DEF TypeOK, GroupActionReachesAll, ExecInv, groupVars
<1>7. ReportInv'
  BY <1>0 DEF ReportInv, parentVars
<1>8. QED
  BY <1>1, <1>3, <1>4, <1>5, <1>6, <1>7 DEF ThreadGroupInv, GroupInv

\* The last thread destroys the timers.
LEMMA DestroyTimersStep ==
    ASSUME ThreadGroupInv, NEW t \in Tasks, DestroyTimers(t) PROVE ThreadGroupInv'
<1> USE ThreadGroupAssumption DEF DestroyTimers, Goto
<1>0. TypeOK /\ TableInv /\ ExecInv /\ KillInv /\ CodeInv /\ StatusInv
      /\ GroupActionReachesAll /\ ExecNotTurnedOnItself /\ t \in threads /\ reported = None
  BY DEF ThreadGroupInv, GroupInv, TableInv, ListInv, Outside, ReportInv
<1>1. TypeOK'
  BY <1>0 DEF TypeOK, Phases, groupVars, parentVars, Statuses
<1>2. Moves
  BY <1>0 DEF Moves, Outside, Building, TypeOK, Phases, groupVars, parentVars
<1>3. TableInv'
  BY <1>0, <1>2, MovesKeepTable
<1>4. ExecInv' /\ KillInv' /\ CodeInv' /\ ExecNotTurnedOnItself'
  BY <1>0 DEF TypeOK, ExecInv, KillInv, CodeInv, ExecNotTurnedOnItself, groupVars
<1>5. StatusInv'
  BY <1>0 DEF TypeOK, StatusInv, Statuses, groupVars, CodeInv, KillInv, ExecInv
<1>6. GroupActionReachesAll'
  BY <1>0 DEF TypeOK, GroupActionReachesAll, ExecInv, groupVars
<1>7. ReportInv'
  BY <1>0 DEF ReportInv, parentVars
<1>8. QED
  BY <1>1, <1>3, <1>4, <1>5, <1>6, <1>7 DEF ThreadGroupInv, GroupInv

\* An exec is abandoned.
LEMMA ExecKilledStep ==
    ASSUME ThreadGroupInv, NEW t \in Tasks, ExecKilled(t) PROVE ThreadGroupInv'
<1> USE ThreadGroupAssumption DEF ExecKilled, Killed, Goto
<1>0. TypeOK /\ TableInv /\ ExecInv /\ KillInv /\ CodeInv /\ StatusInv
      /\ GroupActionReachesAll /\ ExecNotTurnedOnItself /\ t \in threads /\ reported = None
  BY DEF ThreadGroupInv, GroupInv, TableInv, ListInv, Outside, ReportInv
<1>1. TypeOK'
  BY <1>0 DEF TypeOK, Phases, groupVars, parentVars, Statuses
<1>2. Moves
  BY <1>0 DEF Moves, Outside, Building, TypeOK, Phases, groupVars, parentVars
<1>3. TableInv'
  BY <1>0, <1>2, MovesKeepTable
<1>4. ExecInv' /\ KillInv' /\ CodeInv' /\ ExecNotTurnedOnItself'
  BY <1>0 DEF TypeOK, ExecInv, KillInv, CodeInv, ExecNotTurnedOnItself, groupVars
<1>5. StatusInv'
  BY <1>0 DEF TypeOK, StatusInv, Statuses, groupVars, CodeInv, KillInv, ExecInv
<1>6. GroupActionReachesAll'
  BY <1>0 DEF TypeOK, GroupActionReachesAll, ExecInv, groupVars
<1>7. ReportInv'
  BY <1>0 DEF ReportInv, parentVars
<1>8. QED
  BY <1>1, <1>3, <1>4, <1>5, <1>6, <1>7 DEF ThreadGroupInv, GroupInv

\* An exec waits for the next peer.
LEMMA ExecWaitStep ==
    ASSUME ThreadGroupInv, NEW t \in Tasks, ExecWait(t) PROVE ThreadGroupInv'
<1> USE ThreadGroupAssumption DEF ExecWait, Goto
<1>0. TypeOK /\ TableInv /\ ExecInv /\ KillInv /\ CodeInv /\ StatusInv
      /\ GroupActionReachesAll /\ ExecNotTurnedOnItself /\ t \in threads /\ reported = None
  BY DEF ThreadGroupInv, GroupInv, TableInv, ListInv, Outside, ReportInv
<1>1. TypeOK'
  BY <1>0 DEF TypeOK, Phases, groupVars, parentVars, Statuses
<1>2. Moves
  BY <1>0 DEF Moves, Outside, Building, TypeOK, Phases, groupVars, parentVars
<1>3. TableInv'
  BY <1>0, <1>2, MovesKeepTable
<1>4. ExecInv' /\ KillInv' /\ CodeInv' /\ ExecNotTurnedOnItself'
  BY <1>0 DEF TypeOK, ExecInv, KillInv, CodeInv, ExecNotTurnedOnItself, groupVars
<1>5. StatusInv'
  BY <1>0 DEF TypeOK, StatusInv, Statuses, groupVars, CodeInv, KillInv, ExecInv
<1>6. GroupActionReachesAll'
  BY <1>0 DEF TypeOK, GroupActionReachesAll, ExecInv, groupVars
<1>7. ReportInv'
  BY <1>0 DEF ReportInv, parentVars
<1>8. QED
  BY <1>1, <1>3, <1>4, <1>5, <1>6, <1>7 DEF ThreadGroupInv, GroupInv

\* SIGCONT changes nothing but the stop flag.
LEMMA ContinueStep == ASSUME ThreadGroupInv, Continue PROVE ThreadGroupInv'
<1>1. UNCHANGED <<taskVars, kill, threads, leader, exec, exiting, code, fatal,
                  sharedKill, timers, parentVars, tgkilled>> /\ stopped' = FALSE
  BY DEF Continue
<1>2. TypeOK' /\ TableInv'
  <2>1. TypeOK'
    BY <1>1 DEF ThreadGroupInv, TypeOK, taskVars, parentVars
  <2>2. Moves
    BY <1>1 DEF Moves, ThreadGroupInv, TypeOK, taskVars, parentVars
  <2>3. QED
    BY <2>1, <2>2, MovesKeepTable DEF ThreadGroupInv
<1>3. GroupInv' /\ ReportInv'
  BY <1>1 DEF ThreadGroupInv, GroupInv, ExecInv, KillInv, CodeInv, StatusInv,
              GroupActionReachesAll, ExecNotTurnedOnItself, ReportInv,
              taskVars, parentVars
<1>4. QED
  BY <1>2, <1>3 DEF ThreadGroupInv

\* Threads are woken wherever they sleep, and possibly a fatal signal is committed.
Wakes ==
    /\ phase' \in [Tasks -> Phases]
    /\ \A u \in Tasks : \/ phase'[u] = phase[u]
                        \/ phase[u] = "asleep" /\ phase'[u] = "run"
                        \/ phase[u] = "execwait" /\ phase'[u] = "execwoken"

\* A kill from outside keeps the invariants, whomever it wakes.
LEMMA KillKeeps ==
    ASSUME ThreadGroupInv, Wakes, threads # {},
           UNCHANGED <<child, pid, pidTask, reserved, status, threads, leader, exec, timers,
                       reported, reaped>>,
           \/ UNCHANGED <<exiting, code, fatal>>
           \/ ~exiting /\ fatal = None /\ exiting' = TRUE /\ code' = SIGKILL /\ fatal' = SIGKILL,
           stopped' \in BOOLEAN, sharedKill' \in BOOLEAN, tgkilled' \in BOOLEAN,
           kill \subseteq kill', kill' \subseteq threads,
           kill' = kill \/ exiting'
    PROVE  ThreadGroupInv'
<1> USE ThreadGroupAssumption
<1>0. TypeOK /\ TableInv /\ ExecInv /\ KillInv /\ CodeInv /\ StatusInv
      /\ GroupActionReachesAll /\ ExecNotTurnedOnItself /\ reported = None
  BY DEF ThreadGroupInv, GroupInv, ReportInv
<1>1. TypeOK'
  BY <1>0 DEF TypeOK, Wakes, Statuses
<1>2. Moves
  BY DEF Moves, Wakes, Outside, Building
<1>3. TableInv'
  BY <1>0, <1>2, MovesKeepTable
<1>4. ExecInv' /\ KillInv' /\ CodeInv' /\ ExecNotTurnedOnItself'
  <2>1. ExecInv'
    BY <1>0 DEF Wakes, ExecInv
  <2>2. KillInv'
    BY <1>0 DEF KillInv
  <2>3. CodeInv' /\ ExecNotTurnedOnItself'
    BY <1>0 DEF CodeInv, ExecNotTurnedOnItself, Statuses
  <2>4. QED
    BY <2>1, <2>2, <2>3
<1>5. StatusInv'
  BY <1>0 DEF Wakes, StatusInv
<1>6. GroupActionReachesAll'
  <2> SUFFICES ASSUME exec # None \/ exiting', fatal' = None, NEW u \in threads \ {exec}
               PROVE  u \in kill' \/ phase'[u] \in {"dying", "leaving", "timers", "last"}
    BY DEF GroupActionReachesAll
  <2>1. UNCHANGED <<exiting, code, fatal>>
    OBVIOUS
  <2>2. u \in Tasks /\ (u \in kill \/ phase[u] \in {"dying", "leaving", "timers", "last"})
    BY <1>0, <2>1 DEF GroupActionReachesAll, TypeOK
  <2>3. QED
    BY <2>2 DEF Wakes
<1>7. ReportInv'
  BY <1>0 DEF ReportInv
<1>8. QED
  BY <1>1, <1>3, <1>4, <1>5, <1>6, <1>7 DEF ThreadGroupInv, GroupInv

\* SIGKILL to the process.
LEMMA KillProcessStep ==
    ASSUME ThreadGroupInv, NEW t \in Tasks, KillProcess(t) PROVE ThreadGroupInv'
<1>0. TypeOK /\ KillInv
  BY DEF ThreadGroupInv, GroupInv
<1>1. threads # {} /\ kill' = kill /\ kill \subseteq threads
  BY <1>0 DEF KillProcess, Live, KillInv
<1>2. Wakes
  <2>1. phase' = phase \/ \E r : phase' = Woken({r})
    BY DEF KillProcess
  <2>2. CASE phase' = phase
    BY <1>0, <2>2 DEF Wakes, TypeOK
  <2>3. CASE \E r : phase' = Woken({r})
    <3>1. PICK r : phase' = Woken({r})
      BY <2>3
    <3>2. QED
      BY <1>0, <3>1, WokenPhases DEF Wakes
  <2>4. QED
    BY <2>1, <2>2, <2>3
<1>3. \/ UNCHANGED <<exiting, code, fatal>>
      \/ ~exiting /\ fatal = None /\ exiting' = TRUE /\ code' = SIGKILL /\ fatal' = SIGKILL
  BY DEF KillProcess, CommitFatal
<1>4. UNCHANGED <<child, pid, pidTask, reserved, status, threads, leader, exec, timers,
                  reported, reaped>>
      /\ stopped' \in BOOLEAN /\ sharedKill' \in BOOLEAN /\ tgkilled' \in BOOLEAN
  BY <1>0 DEF KillProcess, parentVars, TypeOK
<1>5. QED
  BY <1>1, <1>2, <1>3, <1>4, KillKeeps

\* SIGKILL to one thread.
LEMMA KillThreadStep ==
    ASSUME ThreadGroupInv, NEW t \in Tasks, KillThread(t) PROVE ThreadGroupInv'
<1>0. TypeOK /\ KillInv /\ CodeInv
  BY DEF ThreadGroupInv, GroupInv
<1>1. t \in threads /\ kill' = kill \cup {t} /\ kill' \subseteq threads
  BY <1>0 DEF KillThread, Live, KillInv
<1>2. Wakes
  BY <1>0, WokenPhases DEF KillThread, Wakes, TypeOK
<1>3. \/ UNCHANGED <<exiting, code, fatal>>
      \/ ~exiting /\ fatal = None /\ exiting' = TRUE /\ code' = SIGKILL /\ fatal' = SIGKILL
  BY DEF KillThread, CommitFatal
<1>4. kill' = kill \/ exiting'
  BY <1>0, <1>1 DEF KillThread, CommitFatal, CodeInv
<1>5. UNCHANGED <<child, pid, pidTask, reserved, status, threads, leader, exec, timers,
                  reported, reaped>>
      /\ stopped' \in BOOLEAN /\ sharedKill' \in BOOLEAN /\ tgkilled' \in BOOLEAN
  BY <1>0 DEF KillThread, parentVars, TypeOK
<1>6. QED
  BY <1>1, <1>2, <1>3, <1>4, <1>5, KillKeeps

\* do_exit_group commits a status and kills everyone.
LEMMA GroupExitStep ==
    ASSUME ThreadGroupInv, NEW t \in Tasks, GroupExit(t) PROVE ThreadGroupInv'
<1> USE ThreadGroupAssumption
<1>0. TypeOK /\ TableInv /\ ExecInv /\ KillInv /\ CodeInv /\ StatusInv
      /\ GroupActionReachesAll /\ ExecNotTurnedOnItself /\ t \in threads /\ reported = None
      /\ phase[t] = "dying"
  BY DEF ThreadGroupInv, GroupInv, TableInv, ListInv, Outside, ReportInv, GroupExit
<1>1. /\ phase' \in [Tasks -> Phases] /\ phase'[t] = "leaving"
      /\ \A u \in Tasks \ {t} : \/ phase'[u] = phase[u]
                                \/ phase[u] = "asleep" /\ phase'[u] = "run"
                                \/ phase[u] = "execwait" /\ phase'[u] = "execwoken"
  <2>1. phase' = [Woken(threads \ kill) EXCEPT ![t] = "leaving"]
    BY DEF GroupExit
  <2>2. QED
    BY <1>0, <2>1, WokenPhases DEF Phases
<1>2. /\ exiting' = TRUE /\ code' \in Statuses /\ (fatal # None => code' = fatal)
      /\ status' = [status EXCEPT ![t] = code'] /\ kill' = kill \cup threads
      /\ fatal' = fatal /\ exec' = exec
      /\ (exec # None => exiting \/ fatal # None)
  BY <1>0 DEF GroupExit, CodeInv, StatusInv, TypeOK, Statuses, ExecInv
<1>3. TypeOK'
  <2>1. UNCHANGED <<child, pid, pidTask, reserved, threads, leader, exec, fatal, sharedKill,
                    timers, reported, reaped, tgkilled>> /\ stopped' = FALSE
    BY DEF GroupExit, parentVars
  <2>2. status' \in [Tasks -> Statuses \cup {None, 0}]
    BY <1>0, <1>2 DEF TypeOK
  <2>3. QED
    BY <1>0, <1>1, <1>2, <2>1, <2>2 DEF TypeOK
<1>4. Moves
  BY <1>0, <1>1 DEF Moves, Outside, Building, GroupExit, parentVars
<1>5. TableInv'
  BY <1>0, <1>4, MovesKeepTable
<1>6. ExecInv' /\ KillInv' /\ CodeInv' /\ ExecNotTurnedOnItself'
  <2>1. ExecInv'
    BY <1>0, <1>1, <1>2 DEF ExecInv
  <2>2. KillInv'
    BY <1>0, <1>2 DEF KillInv, GroupExit
  <2>3. CodeInv' /\ ExecNotTurnedOnItself'
    BY <1>0, <1>2 DEF CodeInv, ExecNotTurnedOnItself
  <2>4. QED
    BY <2>1, <2>2, <2>3
<1>7. StatusInv'
  BY <1>0, <1>1, <1>2 DEF StatusInv, TypeOK
<1>8. GroupActionReachesAll'
  BY <1>2 DEF GroupActionReachesAll, GroupExit
<1>9. ReportInv'
  BY <1>0 DEF ReportInv, GroupExit, parentVars
<1>10. QED
  BY <1>3, <1>5, <1>6, <1>7, <1>8, <1>9 DEF ThreadGroupInv, GroupInv

\* `exiting' is set; the others may be woken for shared signals.
LEMMA SetExitingStep ==
    ASSUME ThreadGroupInv, NEW t \in Tasks, SetExiting(t) PROVE ThreadGroupInv'
<1> USE ThreadGroupAssumption
<1>0. TypeOK /\ TableInv /\ ExecInv /\ KillInv /\ CodeInv /\ StatusInv
      /\ GroupActionReachesAll /\ ExecNotTurnedOnItself /\ t \in threads /\ reported = None
      /\ phase[t] = "leaving"
  BY DEF ThreadGroupInv, GroupInv, TableInv, ListInv, Outside, ReportInv, SetExiting
<1>1. /\ phase' \in [Tasks -> Phases] /\ phase'[t] \in {"timers", "last"}
      /\ \A u \in Tasks \ {t} : \/ phase'[u] = phase[u]
                                \/ phase[u] = "asleep" /\ phase'[u] = "run"
                                \/ phase[u] = "execwait" /\ phase'[u] = "execwoken"
  <2>1. CASE \E r, self : self \in {"timers", "last"} /\ phase' = [Woken({r}) EXCEPT ![t] = self]
    BY <1>0, <2>1, WokenPhases DEF Phases
  <2>2. CASE \E self : self \in {"timers", "last"} /\ phase' = [phase EXCEPT ![t] = self]
    BY <1>0, <2>2 DEF Phases, TypeOK
  <2>3. QED
    BY <2>1, <2>2 DEF SetExiting, Goto
<1>2. UNCHANGED <<child, pid, pidTask, reserved, status, kill, threads, leader, exec, exiting,
                  code, fatal, stopped, sharedKill, timers, reported, reaped, tgkilled>>
  BY DEF SetExiting, groupVars, parentVars
<1>3. TypeOK'
  BY <1>0, <1>1, <1>2 DEF TypeOK
<1>4. Moves
  BY <1>0, <1>1, <1>2 DEF Moves, Outside, Building
<1>5. TableInv'
  BY <1>0, <1>4, MovesKeepTable
<1>6. ExecInv' /\ KillInv' /\ CodeInv' /\ ExecNotTurnedOnItself'
  BY <1>0, <1>1, <1>2 DEF ExecInv, KillInv, CodeInv, ExecNotTurnedOnItself
<1>7. StatusInv'
  BY <1>0, <1>1, <1>2 DEF StatusInv
<1>8. GroupActionReachesAll'
  <2> SUFFICES ASSUME exec # None \/ exiting, fatal = None, NEW u \in threads \ {exec}
               PROVE  u \in kill \/ phase'[u] \in {"dying", "leaving", "timers", "last"}
    BY <1>2 DEF GroupActionReachesAll
  <2>1. u \in Tasks /\ (u \in kill \/ phase[u] \in {"dying", "leaving", "timers", "last"})
    BY <1>0 DEF GroupActionReachesAll, TypeOK
  <2>2. QED
    BY <1>1, <2>1
<1>9. ReportInv'
  BY <1>0, <1>2 DEF ReportInv
<1>10. QED
  BY <1>3, <1>5, <1>6, <1>7, <1>8, <1>9 DEF ThreadGroupInv, GroupInv

----------------------------------------------------------------------------
(* Clone *)

\* A pid is reserved for a new task, which is on no list yet.
LEMMA TaskCreateStep ==
    ASSUME ThreadGroupInv, NEW t \in Tasks, NEW c \in Tasks, NEW p \in Pids, TaskCreate(t, c, p)
    PROVE  ThreadGroupInv'
<1> USE ThreadGroupAssumption
<1>0. TypeOK /\ ListInv /\ CloneInv /\ PidInv /\ ExecInv /\ KillInv /\ CodeInv /\ StatusInv
      /\ GroupActionReachesAll /\ ExecNotTurnedOnItself /\ t \in threads /\ reported = None
      /\ phase[t] = "run" /\ phase[c] = "free" /\ t # c /\ c \notin threads
      /\ p \notin reserved /\ pidTask[p] = None /\ p # MainPid
  BY DEF ThreadGroupInv, GroupInv, TableInv, ListInv, Outside, ReportInv, TaskCreate, PidEmpty
<1>1. /\ phase' = [phase EXCEPT ![t] = "cloning", ![c] = "new"]
      /\ child' = [child EXCEPT ![t] = c]
      /\ pid' = [pid EXCEPT ![c] = p]
      /\ reserved' = reserved \cup {p}
      /\ UNCHANGED <<pidTask, status, kill, threads, leader, exec, exiting, code, fatal, stopped,
                     sharedKill, timers, reported, reaped, tgkilled>>
  BY DEF TaskCreate, groupVars, parentVars
<1>2. TypeOK'
  BY <1>0, <1>1 DEF TypeOK, Phases
<1>3. ListInv'
  BY <1>0, <1>1 DEF ListInv, TypeOK, Outside
<1>4. CloneInv'
  BY <1>0, <1>1 DEF CloneInv, TypeOK
<1>5. PidInv'
  BY <1>0, <1>1 DEF PidInv, TypeOK
<1>6. ExecInv' /\ KillInv' /\ CodeInv' /\ ExecNotTurnedOnItself' /\ StatusInv'
  BY <1>0, <1>1 DEF ExecInv, KillInv, CodeInv, ExecNotTurnedOnItself, StatusInv, TypeOK
<1>7. GroupActionReachesAll'
  BY <1>0, <1>1 DEF GroupActionReachesAll, TypeOK
<1>8. ReportInv'
  BY <1>0, <1>1 DEF ReportInv
<1>9. QED
  BY <1>2, <1>3, <1>4, <1>5, <1>6, <1>7, <1>8 DEF ThreadGroupInv, TableInv, GroupInv

\* The new task is published, while no group action is in progress.
LEMMA ClonePublishStep ==
    ASSUME ThreadGroupInv, NEW t \in Tasks, ClonePublish(t) PROVE ThreadGroupInv'
<1> USE ThreadGroupAssumption
<1> DEFINE c == child[t]
<1>0. TypeOK /\ ListInv /\ CloneInv /\ PidInv /\ ExecInv /\ KillInv /\ CodeInv /\ StatusInv
      /\ GroupActionReachesAll /\ ExecNotTurnedOnItself /\ t \in threads /\ reported = None
      /\ phase[t] = "cloning" /\ c \in Tasks /\ phase[c] = "new" /\ t # c
      /\ pid[c] \in reserved /\ ~exiting /\ exec = None
  BY DEF ThreadGroupInv, GroupInv, TableInv, ListInv, CloneInv, PidInv, Outside, ReportInv,
         ClonePublish, GroupAction
<1>1. /\ phase' = [phase EXCEPT ![t] = "releasing", ![c] = "suspended"]
      /\ threads' = threads \cup {c}
      /\ pidTask' = [pidTask EXCEPT ![pid[c]] = c]
      /\ reserved' = reserved \ {pid[c]}
      /\ UNCHANGED <<child, pid, status, kill, leader, exec, exiting, code, fatal, stopped,
                     sharedKill, timers, reported, reaped, tgkilled>>
  BY DEF ClonePublish, groupVars, parentVars
<1>2. TypeOK'
  BY <1>0, <1>1 DEF TypeOK, Phases
<1>3. ListInv'
  BY <1>0, <1>1 DEF ListInv, TypeOK, Outside
<1>4. CloneInv'
  BY <1>0, <1>1 DEF CloneInv, TypeOK
<1> HIDE DEF c
<1>5. PidInv'
  BY <1>0, <1>1 DEF PidInv, TypeOK
<1>6. ExecInv' /\ KillInv' /\ CodeInv' /\ ExecNotTurnedOnItself' /\ StatusInv'
  BY <1>0, <1>1 DEF ExecInv, KillInv, CodeInv, ExecNotTurnedOnItself, StatusInv, TypeOK
<1>7. GroupActionReachesAll'
  BY <1>0, <1>1 DEF GroupActionReachesAll, TypeOK
<1>8. ReportInv'
  BY <1>0, <1>1 DEF ReportInv
<1>9. QED
  BY <1>2, <1>3, <1>4, <1>5, <1>6, <1>7, <1>8 DEF ThreadGroupInv, TableInv, GroupInv

\* A clone that fails returns the pid.
LEMMA CloneFailStep ==
    ASSUME ThreadGroupInv, NEW t \in Tasks, CloneFail(t) PROVE ThreadGroupInv'
<1> USE ThreadGroupAssumption
<1> DEFINE c == child[t]
<1>0. TypeOK /\ ListInv /\ CloneInv /\ PidInv /\ ExecInv /\ KillInv /\ CodeInv /\ StatusInv
      /\ GroupActionReachesAll /\ ExecNotTurnedOnItself /\ t \in threads /\ reported = None
      /\ phase[t] = "cloning" /\ c \in Tasks /\ phase[c] = "new" /\ t # c
      /\ pid[c] \in reserved /\ ~reaped
  BY DEF ThreadGroupInv, GroupInv, TableInv, ListInv, CloneInv, PidInv, Outside, ReportInv,
         CloneFail
<1>1. /\ phase' = [phase EXCEPT ![t] = "run", ![c] = "free"]
      /\ child' = [child EXCEPT ![t] = None]
      /\ reserved' = reserved \ {pid[c]}
      /\ pid' = [pid EXCEPT ![c] = None]
      /\ UNCHANGED <<pidTask, status, kill, threads, leader, exec, exiting, code, fatal, stopped,
                     sharedKill, timers, reported, reaped, tgkilled>>
  BY DEF CloneFail, groupVars, parentVars
<1>2. TypeOK'
  BY <1>0, <1>1 DEF TypeOK, Phases
<1>3. ListInv'
  BY <1>0, <1>1 DEF ListInv, TypeOK, Outside
<1>4. CloneInv'
  BY <1>0, <1>1 DEF CloneInv, TypeOK
<1> HIDE DEF c
<1>5. PidInv'
  BY <1>0, <1>1 DEF PidInv, TypeOK
<1>6. ExecInv' /\ KillInv' /\ CodeInv' /\ ExecNotTurnedOnItself' /\ StatusInv'
  BY <1>0, <1>1 DEF ExecInv, KillInv, CodeInv, ExecNotTurnedOnItself, StatusInv, TypeOK
<1>7. GroupActionReachesAll'
  BY <1>0, <1>1 DEF GroupActionReachesAll, TypeOK
<1>8. ReportInv'
  BY <1>0, <1>1 DEF ReportInv
<1>9. QED
  BY <1>2, <1>3, <1>4, <1>5, <1>6, <1>7, <1>8 DEF ThreadGroupInv, TableInv, GroupInv

\* The new thread is let go.
LEMMA ReleaseStartStep ==
    ASSUME ThreadGroupInv, NEW t \in Tasks, ReleaseStart(t) PROVE ThreadGroupInv'
<1> USE ThreadGroupAssumption
<1> DEFINE c == child[t]
<1>0. TypeOK /\ ListInv /\ CloneInv /\ PidInv /\ ExecInv /\ KillInv /\ CodeInv /\ StatusInv
      /\ GroupActionReachesAll /\ ExecNotTurnedOnItself /\ t \in threads /\ reported = None
      /\ phase[t] = "releasing" /\ c \in Tasks /\ phase[c] = "suspended" /\ t # c
  BY DEF ThreadGroupInv, GroupInv, TableInv, ListInv, CloneInv, Outside, ReportInv, ReleaseStart
<1>1. /\ phase' = [phase EXCEPT ![t] = "run", ![c] = "run"]
      /\ child' = [child EXCEPT ![t] = None]
      /\ UNCHANGED <<pid, pidTask, reserved, status, kill, threads, leader, exec, exiting, code,
                     fatal, stopped, sharedKill, timers, reported, reaped, tgkilled>>
  BY DEF ReleaseStart, groupVars, parentVars
<1>2. TypeOK'
  BY <1>0, <1>1 DEF TypeOK, Phases
<1>3. ListInv'
  BY <1>0, <1>1 DEF ListInv, TypeOK, Outside
<1>4. CloneInv'
  BY <1>0, <1>1 DEF CloneInv, TypeOK
<1> HIDE DEF c
<1>5. PidInv'
  BY <1>0, <1>1 DEF PidInv, TypeOK
<1>6. ExecInv' /\ KillInv' /\ CodeInv' /\ ExecNotTurnedOnItself' /\ StatusInv'
  BY <1>0, <1>1 DEF ExecInv, KillInv, CodeInv, ExecNotTurnedOnItself, StatusInv, TypeOK
<1>7. GroupActionReachesAll'
  BY <1>0, <1>1 DEF GroupActionReachesAll, TypeOK
<1>8. ReportInv'
  BY <1>0, <1>1 DEF ReportInv
<1>9. QED
  BY <1>2, <1>3, <1>4, <1>5, <1>6, <1>7, <1>8 DEF ThreadGroupInv, TableInv, GroupInv

----------------------------------------------------------------------------
(* The end of a thread and of the process *)

\* A thread leaves the list; the last one tells the parent.
LEMMA FinalExitStep ==
    ASSUME ThreadGroupInv, NEW t \in Tasks, NEW autoReap \in BOOLEAN, FinalExit(t, autoReap)
    PROVE  ThreadGroupInv'
<1> USE ThreadGroupAssumption
<1> DEFINE dead == threads = {t}
           gone == (IF t # leader THEN {t} ELSE {})
                      \cup (IF dead /\ autoReap THEN {leader} ELSE {})
<1>0. TypeOK /\ ListInv /\ CloneInv /\ PidInv /\ ExecInv /\ KillInv /\ CodeInv /\ StatusInv
      /\ GroupActionReachesAll /\ ExecNotTurnedOnItself /\ t \in threads /\ reported = None
      /\ phase[t] = "last" /\ ~reaped /\ leader \in Tasks
  BY DEF ThreadGroupInv, GroupInv, TableInv, ListInv, Outside, ReportInv, FinalExit, TypeOK
<1>1. /\ threads' = threads \ {t}
      /\ kill' = kill \ {t}
      /\ sharedKill' \in BOOLEAN
      /\ reported' = IF dead THEN ExitStatus ELSE reported
      /\ reaped' = (dead /\ autoReap)
      /\ pidTask' = [p \in Pids |-> IF pidTask[p] \in gone THEN None ELSE pidTask[p]]
      /\ pid' = [u \in Tasks |-> IF u \in gone THEN None ELSE pid[u]]
      /\ status' = [u \in Tasks |-> IF u \in gone THEN None ELSE status[u]]
      /\ phase' = [x \in Tasks |->
                     IF x \in gone THEN "free"
                     ELSE IF x = t THEN "exited"
                     ELSE IF phase[x] = "execwait" THEN "execwoken" ELSE phase[x]]
      /\ UNCHANGED <<child, reserved, leader, exec, exiting, code, fatal, stopped, timers, tgkilled>>
  BY <1>0 DEF FinalExit, Destroy, groupVars
<1>2. /\ gone \subseteq {t, leader}
      /\ (t \in gone \/ t = leader)
      /\ leader \in gone => dead
      /\ dead /\ autoReap => leader \in gone
      /\ leader \in gone => autoReap
  OBVIOUS
<1> HIDE DEF gone
<1>3. TypeOK'
  <2>1. phase' \in [Tasks -> Phases]
    BY <1>0, <1>1 DEF TypeOK, Phases
  <2>2. pidTask' \in [Pids -> Tasks \cup {None}] /\ pid' \in [Tasks -> Pids \cup {None}]
        /\ status' \in [Tasks -> Statuses \cup {None, 0}]
    BY <1>0, <1>1 DEF TypeOK
  <2>3. reaped' \in BOOLEAN
    BY <1>1
  <2>4. QED
    BY <1>0, <1>1, <2>1, <2>2, <2>3 DEF TypeOK
<1>4. ListInv'
  BY <1>0, <1>1, <1>2 DEF ListInv, TypeOK, Outside
<1>5. dead => \A u \in Tasks : u # t => phase[u] \in {"free", "exited"}
  BY <1>0 DEF ListInv, CloneInv, Outside
<1>6. CloneInv'
  BY <1>0, <1>1, <1>2, <1>5 DEF CloneInv, TypeOK, ListInv, Outside
<1>7. PidInv'
  <2> USE <1>0, <1>1, <1>2 DEF TypeOK
  <2>1. \A u \in Tasks : /\ phase'[u] = "free" => pid'[u] = None
                         /\ phase'[u] = "new" => pid'[u] \in reserved'
                         /\ phase'[u] \notin {"free", "new"} =>
                                 pid'[u] \in Pids /\ pidTask'[pid'[u]] = u
    BY DEF PidInv
  <2>2. \A u, v \in Tasks : phase'[u] = "new" /\ phase'[v] = "new" /\ pid'[u] = pid'[v] => u = v
    BY DEF PidInv
  <2>3. \A p \in Pids : /\ p \in reserved' => pidTask'[p] = None /\ p # MainPid
                        /\ pidTask'[p] # None => pid'[pidTask'[p]] = p
                                                /\ phase'[pidTask'[p]] \notin {"free", "new"}
    BY DEF PidInv
  <2>4. ~reaped' => pidTask'[MainPid] = leader'
    BY DEF PidInv
  <2>5. QED
    BY <2>1, <2>2, <2>3, <2>4 DEF PidInv
<1>8. ExecInv' /\ KillInv' /\ CodeInv' /\ ExecNotTurnedOnItself'
  <2>1. ExecInv'
    BY <1>0, <1>1, <1>2, <1>5 DEF ExecInv, TypeOK
  <2>2. KillInv' /\ CodeInv' /\ ExecNotTurnedOnItself'
    BY <1>0, <1>1 DEF KillInv, CodeInv, ExecNotTurnedOnItself
  <2>3. QED
    BY <2>1, <2>2
<1>9. StatusInv'
  BY <1>0, <1>1, <1>2 DEF StatusInv, TypeOK
<1>10. GroupActionReachesAll'
  <2> SUFFICES ASSUME exec # None \/ exiting, fatal = None, NEW u \in threads \ {t}, u # exec
               PROVE  u \in kill' \/ phase'[u] \in {"dying", "leaving", "timers", "last"}
    BY <1>1 DEF GroupActionReachesAll
  <2>1. u \in Tasks /\ (u \in kill \/ phase[u] \in {"dying", "leaving", "timers", "last"})
    BY <1>0 DEF GroupActionReachesAll, TypeOK
  <2>2. u \notin gone
    BY <1>2
  <2>3. QED
    BY <1>1, <2>1, <2>2
<1>11. ReportInv'
  BY <1>0, <1>1 DEF ReportInv
<1>12. QED
  BY <1>3, <1>4, <1>6, <1>7, <1>8, <1>9, <1>10, <1>11 DEF ThreadGroupInv, TableInv, GroupInv

\* The parent collects the process.
LEMMA ReapStep == ASSUME ThreadGroupInv, Reap PROVE ThreadGroupInv'
<1> USE ThreadGroupAssumption
<1>0. TypeOK /\ ListInv /\ CloneInv /\ PidInv /\ ExecInv /\ KillInv /\ CodeInv /\ StatusInv
      /\ GroupActionReachesAll /\ ExecNotTurnedOnItself /\ threads = {} /\ reported # None
      /\ ~reaped /\ leader \in Tasks /\ phase[leader] = "exited"
  BY DEF ThreadGroupInv, GroupInv, TableInv, ListInv, Outside, ReportInv, Reap, TypeOK
<1>1. /\ pidTask' = [p \in Pids |-> IF pidTask[p] \in {leader} THEN None ELSE pidTask[p]]
      /\ pid' = [u \in Tasks |-> IF u \in {leader} THEN None ELSE pid[u]]
      /\ status' = [u \in Tasks |-> IF u \in {leader} THEN None ELSE status[u]]
      /\ phase' = [phase EXCEPT ![leader] = "free"] /\ reaped' = TRUE
      /\ UNCHANGED <<child, reserved, kill, threads, leader, exec, exiting, code, fatal, stopped,
                     sharedKill, timers, reported, tgkilled>>
  BY DEF Reap, Destroy, Goto, groupVars
<1>2. TypeOK'
  BY <1>0, <1>1 DEF TypeOK, Phases
<1>3. ListInv' /\ CloneInv'
  BY <1>0, <1>1 DEF ListInv, CloneInv, TypeOK, Outside
<1>4. PidInv'
  BY <1>0, <1>1 DEF PidInv, TypeOK
<1>5. ExecInv' /\ KillInv' /\ CodeInv' /\ ExecNotTurnedOnItself' /\ StatusInv'
  BY <1>0, <1>1 DEF ExecInv, KillInv, CodeInv, ExecNotTurnedOnItself, StatusInv, TypeOK
<1>6. GroupActionReachesAll' /\ ReportInv'
  BY <1>0, <1>1 DEF GroupActionReachesAll, ReportInv
<1>7. QED
  BY <1>2, <1>3, <1>4, <1>5, <1>6 DEF ThreadGroupInv, TableInv, GroupInv

----------------------------------------------------------------------------
(* Exec *)

\* Alone and not killed, a thread takes the leader's place and pid.
LEMMA TakeOverStep ==
    ASSUME ThreadGroupInv, NEW t \in Tasks, threads = {t}, phase[t] \in {"run", "execwoken"},
           ~exiting, fatal = None, kill = {}, exec \in {None, t}, TakeOver(t), exec' = None,
           stopped' \in BOOLEAN,
           UNCHANGED <<child, reserved, kill, threads, exiting, code, fatal, sharedKill,
                       timers, parentVars, tgkilled>>
    PROVE  ThreadGroupInv'
<1> USE ThreadGroupAssumption
<1>0. TypeOK /\ ListInv /\ CloneInv /\ PidInv /\ ExecInv /\ KillInv /\ CodeInv /\ StatusInv
      /\ t \in threads /\ reported = None /\ ~reaped /\ leader \in Tasks
  BY DEF ThreadGroupInv, GroupInv, TableInv, ListInv, Outside, ReportInv, TypeOK
<1>1. \A u \in Tasks : u # t => phase[u] \in {"free", "exited"}
  BY <1>0 DEF ListInv, CloneInv, Outside
<1>2. leader # t => phase[leader] = "exited"
  BY <1>0, <1>1 DEF ListInv
<1>3. /\ leader' = t
      /\ phase' = [phase EXCEPT ![leader] = "free", ![t] = "run"]
      /\ status' = [status EXCEPT ![leader] = None]
      /\ leader = t => pid' = pid /\ pidTask' = pidTask
      /\ leader # t => /\ pid' = [pid EXCEPT ![t] = pid[leader], ![leader] = None]
                       /\ pidTask' = [pidTask EXCEPT ![pid[leader]] = t, ![pid[t]] = None]
      /\ reported' = reported /\ reaped' = reaped
  BY DEF TakeOver, parentVars
<1>4. TypeOK'
  BY <1>0, <1>1, <1>2, <1>3 DEF TypeOK, Phases, PidInv
<1>5. ListInv' /\ CloneInv'
  BY <1>0, <1>1, <1>2, <1>3 DEF ListInv, CloneInv, TypeOK, Outside
<1>6. PidInv'
  <2>1. CASE leader = t
    BY <1>0, <1>1, <1>3, <2>1 DEF PidInv, TypeOK
  <2>2. CASE leader # t
    <3>1. pid[leader] = MainPid /\ pid[t] \in Pids /\ pidTask[pid[t]] = t /\ pid[t] # MainPid
      BY <1>0, <1>2, <2>2 DEF PidInv
    <3>2. \A u \in Tasks \ {t} : phase'[u] = "free" /\ (u # leader => pid'[u] = pid[u])
      BY <1>0, <1>1, <1>2, <1>3, <2>2 DEF TypeOK, ListInv
    <3>3. phase'[t] = "run" /\ pid'[t] = MainPid /\ pid'[leader] = None
      BY <1>0, <1>3, <2>2, <3>1 DEF TypeOK
    <3>4. /\ pidTask'[MainPid] = t /\ pidTask'[pid[t]] = None
          /\ \A p \in Pids \ {MainPid, pid[t]} : pidTask'[p] = pidTask[p]
      BY <1>0, <1>3, <2>2, <3>1 DEF TypeOK
    <3>5. \A p \in Pids \ {MainPid, pid[t]} : pidTask[p] = None
      BY <1>0, <1>1, <1>2, <2>2, <3>1 DEF PidInv, TypeOK, ListInv
    <3>6. \A u \in Tasks : /\ phase'[u] = "free" => pid'[u] = None
                           /\ phase'[u] = "new" => pid'[u] \in reserved'
                           /\ phase'[u] \notin {"free", "new"} =>
                                   pid'[u] \in Pids /\ pidTask'[pid'[u]] = u
      <4>1. \A u \in Tasks \ {t, leader} : pid[u] = None
        BY <1>0, <1>1, <2>2 DEF PidInv, ListInv
      <4>2. MainPid \in Pids /\ "run" \notin {"free", "new"}
        OBVIOUS
      <4>3. QED
        BY <3>2, <3>3, <3>4, <4>1, <4>2
    <3>7. \A u, v \in Tasks : phase'[u] = "new" /\ phase'[v] = "new" /\ pid'[u] = pid'[v] => u = v
      BY <3>2, <3>3
    <3>8. \A p \in Pids : /\ p \in reserved' => pidTask'[p] = None /\ p # MainPid
                          /\ pidTask'[p] # None => pid'[pidTask'[p]] = p
                                                  /\ phase'[pidTask'[p]] \notin {"free", "new"}
      <4>1. \A p \in reserved : p # MainPid
        BY <1>0 DEF PidInv, TypeOK
      <4>2. QED
        BY <3>3, <3>4, <3>5, <4>1
    <3>9. QED
      BY <1>3, <3>4, <3>6, <3>7, <3>8 DEF PidInv
  <2>3. QED
    BY <2>1, <2>2
<1>7. ExecInv'
  BY <1>0, <1>1, <1>2, <1>3 DEF ExecInv, TypeOK
<1>8. KillInv' /\ CodeInv' /\ ExecNotTurnedOnItself' /\ GroupActionReachesAll' /\ ReportInv'
  BY <1>0, <1>3 DEF KillInv, CodeInv, ExecNotTurnedOnItself, GroupActionReachesAll, ReportInv
<1>9. StatusInv'
  BY <1>0, <1>1, <1>2, <1>3 DEF StatusInv, TypeOK, ListInv
<1>10. QED
  BY <1>4, <1>5, <1>6, <1>7, <1>8, <1>9 DEF ThreadGroupInv, TableInv, GroupInv

\* An exec that finds its peers gone.
LEMMA ExecFinishStep ==
    ASSUME ThreadGroupInv, NEW t \in Tasks, ExecFinish(t) PROVE ThreadGroupInv'
<1>1. threads = {t} /\ phase[t] = "execwoken" /\ fatal = None /\ kill = {} /\ exec = t /\ ~exiting
  BY ThreadGroupAssumption
  DEF ThreadGroupInv, GroupInv, ExecInv, KillInv, ExecNotTurnedOnItself, ExecFinish, Killed, OthersGone
<1>2. TakeOver(t) /\ exec' = None /\ stopped' \in BOOLEAN
      /\ UNCHANGED <<child, reserved, kill, threads, exiting, code, fatal, sharedKill,
                     timers, parentVars, tgkilled>>
  BY DEF ExecFinish, ThreadGroupInv, TypeOK
<1>3. QED
  BY <1>1, <1>2, TakeOverStep

\* An exec begins: alone it takes over at once, else it kills its peers.
LEMMA ExecBeginStep ==
    ASSUME ThreadGroupInv, NEW t \in Tasks, ExecBegin(t) PROVE ThreadGroupInv'
<1> USE ThreadGroupAssumption
<1>0. TypeOK /\ TableInv /\ ExecInv /\ KillInv /\ CodeInv /\ StatusInv /\ ListInv
      /\ t \in threads /\ reported = None /\ phase[t] = "run" /\ ~exiting /\ exec = None
      /\ fatal = None
  BY DEF ThreadGroupInv, GroupInv, TableInv, ListInv, Outside, ReportInv, ExecBegin, GroupAction
<1>1. kill = {}
  BY <1>0 DEF KillInv
<1>2. CASE OthersGone(t)
  <2>1. TakeOver(t) /\ exec' = None /\ stopped' \in BOOLEAN
        /\ UNCHANGED <<child, reserved, kill, threads, exiting, code, fatal, sharedKill,
                       timers, parentVars, tgkilled>>
    BY <1>0, <1>2 DEF ExecBegin
  <2>2. QED
    BY <1>0, <1>1, <1>2, <2>1, TakeOverStep DEF OthersGone
<1>3. CASE ~OthersGone(t)
  <2>1. /\ exec' = t /\ kill' = kill \cup (Live \ {t}) /\ stopped' = FALSE
        /\ phase' = [Woken((Live \ {t}) \ kill) EXCEPT ![t] = "execwait"]
        /\ UNCHANGED <<pid, pidTask, leader, status, child, reserved, threads, exiting, code, fatal,
                       sharedKill, timers, reported, reaped, tgkilled>>
    BY <1>3 DEF ExecBegin, parentVars
  <2>2. /\ phase' \in [Tasks -> Phases] /\ phase'[t] = "execwait"
        /\ \A u \in Tasks \ {t} : \/ phase'[u] = phase[u]
                                  \/ phase[u] = "asleep" /\ phase'[u] = "run"
                                  \/ phase[u] = "execwait" /\ phase'[u] = "execwoken"
    BY <1>0, <2>1, WokenPhases DEF Phases
  <2>3. Live \subseteq threads /\ \A u \in threads \ Live : phase[u] \in {"timers", "last"}
    BY <1>0 DEF Live, Exiting, ListInv, TypeOK, Outside
  <2>4. TypeOK'
    BY <1>0, <2>1, <2>2, <2>3 DEF TypeOK
  <2>5. TableInv'
    <3>1. Moves
      BY <1>0, <2>1, <2>2 DEF Moves, Outside, Building
    <3>2. QED
      BY <1>0, <3>1, MovesKeepTable
  <2>6. ExecInv'
    BY <1>0, <2>1, <2>2 DEF ExecInv
  <2>7. KillInv' /\ CodeInv' /\ ExecNotTurnedOnItself' /\ ReportInv'
    BY <1>0, <1>1, <2>1, <2>3 DEF KillInv, CodeInv, ExecNotTurnedOnItself, ReportInv
  <2>8. StatusInv'
    BY <1>0, <2>1, <2>2 DEF StatusInv
  <2>9. GroupActionReachesAll'
    <3> SUFFICES ASSUME NEW u \in threads \ {t}
                 PROVE  u \in kill' \/ phase'[u] \in {"dying", "leaving", "timers", "last"}
      BY <2>1 DEF GroupActionReachesAll
    <3>1. CASE u \in Live
      BY <2>1, <3>1
    <3>2. CASE u \notin Live
      BY <1>0, <2>2, <2>3, <3>2 DEF TypeOK
    <3>3. QED
      BY <3>1, <3>2
  <2>10. QED
    BY <2>4, <2>5, <2>6, <2>7, <2>8, <2>9 DEF ThreadGroupInv, GroupInv
<1>4. QED
  BY <1>2, <1>3

----------------------------------------------------------------------------
(* The theorems *)

\* The inductive invariant holds in every reachable state.
THEOREM GroupInvariant == Spec => []ThreadGroupInv
<1>1. ThreadGroupInv /\ [Next]_vars => ThreadGroupInv'
  <2> SUFFICES ASSUME ThreadGroupInv, [Next]_vars PROVE ThreadGroupInv'
    OBVIOUS
  <2>1. ASSUME NEW t \in Tasks, Proceeds(t) PROVE ThreadGroupInv'
    BY <2>1, ClonePublishStep, CloneFailStep, ReleaseStartStep, LeaveStopStep, ExecPeerExitStep,
       GroupExitStep, SetExitingStep, DestroyTimersStep, FinalExitStep, ExecKilledStep,
       ExecWaitStep, ExecFinishStep, Zenon DEF Proceeds
  <2>2. ASSUME NEW t \in Tasks, NEW c \in Tasks, NEW p \in Pids, TaskCreate(t, c, p)
        PROVE  ThreadGroupInv'
    BY <2>2, TaskCreateStep
  <2>3. ASSUME NEW t \in Tasks, PollTerminate(t) \/ Sleep(t) \/ Awake(t) \/ PollStop(t)
        PROVE  ThreadGroupInv'
    BY <2>3, PollTerminateStep, SleepStep, AwakeStep, PollStopStep
  <2>4. ASSUME NEW t \in Tasks, NEW c \in Codes, CallExitGroup(t, c) \/ CallExit(t, c)
        PROVE  ThreadGroupInv'
    BY <2>4, CallExitGroupStep, CallExitStep
  <2>5. ASSUME NEW t \in Tasks, ExecBegin(t) \/ KillProcess(t) \/ KillThread(t)
        PROVE  ThreadGroupInv'
    BY <2>5, ExecBeginStep, KillProcessStep, KillThreadStep
  <2>6. CASE Continue \/ Reap
    BY <2>6, ContinueStep, ReapStep
  <2>7. CASE UNCHANGED vars
    <3>1. UNCHANGED <<phase, child, pid, pidTask, reserved, status, kill, threads, leader, exec,
                      exiting, code, fatal, stopped, sharedKill, timers, reported, reaped, tgkilled>>
      BY <2>7 DEF vars, taskVars, groupVars, parentVars
    <3>2. TypeOK' /\ Moves
      BY <3>1 DEF ThreadGroupInv, TypeOK, Moves
    <3>3. TableInv'
      BY <3>2, MovesKeepTable DEF ThreadGroupInv
    <3>4. GroupInv' /\ ReportInv'
      BY <3>1 DEF ThreadGroupInv, GroupInv, ExecInv, KillInv, CodeInv, StatusInv,
                  GroupActionReachesAll, ExecNotTurnedOnItself, ReportInv
    <3>5. QED
      BY <3>2, <3>3, <3>4 DEF ThreadGroupInv
  <2>8. QED
    BY <2>1, <2>2, <2>3, <2>4, <2>5, <2>6, <2>7, Zenon DEF Next
<1>2. QED
  BY GroupInit, <1>1, PTL DEF Spec

\* Every reachable state is well typed.
THEOREM TypeCorrect == Spec => []TypeOK
<1>1. ThreadGroupInv => TypeOK
  BY DEF ThreadGroupInv
<1>2. QED
  BY GroupInvariant, <1>1, PTL

\* Reservation, publication, exec's exchange of pids, failed clones and destruction
\* keep the pid table and the tasks in agreement.
THEOREM PidTableExactHolds == Spec => []PidTableExact
<1>1. ThreadGroupInv => PidTableExact
  <2> SUFFICES ASSUME ThreadGroupInv PROVE PidTableExact
    OBVIOUS
  <2>1. TypeOK /\ PidInv
    BY DEF ThreadGroupInv, TableInv
  <2>2. \A t \in Tasks : pid[t] # None => \/ pidTask[pid[t]] = t /\ pid[t] \notin reserved
                                          \/ phase[t] = "new" /\ pid[t] \in reserved
    BY ThreadGroupAssumption, <2>1 DEF PidInv, TypeOK
  <2>3. QED
    BY <2>1, <2>2 DEF PidTableExact, PidInv
<1>2. QED
  BY GroupInvariant, <1>1, PTL

\* No thread escapes an exec or an exit_group, not even one that is cloned at the
\* last moment.
THEOREM GroupActionReachesAllHolds == Spec => []GroupActionReachesAll
<1>1. ThreadGroupInv => GroupActionReachesAll
  BY DEF ThreadGroupInv, GroupInv
<1>2. QED
  BY GroupInvariant, <1>1, PTL

\* The peers that an exec kills do not turn a group exit on it.
THEOREM ExecNotTurnedOnItselfHolds == Spec => []ExecNotTurnedOnItself
<1>1. ThreadGroupInv => ExecNotTurnedOnItself
  BY DEF ThreadGroupInv, GroupInv
<1>2. QED
  BY GroupInvariant, <1>1, PTL

----------------------------------------------------------------------------
(* What the parent sees *)

Leaving == {"leaving", "timers", "last", "exited"}

\* A committed code is the reason that came first.  A thread on its way out that no exec
\* removes goes for what it was asked itself, as long as no exit is committed.
ReasonInv ==
    /\ asked \in [Tasks -> Codes \cup {None}]
    /\ exiting => first = code
    /\ ~exiting => first = None /\ ~sharedKill
    /\ \A u \in Tasks : phase[u] = "dying" =>
          \/ asked[u] \in Codes /\ status[u] = asked[u]
          \/ exiting \/ exec \notin {None, u}
    /\ \A u \in Tasks : phase[u] \in Leaving => status[u] = asked[u] \/ exiting \/ exec # None

\* Steps on which nobody starts to leave.
LEMMA ReasonSame ==
    ASSUME ReasonInv, UNCHANGED <<status, asked, first, exiting, code, exec, sharedKill>>,
           \A u \in Tasks : /\ phase'[u] = "dying" => phase[u] = "dying"
                            /\ phase'[u] \in Leaving => phase[u] \in Leaving
    PROVE  ReasonInv'
BY DEF ReasonInv

\* Threads that a signal wakes do not start to leave.
LEMMA WokenLeave ==
    ASSUME TypeOK, NEW ts
    PROVE  \A u \in Tasks : /\ Woken(ts)[u] = "dying" => phase[u] = "dying"
                            /\ Woken(ts)[u] \in Leaving => phase[u] \in Leaving
BY WokenPhases DEF Leaving

\* A thread that must go, kills from outside.
LEMMA ReasonPollKill ==
    ASSUME ThreadGroupInv, ReasonInv, NEW t \in Tasks,
           PollTerminate(t) \/ KillProcess(t) \/ KillThread(t)
    PROVE  ReasonInv'
<1> USE ThreadGroupAssumption
<1>0. TypeOK /\ KillInv /\ CodeInv
  BY DEF ThreadGroupInv, GroupInv
<1>1. CASE PollTerminate(t)
  <2>1. phase' = [phase EXCEPT ![t] = "dying"] /\ (sharedKill' => sharedKill)
        /\ UNCHANGED <<asked, first, exiting, code, exec>>
    BY <1>1 DEF PollTerminate, groupVars
  <2>2. status' = [status EXCEPT ![t] = status'[t]]
    BY <1>0, <1>1 DEF PollTerminate, TypeOK
  <2>3. exiting \/ exec \notin {None, t}
    BY <1>0, <1>1 DEF PollTerminate, ForcedExit, KillInv, CodeInv, ReasonInv
  <2>4. QED
    BY <1>0, <2>1, <2>2, <2>3 DEF ReasonInv, TypeOK, Leaving
<1>2. CASE KillProcess(t) \/ KillThread(t)
  <2>1. UNCHANGED <<status, asked, exec>>
    BY <1>2 DEF KillProcess, KillThread
  <2>2. /\ \/ UNCHANGED <<exiting, code, first, sharedKill>>
           \/ exiting' /\ first' = code'
        /\ exiting => exiting'
    BY <1>0, <1>2 DEF KillProcess, KillThread, CommitFatal, Reason, CodeInv, ReasonInv, Statuses
  <2>3. \A u \in Tasks : /\ phase'[u] = "dying" => phase[u] = "dying"
                         /\ phase'[u] \in Leaving => phase[u] \in Leaving
    <3>1. phase' = phase \/ \E ts : phase' = Woken(ts)
      BY <1>2 DEF KillProcess, KillThread
    <3>2. QED
      BY <1>0, <3>1, WokenLeave
  <2>4. QED
    BY <2>1, <2>2, <2>3 DEF ReasonInv
<1>3. QED
  BY <1>1, <1>2

\* exit and exit_group, and the exit of an exec's peer.
LEMMA ReasonExit ==
    ASSUME ThreadGroupInv, ReasonInv, NEW t \in Tasks,
           \/ \E c \in Codes : CallExitGroup(t, c) \/ CallExit(t, c)
           \/ ExecPeerExit(t) \/ GroupExit(t)
    PROVE  ReasonInv'
<1> USE ThreadGroupAssumption
<1>0. TypeOK /\ CodeInv /\ ExecInv
  BY DEF ThreadGroupInv, GroupInv
<1>1. ASSUME NEW c \in Codes, CallExitGroup(t, c) \/ CallExit(t, c) PROVE ReasonInv'
  BY <1>0, <1>1 DEF CallExitGroup, CallExit, Goto, groupVars, ReasonInv, TypeOK, Leaving
<1>2. CASE ExecPeerExit(t)
  BY <1>0, <1>2 DEF ExecPeerExit, Goto, groupVars, ReasonInv, TypeOK, Leaving
<1>3. CASE GroupExit(t)
  <2>1. phase[t] = "dying" /\ exec # t
    BY <1>0, <1>3 DEF GroupExit, ExecInv
  <2>2. exiting' /\ first' = code'
    BY <1>0, <1>3, <2>1 DEF GroupExit, Reason, ReasonInv, CodeInv, Statuses
  <2>3. asked' = asked
    BY <1>3 DEF GroupExit
  <2>4. QED
    BY <2>2, <2>3 DEF ReasonInv
<1>4. QED
  BY <1>1, <1>2, <1>3

\* A thread leaves the list; the process is reaped.
LEMMA ReasonLeave ==
    ASSUME ThreadGroupInv, ReasonInv,
           Reap \/ \E t \in Tasks, autoReap \in BOOLEAN : FinalExit(t, autoReap)
    PROVE  ReasonInv'
<1> USE ThreadGroupAssumption
<1>0. TypeOK
  BY DEF ThreadGroupInv
<1>1. PICK gone : /\ status' = [u \in Tasks |-> IF u \in gone THEN None ELSE status[u]]
                  /\ asked' = [u \in Tasks |-> IF u \in gone THEN None ELSE asked[u]]
                  /\ \A u \in Tasks : /\ phase'[u] = "dying" => phase[u] = "dying" /\ u \notin gone
                                      /\ phase'[u] \in Leaving => phase[u] \in Leaving /\ u \notin gone
  <2>1. CASE Reap
    <3>1. leader \in Tasks /\ phase' = [phase EXCEPT ![leader] = "free"]
      BY <1>0, <2>1 DEF Reap, Goto, TypeOK
    <3>2. \A u \in Tasks : /\ phase'[u] = "dying" => phase[u] = "dying" /\ u \notin {leader}
                           /\ phase'[u] \in Leaving => phase[u] \in Leaving /\ u \notin {leader}
      BY <1>0, <3>1 DEF TypeOK, Leaving
    <3>3. QED
      BY <2>1, <3>2 DEF Reap, Destroy
  <2>2. ASSUME NEW t \in Tasks, NEW autoReap \in BOOLEAN, FinalExit(t, autoReap)
        PROVE  \E gone : /\ status' = [u \in Tasks |-> IF u \in gone THEN None ELSE status[u]]
                         /\ asked' = [u \in Tasks |-> IF u \in gone THEN None ELSE asked[u]]
                         /\ \A u \in Tasks :
                               /\ phase'[u] = "dying" => phase[u] = "dying" /\ u \notin gone
                               /\ phase'[u] \in Leaving => phase[u] \in Leaving /\ u \notin gone
    <3> DEFINE g == (IF t # leader THEN {t} ELSE {})
                       \cup (IF threads = {t} /\ autoReap THEN {leader} ELSE {})
    <3>1. /\ phase[t] = "last"
          /\ status' = [u \in Tasks |-> IF u \in g THEN None ELSE status[u]]
          /\ asked' = [u \in Tasks |-> IF u \in g THEN None ELSE asked[u]]
          /\ phase' = [x \in Tasks |->
                         IF x \in g THEN "free"
                         ELSE IF x = t THEN "exited"
                         ELSE IF phase[x] = "execwait" THEN "execwoken" ELSE phase[x]]
      BY <2>2 DEF FinalExit, Destroy
    <3> HIDE DEF g
    <3>2. \A u \in Tasks : /\ phase'[u] = "dying" => phase[u] = "dying" /\ u \notin g
                           /\ phase'[u] \in Leaving => phase[u] \in Leaving /\ u \notin g
      BY <3>1 DEF Leaving
    <3>3. QED
      BY <3>1, <3>2
  <2>3. QED
    BY <2>1, <2>2
<1>2. UNCHANGED <<first, exiting, code, exec>>
  BY DEF Reap, FinalExit, groupVars
<1>3. sharedKill' => sharedKill
  BY Zenon DEF Reap, FinalExit
<1>4. QED
  BY <1>1, <1>2, <1>3 DEF ReasonInv

\* An exec begins, is abandoned or takes the leader's place.
LEMMA ReasonExec ==
    ASSUME ThreadGroupInv, ReasonInv, NEW t \in Tasks,
           ExecBegin(t) \/ ExecKilled(t) \/ ExecFinish(t)
    PROVE  ReasonInv'
<1> USE ThreadGroupAssumption
<1>0. TypeOK /\ ListInv /\ CloneInv /\ ExecInv /\ KillInv /\ CodeInv
  BY DEF ThreadGroupInv, GroupInv, TableInv
<1>1. ASSUME TakeOver(t), threads = {t}, exec' = None,
             UNCHANGED <<first, exiting, code, sharedKill>>
      PROVE  ReasonInv'
  <2>1. \A u \in Tasks : u # t /\ u # leader => phase[u] \notin Leaving \cup {"dying"}
    BY <1>0, <1>1 DEF ListInv, Outside, Leaving
  <2>2. /\ phase' = [phase EXCEPT ![leader] = "free", ![t] = "run"]
        /\ asked' = [asked EXCEPT ![leader] = None]
    BY <1>1 DEF TakeOver
  <2>3. \A u \in Tasks : phase'[u] \notin Leaving \cup {"dying"}
    BY <1>0, <2>1, <2>2 DEF TypeOK, Leaving
  <2>4. QED
    BY <1>1, <2>2, <2>3 DEF ReasonInv
<1>2. CASE ExecBegin(t)
  <2>1. CASE OthersGone(t)
    BY <1>0, <1>1, <1>2, <2>1 DEF ExecBegin, OthersGone, GroupAction
  <2>2. CASE ~OthersGone(t)
    <3>1. /\ exec = None /\ exec' = t /\ phase[t] = "run"
          /\ UNCHANGED <<status, asked, first, exiting, code, sharedKill>>
      BY <1>2, <2>2 DEF ExecBegin, GroupAction
    <3>2. PICK ts : phase' = [Woken(ts) EXCEPT ![t] = "execwait"]
      BY <1>2, <2>2 DEF ExecBegin
    <3>3. \A u \in Tasks : /\ phase'[u] = "dying" => phase[u] = "dying" /\ u # t
                           /\ phase'[u] \in Leaving => phase[u] \in Leaving
      BY <1>0, <3>2, WokenPhases DEF Leaving
    <3>4. t # None
      OBVIOUS
    <3>5. QED
      BY <3>1, <3>3, <3>4 DEF ReasonInv
  <2>3. QED
    BY <2>1, <2>2
<1>3. CASE ExecKilled(t)
  <2>1. exiting
    BY <1>0, <1>3 DEF ExecKilled, Killed, ExecInv, KillInv, CodeInv
  <2>2. UNCHANGED <<asked, first, exiting, code>>
    BY <1>3 DEF ExecKilled
  <2>3. QED
    BY <2>1, <2>2 DEF ReasonInv
<1>4. CASE ExecFinish(t)
  BY <1>1, <1>4 DEF ExecFinish, OthersGone
<1>5. QED
  BY <1>2, <1>3, <1>4

\* The steps on which nobody starts to leave.
LEMMA ReasonQuiet ==
    ASSUME ThreadGroupInv, ReasonInv, NEW t \in Tasks,
           \/ Sleep(t) \/ Awake(t) \/ PollStop(t) \/ LeaveStop(t) \/ ExecWait(t)
           \/ ClonePublish(t) \/ CloneFail(t) \/ ReleaseStart(t)
           \/ SetExiting(t) \/ DestroyTimers(t)
           \/ \E c \in Tasks, p \in Pids : TaskCreate(t, c, p)
    PROVE  ReasonInv'
<1> USE ThreadGroupAssumption
<1>0. TypeOK /\ CloneInv
  BY DEF ThreadGroupInv, TableInv
<1>1. UNCHANGED <<status, asked, first, exiting, code, exec, sharedKill>>
  BY DEF Sleep, Awake, PollStop, LeaveStop, ExecWait, ClonePublish, CloneFail, ReleaseStart,
         SetExiting, DestroyTimers, TaskCreate, groupVars
<1>2. \A u \in Tasks : /\ phase'[u] = "dying" => phase[u] = "dying"
                       /\ phase'[u] \in Leaving => phase[u] \in Leaving
  <2>1. CASE Sleep(t) \/ Awake(t) \/ PollStop(t) \/ LeaveStop(t) \/ ExecWait(t) \/ DestroyTimers(t)
    BY <1>0, <2>1 DEF Sleep, Awake, PollStop, LeaveStop, ExecWait, DestroyTimers, Goto, TypeOK,
                      Leaving
  <2>2. CASE ClonePublish(t) \/ CloneFail(t) \/ ReleaseStart(t)
    BY <1>0, <2>2 DEF ClonePublish, CloneFail, ReleaseStart, CloneInv, TypeOK, Leaving
  <2>3. ASSUME NEW c \in Tasks, NEW p \in Pids, TaskCreate(t, c, p)
        PROVE  \A u \in Tasks : /\ phase'[u] = "dying" => phase[u] = "dying"
                                /\ phase'[u] \in Leaving => phase[u] \in Leaving
    BY <1>0, <2>3 DEF TaskCreate, TypeOK, Leaving
  <2>4. CASE SetExiting(t)
    <3>1. phase[t] = "leaving"
      BY <2>4 DEF SetExiting
    <3>2. \E self : /\ self \in {"timers", "last"}
                    /\ \/ phase' = [phase EXCEPT ![t] = self]
                       \/ \E ts : phase' = [Woken(ts) EXCEPT ![t] = self]
      BY <2>4 DEF SetExiting, Goto
    <3>3. QED
      BY <1>0, <3>1, <3>2, WokenPhases DEF Leaving, TypeOK
  <2>5. QED
    BY <2>1, <2>2, <2>3, <2>4
<1>3. QED
  BY <1>1, <1>2, ReasonSame

\* Every step keeps it.
LEMMA ReasonStep == ThreadGroupInv /\ ReasonInv /\ [Next]_vars => ReasonInv'
<1> SUFFICES ASSUME ThreadGroupInv, ReasonInv, [Next]_vars PROVE ReasonInv'
  OBVIOUS
<1>1. ASSUME NEW t \in Tasks, Proceeds(t) PROVE ReasonInv'
  BY <1>1, ReasonQuiet, ReasonExit, ReasonLeave, ReasonExec, Zenon DEF Proceeds
<1>2. ASSUME NEW t \in Tasks, PollTerminate(t) \/ KillProcess(t) \/ KillThread(t)
      PROVE  ReasonInv'
  BY <1>2, ReasonPollKill
<1>3. ASSUME NEW t \in Tasks,
             \/ Sleep(t) \/ Awake(t) \/ PollStop(t)
             \/ \E c \in Tasks, p \in Pids : TaskCreate(t, c, p)
      PROVE  ReasonInv'
  BY <1>3, ReasonQuiet
<1>4. ASSUME NEW t \in Tasks, \E c \in Codes : CallExitGroup(t, c) \/ CallExit(t, c)
      PROVE  ReasonInv'
  BY <1>4, ReasonExit
<1>5. ASSUME NEW t \in Tasks, ExecBegin(t) PROVE ReasonInv'
  BY <1>5, ReasonExec
<1>6. CASE Continue \/ UNCHANGED vars
  <2>1. UNCHANGED <<phase, status, asked, first, exiting, code, exec, sharedKill>>
    BY <1>6 DEF Continue, vars, taskVars, groupVars
  <2>2. QED
    BY <2>1, ReasonSame
<1>7. CASE Reap
  BY <1>7, ReasonLeave
<1>8. QED
  BY <1>1, <1>2, <1>3, <1>4, <1>5, <1>6, <1>7, Zenon DEF Next

\* Nobody has asked for anything yet.
LEMMA ReasonInit == Init => ReasonInv
BY ThreadGroupAssumption DEF Init, ReasonInv, Leaving

\* The parent sees one status, for every number of threads and every set of codes: the
\* reason that came first among fatal signals and calls of exit_group, and if there was
\* none, what the leader itself gave to exit.
THEOREM ReportedStatusHolds == Spec => ReportedStatus
<1>1. ThreadGroupInv /\ ReasonInv /\ [Next]_vars
        => [reported' # reported =>
              /\ reported = None
              /\ reported' = IF first # None THEN first ELSE asked[leader]]_vars
  <2> SUFFICES ASSUME ThreadGroupInv, ReasonInv, Next, reported' # reported
               PROVE  /\ reported = None
                      /\ reported' = IF first # None THEN first ELSE asked[leader]
    OBVIOUS
  <2>1. PICK t \in Tasks, autoReap \in BOOLEAN : FinalExit(t, autoReap)
    BY DEF Next, Proceeds, ClonePublish, CloneFail, ReleaseStart, LeaveStop, ExecPeerExit,
           GroupExit, SetExiting, DestroyTimers, ExecKilled, ExecWait, ExecFinish,
           PollTerminate, TaskCreate, Sleep, Awake, PollStop, CallExitGroup, CallExit,
           ExecBegin, KillProcess, KillThread, Continue, Reap, parentVars
  <2>2. phase[t] = "last" /\ threads = {t} /\ reported' = ExitStatus
    BY <2>1 DEF FinalExit
  <2>3. TypeOK /\ ListInv /\ ExecInv /\ CodeInv /\ ReportInv
    BY DEF ThreadGroupInv, TableInv, GroupInv
  <2>4. reported = None
    BY <2>2, <2>3 DEF ReportInv
  <2>5. CASE exiting
    <3>1. code # None /\ first = code
      BY <2>3, <2>5, ThreadGroupAssumption DEF CodeInv, Statuses, ReasonInv
    <3>2. QED
      BY <2>2, <2>4, <2>5, <3>1 DEF ExitStatus
  <2>6. CASE ~exiting
    <3>1. exec = None
      <4>1. \A u \in Tasks \ {t} : phase[u] \in Outside
        BY <2>2, <2>3 DEF ListInv
      <4>2. QED
        BY <2>2, <2>3, <4>1, ThreadGroupAssumption DEF ExecInv, TypeOK, Outside
    <3>2. phase[leader] \in Leaving
      <4>1. ~reaped /\ leader \in Tasks
        BY <2>2, <2>3 DEF ListInv, TypeOK
      <4>2. leader = t \/ phase[leader] = "exited"
        BY <2>2, <2>3, <4>1 DEF ListInv, Outside
      <4>3. QED
        BY <2>2, <4>2 DEF Leaving
    <3>3. status[leader] = asked[leader] /\ first = None
      BY <2>3, <2>6, <3>1, <3>2 DEF ReasonInv, TypeOK
    <3>4. QED
      BY <2>2, <2>4, <2>6, <3>3 DEF ExitStatus
  <2>7. QED
    BY <2>5, <2>6
<1>2. QED
  BY GroupInvariant, ReasonInit, ReasonStep, <1>1, PTL DEF Spec, ReportedStatus
=============================================================================
