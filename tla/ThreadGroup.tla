---------------------------- MODULE ThreadGroup ----------------------------
(***************************************************************************)
(* The life of one process: threads are cloned, exit one by one or all     *)
(* together, are killed from outside, or are removed by an exec that lets  *)
(* one of them take over the leader's pid; the parent collects the status. *)
(* (kernel/fork.c, kernel/exit.c, kernel/task.c, kernel/signal.c)          *)
(*                                                                         *)
(* Every action is one section under pids_lock, or under the sighand lock  *)
(* for a thread that polls.  Between two sections of one call every other  *)
(* thread may act: after a pid is reserved, after a published clone, after *)
(* a poll decided to terminate, before and after `exiting' is set, and     *)
(* while an exec waits for its peers.                                      *)
(*                                                                         *)
(* SIGKILL is the only signal; a thread is woken by it wherever it sleeps. *)
(* Module ThreadSignals is about the other signals and WaitFor about the   *)
(* wakeups.  No thread is traced and none waits for a vfork child.         *)
(***************************************************************************)
EXTENDS Integers, FiniteSets

CONSTANTS Tasks,      \* task structures
          Main,       \* the first thread
          Pids,
          MainPid,    \* its pid: the tgid, pgid and sid of the process
          Codes,      \* exit statuses passed by the guest
          SIGKILL,    \* the status of a killed process
          None

ASSUME ThreadGroupAssumption ==
    /\ Main \in Tasks /\ MainPid \in Pids
    /\ None \notin Tasks \cup Pids \cup Codes \cup {SIGKILL}
    /\ SIGKILL \notin Codes

VARIABLES phase,     \* where each task is
          child,     \* the task a clone is creating, None if none
          pid,       \* task->pid
          pidTask,   \* pids[].task
          reserved,  \* pids[].reserved
          status,    \* the status a thread is exiting with
          kill,      \* SIGKILL in task->pending
          threads,   \* group->threads
          leader,    \* group->leader
          exec,      \* group->exec_task
          exiting,   \* group->doing_group_exit
          code,      \* group->group_exit_code
          fatal,     \* group->external_fatal_signal
          sharedKill, \* SIGKILL in group->shared_pending
          stopped,   \* group->stopped
          timers,    \* how often the group's timers were destroyed
          reported,  \* the status the parent sees
          reaped,    \* the leader was released
          tgkilled,  \* history: a SIGKILL was sent to a single thread
          asked,     \* history: what each thread gave to exit or exit_group
          first      \* history: the reason to end the process that came first

taskVars  == <<phase, child, pid, pidTask, reserved, status>>
groupVars == <<exec, exiting, code, fatal, stopped>>
parentVars == <<reported, reaped>>
historyVars == <<tgkilled, asked, first>>
vars == <<taskVars, kill, threads, leader, groupVars, sharedKill, timers,
          parentVars, historyVars>>

\* new: created, pid reserved; suspended: published, host thread not released;
\* run; cloning: between pid reservation and publication; releasing: clone
\* published its child; asleep: in wait_for; stopped: on stopped_cond;
\* execwait, execwoken: in task_exec_dethread; dying: about to run
\* do_exit_group; leaving: in do_exit, `exiting' not yet set; timers, last:
\* `exiting' set, before the final section; exited: a leader outside the list.
Phases == {"free", "new", "suspended", "run", "cloning", "releasing", "asleep",
           "stopped", "execwait", "execwoken", "dying", "leaving", "timers",
           "last", "exited"}

Init ==
    /\ phase = [t \in Tasks |-> IF t = Main THEN "run" ELSE "free"]
    /\ child = [t \in Tasks |-> None]
    /\ pid = [t \in Tasks |-> IF t = Main THEN MainPid ELSE None]
    /\ pidTask = [p \in Pids |-> IF p = MainPid THEN Main ELSE None]
    /\ reserved = {}
    /\ status = [t \in Tasks |-> None]
    /\ kill = {}
    /\ threads = {Main}
    /\ leader = Main
    /\ exec = None
    /\ exiting = FALSE
    /\ code = None
    /\ fatal = None
    /\ sharedKill = FALSE
    /\ stopped = FALSE
    /\ timers = 0
    /\ reported = None
    /\ reaped = FALSE
    /\ tgkilled = FALSE
    /\ asked = [t \in Tasks |-> None]
    /\ first = None

Goto(t, where) == phase' = [phase EXCEPT ![t] = where]

\* task->exiting
Exiting(t) == phase[t] \in {"timers", "last", "exited"}

\* The phases after SIGKILL became pending for the tasks of ts.
Woken(ts) ==
    [t \in Tasks |->
       IF t \notin ts THEN phase[t]
       ELSE IF phase[t] = "asleep" THEN "run"
       ELSE IF phase[t] = "execwait" THEN "execwoken"
       ELSE phase[t]]

----------------------------------------------------------------------------
(* Clone *)

\* pid_empty; the process group and the session keep MainPid.
PidEmpty(p) == p \notin reserved /\ pidTask[p] = None /\ p # MainPid

\* task_create_
TaskCreate(t, c, p) ==
    /\ phase[t] = "run"
    /\ phase[c] = "free"
    /\ PidEmpty(p)
    /\ phase' = [phase EXCEPT ![t] = "cloning", ![c] = "new"]
    /\ child' = [child EXCEPT ![t] = c]
    /\ pid' = [pid EXCEPT ![c] = p]
    /\ reserved' = reserved \cup {p}
    /\ UNCHANGED <<pidTask, status, kill, threads, leader, groupVars, sharedKill,
                   timers, parentVars, historyVars>>

GroupAction == exiting \/ exec # None

\* Wrong variant: a clone ignores the group action in progress.
ClonePublishUnchecked(t) ==
    LET c == child[t] IN
    /\ phase[t] = "cloning"
    /\ phase' = [phase EXCEPT ![t] = "releasing", ![c] = "suspended"]
    /\ threads' = threads \cup {c}
    /\ pidTask' = [pidTask EXCEPT ![pid[c]] = c]
    /\ reserved' = reserved \ {pid[c]}
    /\ UNCHANGED <<child, pid, status, kill, leader, groupVars, sharedKill,
                   timers, parentVars, historyVars>>

\* copy_task, last section: no group action may be in progress.
ClonePublish(t) ==
    LET c == child[t] IN
    /\ phase[t] = "cloning"
    /\ ~GroupAction
    /\ t \notin kill /\ fatal = None
    /\ phase' = [phase EXCEPT ![t] = "releasing", ![c] = "suspended"]
    /\ threads' = threads \cup {c}
    /\ pidTask' = [pidTask EXCEPT ![pid[c]] = c]
    /\ reserved' = reserved \ {pid[c]}
    /\ UNCHANGED <<child, pid, status, kill, leader, groupVars, sharedKill,
                   timers, parentVars, historyVars>>

\* The clone fails, there or earlier, and task_abort_create returns the pid.
CloneFail(t) ==
    LET c == child[t] IN
    /\ phase[t] = "cloning"
    /\ phase' = [phase EXCEPT ![t] = "run", ![c] = "free"]
    /\ child' = [child EXCEPT ![t] = None]
    /\ reserved' = reserved \ {pid[c]}
    /\ pid' = [pid EXCEPT ![c] = None]
    /\ UNCHANGED <<pidTask, status, kill, threads, leader, groupVars, sharedKill,
                   timers, parentVars, historyVars>>

\* task_release_start
ReleaseStart(t) ==
    /\ phase[t] = "releasing"
    /\ phase' = [phase EXCEPT ![t] = "run", ![child[t]] = "run"]
    /\ child' = [child EXCEPT ![t] = None]
    /\ UNCHANGED <<pid, pidTask, reserved, status, kill, threads, leader,
                   groupVars, sharedKill, timers, parentVars, historyVars>>

----------------------------------------------------------------------------
(* Sleeping, stopping, polling *)

\* A system call sleeps in wait_for: it looks for deliverable signals first.
Sleep(t) ==
    /\ phase[t] = "run"
    /\ t \notin kill /\ ~sharedKill
    /\ Goto(t, "asleep")
    /\ UNCHANGED <<child, pid, pidTask, reserved, status, kill, threads, leader,
                   groupVars, sharedKill, timers, parentVars, historyVars>>

Awake(t) ==
    /\ phase[t] = "asleep"
    /\ Goto(t, "run")
    /\ UNCHANGED <<child, pid, pidTask, reserved, status, kill, threads, leader,
                   groupVars, sharedKill, timers, parentVars, historyVars>>

\* signal_forced_exit_locked
ForcedExit(t) ==
    IF fatal # None THEN fatal
    ELSE IF exiting \/ exec \notin {None, t} THEN SIGKILL ELSE None

\* A poll finds that the thread must go (task_poll_one_signal, receive_signals).
PollTerminate(t) ==
    /\ phase[t] = "run"
    /\ ForcedExit(t) # None \/ t \in kill \/ sharedKill
    /\ phase' = [phase EXCEPT ![t] = "dying"]
    /\ status' = [status EXCEPT ![t] = IF ForcedExit(t) # None THEN ForcedExit(t)
                                       ELSE SIGKILL]
    /\ kill' = kill \ {t}
    /\ sharedKill' = (sharedKill /\ (ForcedExit(t) # None \/ t \in kill))
    /\ UNCHANGED <<child, pid, pidTask, reserved, threads, leader, groupVars,
                   timers, parentVars, historyVars>>

\* A poll delivers a stop signal: the thread waits on stopped_cond.
PollStop(t) ==
    /\ phase[t] = "run"
    /\ ForcedExit(t) = None /\ t \notin kill /\ ~sharedKill
    /\ Goto(t, "stopped")
    /\ stopped' = TRUE
    /\ UNCHANGED <<child, pid, pidTask, reserved, status, kill, threads, leader,
                   exec, exiting, code, fatal, sharedKill, timers, parentVars, historyVars>>

\* SIGCONT from outside.
Continue ==
    /\ stopped
    /\ stopped' = FALSE
    /\ UNCHANGED <<taskVars, kill, threads, leader, exec, exiting, code, fatal,
                   sharedKill, timers, parentVars, historyVars>>

LeaveStop(t) ==
    /\ phase[t] = "stopped"
    /\ ~stopped
    /\ Goto(t, "run")
    /\ UNCHANGED <<child, pid, pidTask, reserved, status, kill, threads, leader,
                   groupVars, sharedKill, timers, parentVars, historyVars>>

----------------------------------------------------------------------------
(* SIGKILL from outside *)

\* Wrong variant: a committed exit status is overridden.
CommitFatalAlways ==
    exiting' = TRUE /\ code' = SIGKILL /\ fatal' = SIGKILL

\* History: r is a reason to end the process.
Reason(r) == first' = IF first = None THEN r ELSE first

\* commit_group_fatal_signal: the first reason to exit wins.
CommitFatal ==
    IF ~exiting /\ fatal = None
    THEN exiting' = TRUE /\ code' = SIGKILL /\ fatal' = SIGKILL
    ELSE UNCHANGED <<exiting, code, fatal>>

\* task_live_for_process_signal
Live == {t \in threads : ~Exiting(t)}

\* select_process_signal_receiver_locked for SIGKILL, among the live threads.
Receivers(suggested, live) ==
    IF exec \in live THEN {exec}
    ELSE IF suggested \in live THEN {suggested}
    ELSE IF leader \in live THEN {leader} ELSE live

\* send_process_signal_locked
KillProcess(suggested) ==
    /\ suggested \in threads \cup {leader}
    /\ Live # {}
    /\ stopped' = FALSE
    /\ sharedKill' = TRUE
    /\ IF sharedKill THEN UNCHANGED <<phase, exiting, code, fatal, first>>
       ELSE /\ CommitFatal /\ Reason(SIGKILL)
            /\ \E r \in Receivers(suggested, Live) : phase' = Woken({r})
    /\ UNCHANGED <<child, pid, pidTask, reserved, status, kill, threads, leader,
                   exec, timers, parentVars, tgkilled, asked>>

\* send_signal_locked, from tgkill
KillThread(t) ==
    /\ t \in Live
    /\ tgkilled' = TRUE
    /\ stopped' = FALSE
    /\ kill' = kill \cup {t}
    /\ IF t \in kill THEN UNCHANGED <<phase, exiting, code, fatal, first>>
       ELSE CommitFatal /\ Reason(SIGKILL) /\ phase' = Woken({t})
    /\ UNCHANGED <<child, pid, pidTask, reserved, status, threads, leader, exec,
                   sharedKill, timers, parentVars, asked>>

----------------------------------------------------------------------------
(* Exit *)

\* sys_exit_group, or the default action of a synchronous signal.
CallExitGroup(t, c) ==
    /\ phase[t] = "run"
    /\ Goto(t, "dying")
    /\ status' = [status EXCEPT ![t] = c]
    /\ asked' = [asked EXCEPT ![t] = c]
    /\ UNCHANGED <<child, pid, pidTask, reserved, kill, threads, leader,
                   groupVars, sharedKill, timers, parentVars, tgkilled, first>>

\* sys_exit
CallExit(t, c) ==
    /\ phase[t] = "run"
    /\ Goto(t, "leaving")
    /\ status' = [status EXCEPT ![t] = c]
    /\ asked' = [asked EXCEPT ![t] = c]
    /\ UNCHANGED <<child, pid, pidTask, reserved, kill, threads, leader,
                   groupVars, sharedKill, timers, parentVars, tgkilled, first>>

\* do_exit_group of a thread that another thread's exec removes.
ExecPeerExit(t) ==
    /\ phase[t] = "dying"
    /\ exec \notin {None, t} /\ ~exiting /\ fatal = None
    /\ Goto(t, "leaving")
    /\ status' = [status EXCEPT ![t] = 0]
    /\ UNCHANGED <<child, pid, pidTask, reserved, kill, threads, leader,
                   groupVars, sharedKill, timers, parentVars, historyVars>>

\* Wrong variant: a thread that an exec removes ends the whole group.
GroupExitDuringExec(t) ==
    LET mine  == IF fatal # None THEN fatal ELSE status[t]
        final == IF exiting THEN code ELSE mine
    IN
    /\ phase[t] = "dying"
    /\ exiting' = TRUE
    /\ code' = final
    /\ Reason(asked[t])
    /\ status' = [status EXCEPT ![t] = final]
    /\ kill' = kill \cup threads
    /\ stopped' = FALSE
    /\ phase' = [Woken(threads \ kill) EXCEPT ![t] = "leaving"]
    /\ UNCHANGED <<child, pid, pidTask, reserved, threads, leader, exec, fatal,
                   sharedKill, timers, parentVars, tgkilled, asked>>

\* do_exit_group: the first status becomes the group's, everyone gets SIGKILL.
GroupExit(t) ==
    LET mine  == IF fatal # None THEN fatal ELSE status[t]
        final == IF exiting THEN code ELSE mine
    IN
    /\ phase[t] = "dying"
    /\ exec \in {None, t} \/ exiting \/ fatal # None
    /\ exiting' = TRUE
    /\ code' = final
    /\ Reason(asked[t])
    /\ status' = [status EXCEPT ![t] = final]
    /\ kill' = kill \cup threads
    /\ stopped' = FALSE
    /\ phase' = [Woken(threads \ kill) EXCEPT ![t] = "leaving"]
    /\ UNCHANGED <<child, pid, pidTask, reserved, threads, leader, exec, fatal,
                   sharedKill, timers, parentVars, tgkilled, asked>>

\* Wrong variant: shared signals are not offered to the others.
SetExitingSilently(t) ==
    LET last == \A o \in threads \ {t} : Exiting(o) IN
    /\ phase[t] = "leaving"
    /\ Goto(t, IF last THEN "timers" ELSE "last")
    /\ UNCHANGED <<child, pid, pidTask, reserved, status, kill, threads, leader,
                   groupVars, sharedKill, timers, parentVars, historyVars>>

\* do_exit, first section: `exiting' is set; shared signals are offered to the
\* others; the last thread to get here will destroy the group's timers.
SetExiting(t) ==
    LET live == Live \ {t}
        self == IF live = {} THEN "timers" ELSE "last"
    IN
    /\ phase[t] = "leaving"
    /\ IF sharedKill /\ live # {}
       THEN \E r \in Receivers(t, live) : phase' = [Woken({r}) EXCEPT ![t] = self]
       ELSE Goto(t, self)
    /\ UNCHANGED <<child, pid, pidTask, reserved, status, kill, threads, leader,
                   groupVars, sharedKill, timers, parentVars, historyVars>>

\* tgroup_timers_destroy
DestroyTimers(t) ==
    /\ phase[t] = "timers"
    /\ timers' = timers + 1
    /\ Goto(t, "last")
    /\ UNCHANGED <<child, pid, pidTask, reserved, status, kill, threads, leader,
                   groupVars, sharedKill, parentVars, historyVars>>

\* What the parent reads (do_exit, reap_if_zombie).
ExitStatus == IF exiting THEN code ELSE status[leader]

\* task_destroy of the tasks of ts.
Destroy(ts) ==
    /\ pidTask' = [p \in Pids |-> IF pidTask[p] \in ts THEN None ELSE pidTask[p]]
    /\ pid' = [t \in Tasks |-> IF t \in ts THEN None ELSE pid[t]]
    /\ status' = [t \in Tasks |-> IF t \in ts THEN None ELSE status[t]]
    /\ asked' = [t \in Tasks |-> IF t \in ts THEN None ELSE asked[t]]

\* Wrong variant: exit_tgroup does not notify child_exit.
FinalExitSilently(t, autoReap) ==
    LET dead == threads = {t}
        gone == (IF t # leader THEN {t} ELSE {})
                   \cup (IF dead /\ autoReap THEN {leader} ELSE {})
    IN
    /\ phase[t] = "last"
    /\ autoReap => dead
    /\ threads' = threads \ {t}
    /\ kill' = kill \ {t}
    /\ sharedKill' = (sharedKill /\ ~dead)
    /\ reported' = IF dead THEN ExitStatus ELSE reported
    /\ reaped' = (reaped \/ (dead /\ autoReap))
    /\ Destroy(gone)
    /\ phase' = [x \in Tasks |-> IF x \in gone THEN "free"
                                 ELSE IF x = t THEN "exited" ELSE phase[x]]
    /\ UNCHANGED <<child, reserved, leader, groupVars, timers, tgkilled, first>>

\* do_exit, last section: leave the list; the last one tells the parent, who
\* may have asked for children to be reaped at once; only a leader remains.
FinalExit(t, autoReap) ==
    LET dead == threads = {t}
        gone == (IF t # leader THEN {t} ELSE {})
                   \cup (IF dead /\ autoReap THEN {leader} ELSE {})
    IN
    /\ phase[t] = "last"
    /\ autoReap => dead
    /\ threads' = threads \ {t}
    /\ kill' = kill \ {t}
    /\ sharedKill' = (sharedKill /\ ~dead)
    /\ reported' = IF dead THEN ExitStatus ELSE reported
    /\ reaped' = (reaped \/ (dead /\ autoReap))
    /\ Destroy(gone)
    /\ phase' = [x \in Tasks |->
                   IF x \in gone THEN "free"
                   ELSE IF x = t THEN "exited"
                   ELSE IF phase[x] = "execwait" THEN "execwoken" ELSE phase[x]]
    /\ UNCHANGED <<child, reserved, leader, groupVars, timers, tgkilled, first>>

\* The parent's wait: reap_if_zombie.
Reap ==
    /\ reported # None /\ ~reaped
    /\ reaped' = TRUE
    /\ Destroy({leader})
    /\ Goto(leader, "free")
    /\ UNCHANGED <<child, reserved, kill, threads, leader, groupVars, sharedKill,
                   timers, reported, tgkilled, first>>

----------------------------------------------------------------------------
(* Exec *)

\* ~ task_group_has_other_threads
OthersGone(t) == threads = {t}

\* Wrong variant: the pid table still names the old leader.
TakeOverKeepsPid(t) ==
    /\ leader' = t
    /\ phase' = [phase EXCEPT ![leader] = "free", ![t] = "run"]
    /\ status' = [status EXCEPT ![leader] = None]
    /\ asked' = [asked EXCEPT ![leader] = None]
    /\ pid' = IF leader = t THEN pid ELSE [pid EXCEPT ![leader] = None]
    /\ pidTask' = IF leader = t THEN pidTask ELSE [pidTask EXCEPT ![pid[leader]] = None]

\* Alone, the thread takes the old leader's pid and place; the old leader is
\* destroyed under the thread's former pid.
TakeOver(t) ==
    /\ leader' = t
    /\ phase' = [phase EXCEPT ![leader] = "free", ![t] = "run"]
    /\ status' = [status EXCEPT ![leader] = None]
    /\ asked' = [asked EXCEPT ![leader] = None]
    /\ IF leader = t THEN UNCHANGED <<pid, pidTask>>
       ELSE /\ pid' = [pid EXCEPT ![t] = pid[leader], ![leader] = None]
            /\ pidTask' = [pidTask EXCEPT ![pid[leader]] = t, ![pid[t]] = None]

\* task_exec_dethread, first section: publish the marker and kill the peers,
\* unless there are none.  A pending SIGKILL comes with a group action.
ExecBegin(t) ==
    LET peers == Live \ {t} IN
    /\ phase[t] = "run"
    /\ ~GroupAction /\ fatal = None
    /\ stopped' = FALSE
    /\ IF OthersGone(t)
       THEN TakeOver(t) /\ UNCHANGED <<exec, kill>>
       ELSE /\ exec' = t
            /\ kill' = kill \cup peers
            /\ phase' = [Woken(peers \ kill) EXCEPT ![t] = "execwait"]
            /\ UNCHANGED <<pid, pidTask, leader, status, asked>>
    /\ UNCHANGED <<child, reserved, threads, exiting, code, fatal, sharedKill,
                   timers, parentVars, tgkilled, first>>

\* task_sigkill_pending or task_group_fatal_signal
Killed(t) == t \in kill \/ fatal # None

\* The wait is abandoned when the process was killed meanwhile.
ExecKilled(t) ==
    /\ phase[t] = "execwoken"
    /\ Killed(t)
    /\ exec' = None
    /\ Goto(t, "run")
    /\ UNCHANGED <<child, pid, pidTask, reserved, status, kill, threads, leader,
                   exiting, code, fatal, stopped, sharedKill, timers,
                   parentVars, historyVars>>

\* Peers are left: wait for the next one.
ExecWait(t) ==
    /\ phase[t] = "execwoken"
    /\ ~Killed(t) /\ ~OthersGone(t)
    /\ Goto(t, "execwait")
    /\ UNCHANGED <<child, pid, pidTask, reserved, status, kill, threads, leader,
                   groupVars, sharedKill, timers, parentVars, historyVars>>

ExecFinish(t) ==
    /\ phase[t] = "execwoken"
    /\ ~Killed(t) /\ OthersGone(t)
    /\ TakeOver(t)
    /\ exec' = None
    /\ UNCHANGED <<child, reserved, kill, threads, exiting, code, fatal, stopped,
                   sharedKill, timers, parentVars, tgkilled, first>>

----------------------------------------------------------------------------

\* What a thread does by itself once it has to go.
Proceeds(t) ==
    \/ ClonePublish(t) \/ CloneFail(t)
    \/ ReleaseStart(t)
    \/ LeaveStop(t)
    \/ ExecPeerExit(t) \/ GroupExit(t)
    \/ SetExiting(t)
    \/ DestroyTimers(t)
    \/ \E autoReap \in BOOLEAN : FinalExit(t, autoReap)
    \/ ExecKilled(t) \/ ExecWait(t) \/ ExecFinish(t)

Next ==
    \/ \E t \in Tasks :
          \/ Proceeds(t)
          \/ PollTerminate(t)
          \/ \E c \in Tasks, p \in Pids : TaskCreate(t, c, p)
          \/ Sleep(t) \/ Awake(t)
          \/ PollStop(t)
          \/ \E c \in Codes : CallExitGroup(t, c) \/ CallExit(t, c)
          \/ ExecBegin(t)
          \/ KillProcess(t) \/ KillThread(t)
    \/ Continue
    \/ Reap

Spec == Init /\ [][Next]_vars

(***************************************************************************)
(* Fairness: the sections of a call follow one another, and a thread polls *)
(* at every return from a system call, however many it makes in between.   *)
(* Nothing obliges the guest to call anything, a sleep to end by itself or *)
(* anyone to send a signal.                                                *)
(***************************************************************************)
FairSpec ==
    /\ Spec
    /\ \A t \in Tasks : WF_vars(Proceeds(t)) /\ SF_vars(PollTerminate(t))

----------------------------------------------------------------------------
(* Properties *)

\* The pid table and the tasks agree through reservation, publication, exec's
\* exchange of pids and destruction, and until it is reaped the process is
\* found under its first pid, whoever leads it.
PidTableExact ==
    /\ \A t \in Tasks :
          pid[t] # None => \/ pidTask[pid[t]] = t /\ pid[t] \notin reserved
                           \/ phase[t] = "new" /\ pid[t] \in reserved
    /\ \A p \in Pids :
          /\ pidTask[p] # None => pid[pidTask[p]] = p
          /\ p \in reserved => pidTask[p] = None
    /\ ~reaped => pidTask[MainPid] = leader

\* No thread escapes a group action: while an exec or an exit_group is under
\* way, every other listed thread has SIGKILL pending or is on its way out,
\* the ones cloned at the last moment included.
GroupActionReachesAll ==
    (exec # None \/ exiting) /\ fatal = None
       => \A t \in threads \ {exec} :
             t \in kill \/ phase[t] \in {"dying", "leaving", "timers", "last"}

\* The SIGKILL that an exec sends its peers does not come back at it: while the
\* exec waits, only a kill from outside starts a group exit.
ExecNotTurnedOnItself == exec # None /\ exiting => fatal # None

\* The comment in enqueue_external_signal_locked: a fatal signal commits the
\* group exit irrevocably.  No thread sleeps on unless another one is on its way
\* to do_exit_group.
GroupExitCarried ==
    exiting /\ (\E t \in threads : phase[t] \in {"asleep", "execwait"})
       => \E c \in threads :
             \/ phase[c] = "dying"
             \/ /\ phase[c] \notin {"asleep", "execwait", "leaving", "timers", "last"}
                /\ c \in kill \/ sharedKill
             \/ phase[c] = "leaving" /\ sharedKill

\* The parent sees, once, the reason that came first: a fatal signal from outside
\* or the status of the first exit_group, whatever is committed later
\* (commit_group_fatal_signal, do_exit_group); without either, what the thread
\* that leads the process at its end gave to exit.  The statuses that an exec's
\* peers leave with, the old leader among them, are never seen.
ReportedStatus ==
    [][reported' # reported =>
          /\ reported = None
          /\ reported' = IF first # None THEN first ELSE asked[leader]]_vars

\* A committed group exit ends in the death of every thread, also when the one
\* chosen for the signal exits before it polls, and with the group's timers
\* destroyed once although no thread knows when it is the last to leave, unless
\* a SIGKILL to a single thread intervenes (do_exit_group, do_exit).
GroupExitCompletes ==
    exiting /\ ~tgkilled ~> (threads = {} /\ timers = 1) \/ tgkilled

\* An exec does not wait for ever for its peers.
ExecEnds == exec # None ~> exec = None
=============================================================================
