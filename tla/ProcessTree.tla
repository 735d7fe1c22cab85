---------------------------- MODULE ProcessTree ----------------------------
(***************************************************************************)
(* Parents and children, process groups and sessions, exit and wait:       *)
(* kernel/exit.c, kernel/group.c and the creation of tasks in              *)
(* kernel/task.c and kernel/fork.c.                                        *)
(*                                                                         *)
(* Everything here happens under pids_lock.  A section is one action; the  *)
(* lock is free while a task sleeps in do_wait and between the two         *)
(* sections of do_exit.  A task is named by its pid, a process by its      *)
(* leader's pid: both stay allocated until the process is reaped.          *)
(***************************************************************************)
EXTENDS Naturals, FiniteSets

CONSTANTS Pids,      \* the pid table
          InitPid,   \* pid 1, which does not exit
          MaxWaiters,\* bound on tasks asleep in do_wait
          None

ASSUME TreeAssumption == InitPid \in Pids /\ None \notin Pids /\ MaxWaiters \in Nat

VARIABLES task,     \* the pid table's tasks
          silent    \* history: zombies that came to a waiter without a notification

vars == <<task, silent>>

(***************************************************************************)
(* A slot of the pid table.                                                *)
(*   st       none, run, exiting, dead (a leader whose process lives on)   *)
(*            or zombie                                                    *)
(*   leader   names the process; pgid and sid are those of the process and *)
(*            kept in its leader's slot                                    *)
(*   wait     out, sleep (in do_wait) or awake again; wkind and wid say    *)
(*            for which children                                           *)
(*   pending  a signal that the task does not block came while it waits;   *)
(*            one that comes at another time is taken on the way to the    *)
(*            guest, or makes a wait fail at once                          *)
(***************************************************************************)
NoTask == [st |-> "none", leader |-> None, parent |-> None, pgid |-> None, sid |-> None,
           wait |-> "out", wkind |-> "all", wid |-> None, pending |-> FALSE]

Tasks == {p \in Pids : task[p].st # "none"}
Groups == {p \in Tasks : task[p].leader = p}
Group(t) == task[t].leader
Running(t) == task[t].st = "run" /\ task[t].wait = "out"

\* group->threads: a task leaves it at the end of do_exit.
Threads(g) == {t \in Tasks : Group(t) = g /\ task[t].st \in {"run", "exiting"}}

\* pid_empty: no task, and the pid names no process group and no session.
PidEmpty(p) == p \notin Tasks /\ \A g \in Groups : p \notin {task[g].pgid, task[g].sid}

Init ==
    /\ task = [p \in Pids |-> IF p = InitPid
                              THEN [NoTask EXCEPT !.st = "run", !.leader = p, !.pgid = p, !.sid = p]
                              ELSE NoTask]
    /\ silent = {}

----------------------------------------------------------------------------
(* clone_task: a pid is taken, the task is published. *)

Born(t, p, r) ==
    /\ task' = [task EXCEPT ![p] = r]
    /\ UNCHANGED silent

Fork(t, p) ==
    Born(t, p, [NoTask EXCEPT !.st = "run", !.leader = p, !.parent = t,
                              !.pgid = task[Group(t)].pgid, !.sid = task[Group(t)].sid])

\* A thread has the parent of its leader.
CloneThread(t, p) ==
    Born(t, p, [NoTask EXCEPT !.st = "run", !.leader = Group(t),
                              !.parent = task[Group(t)].parent])

----------------------------------------------------------------------------
(* do_exit *)

ExitBegin(t) ==
    /\ t # InitPid
    /\ task' = [task EXCEPT ![t].st = "exiting"]
    /\ UNCHANGED silent

\* Wrong variant: any thread on the list, the one that leaves included.
AnyThread(t) == Threads(Group(t))

\* find_new_parent: a thread of the process that stays, else pid 1.
NewParents(t) ==
    LET stay == {u \in Threads(Group(t)) : task[u].st = "run"}
    IN IF stay # {} THEN stay ELSE {InitPid}

Woken(r) == [r EXCEPT !.wait = IF @ = "sleep" THEN "awake" ELSE @]

\* The second section: children get a new parent, the thread leaves its process,
\* and with the last thread the process becomes a zombie or, if the parent
\* ignores SIGCHLD or set SA_NOCLDWAIT, disappears.  Both processes' child_exit is notified; k is the
\* thread that gets the exit signal, None if it is not sent.
ExitFinish(t, np, reap, k) ==
    LET g     == Group(t)
        kids  == {c \in Tasks : task[c].parent = t}
        last  == Threads(g) = {t}
        above == IF task[g].parent = None THEN None ELSE Group(task[g].parent)
        After(p) ==
            CASE p = g /\ last           -> IF reap THEN NoTask ELSE [task[p] EXCEPT !.st = "zombie"]
              [] p = g /\ p = t /\ ~last -> [task[p] EXCEPT !.st = "dead"]
              [] p # g /\ p = t          -> NoTask
              [] OTHER                   ->
                    LET r == [task[p] EXCEPT !.parent = IF p \in kids THEN np ELSE @,
                                             !.pending = @ \/ p = k]
                    IN IF p = k \/ r.leader = g \/ (last /\ r.leader = above) THEN Woken(r) ELSE r
    IN
    /\ ~last => ~reap /\ k = None
    /\ k # None => k \in Threads(above) /\ task[k].wait # "out"
    /\ task' = [p \in Pids |-> After(p)]
    /\ silent' = silent \cup {c \in kids : task[c].st = "zombie" /\ Group(np) # g}

----------------------------------------------------------------------------
(* do_wait *)

\* The children that a call looks at: of any thread of the process.  A pid may be
\* that of a thread of the child.
Matches(t, kind, id) ==
    LET mine == Threads(Group(t))
        kids == {c \in Groups : task[c].parent \in mine}
    IN
    CASE kind = "pid"  -> {Group(c) : c \in {id} \cap {c \in Tasks : /\ task[c].parent # None
                                                                     /\ Group(task[c].parent) = Group(t)}}
      [] kind = "pgid" -> {c \in kids : task[c].pgid = id}
      [] kind = "all"  -> kids

Collectable(t, kind, id) == {c \in Matches(t, kind, id) : task[c].st = "zombie"}

Returned(t) == [task[t] EXCEPT !.wait = "out", !.wkind = "all", !.wid = None, !.pending = FALSE]

Reap(t, c) ==
    /\ task' = [task EXCEPT ![c] = NoTask, ![t] = Returned(t)]
    /\ silent' = silent \ {c}

Fail(t) ==
    /\ task' = [task EXCEPT ![t] = Returned(t)]
    /\ UNCHANGED silent

Sleep(t, kind, id) ==
    /\ Cardinality({u \in Tasks : task[u].wait # "out"} \ {t}) < MaxWaiters
    /\ task' = [task EXCEPT ![t].wait = "sleep", ![t].wkind = kind, ![t].wid = id]
    /\ UNCHANGED silent

\* Wrong variant: a signal ends the call without another look at the children.
PassAtOnce(t, kind, id, signal) ==
    IF signal \/ Matches(t, kind, id) = {} THEN Fail(t)
    ELSE IF Collectable(t, kind, id) # {} THEN \E c \in Collectable(t, kind, id) : Reap(t, c)
    ELSE Sleep(t, kind, id)

\* One pass over the children.  Reap one; or ECHILD if there is none, EINTR if a
\* signal ended the sleep; or sleep.
Pass(t, kind, id, signal) ==
    LET children == Matches(t, kind, id)
        zombies  == {c \in children : task[c].st = "zombie"}
    IN  \/ \E c \in zombies : Reap(t, c)
        \/ zombies = {} /\ (children = {} \/ signal) /\ Fail(t)
        \/ zombies = {} /\ children # {} /\ ~signal /\ Sleep(t, kind, id)

\* A call that fails at once, for want of children or because a signal is there,
\* changes nothing and is left out.
WaitStart(t, kind, id) ==
    /\ Matches(t, kind, id) # {}
    /\ Pass(t, kind, id, FALSE)

WaitAgain(t) ==
    /\ task[t].wait = "awake"
    /\ Pass(t, task[t].wkind, task[t].wid, task[t].pending)

\* A signal from elsewhere, to a task in do_wait.
Signal(t) ==
    /\ task[t].wait # "out" /\ ~task[t].pending
    /\ task' = [task EXCEPT ![t] = Woken([@ EXCEPT !.pending = TRUE])]
    /\ UNCHANGED silent

----------------------------------------------------------------------------
(* Process groups and sessions *)

\* The caller or one of its children, a zombie too, joins a group of its session
\* or the one that has its own number.
Setpgid(t, id, pg) ==
    LET g == Group(id) IN
    /\ id = t \/ task[id].parent = t
    /\ id # pg => \E h \in Groups : task[h].pgid = pg /\ task[h].sid = task[g].sid
    /\ task[g].sid # g
    /\ task[g].pgid # pg
    /\ task' = [task EXCEPT ![g].pgid = pg]
    /\ silent' = silent \cup {c \in {g} : task[c].st = "zombie"}

\* Wrong variant: the caller may leave a group that has its number to others.
SetsidUnchecked(t) ==
    LET g == Group(t) IN
    /\ g \notin {task[g].pgid, task[g].sid}
    /\ task' = [task EXCEPT ![g].pgid = g, ![g].sid = g]
    /\ UNCHANGED silent

Setsid(t) ==
    LET g == Group(t) IN
    /\ g \notin {task[g].pgid, task[g].sid}
    /\ \A h \in Groups : task[h].pgid # g
    /\ task' = [task EXCEPT ![g].pgid = g, ![g].sid = g]
    /\ UNCHANGED silent

----------------------------------------------------------------------------

Waits == {<<"all", None>>} \cup ({"pid", "pgid"} \X Pids)

\* The system calls of a task that runs.
Call(t) ==
    /\ Running(t)
    /\ \/ \E p \in {q \in Pids : PidEmpty(q)} : Fork(t, p) \/ CloneThread(t, p)
       \/ ExitBegin(t)
       \/ \E w \in Waits : WaitStart(t, w[1], w[2])
       \/ \E id \in Tasks, pg \in Pids : Setpgid(t, id, pg)
       \/ Setsid(t)

\* What happens to a task inside a call.
Inside(t) ==
    \/ /\ task[t].st = "exiting"
       /\ \E np \in NewParents(t), reap \in BOOLEAN, k \in Pids \cup {None} :
             ExitFinish(t, np, reap, k)
    \/ WaitAgain(t)
    \/ Signal(t)

Next == \E t \in Tasks : Call(t) \/ Inside(t)

Spec == Init /\ [][Next]_vars

----------------------------------------------------------------------------
(* Properties *)

WaitsFor(t) == Collectable(t, task[t].wkind, task[t].wid)

\* Nobody sleeps in do_wait while a child that it waits for is a zombie, although
\* children exit, are handed from thread to thread and are reaped by siblings
\* meanwhile; and a call that comes back with nothing, for a signal in particular,
\* leaves no such child behind.  Excepted are zombies that pid 1 inherits or that
\* setpgid moves: for these the code notifies nobody.
NoChildMissed ==
    [][\A t \in Pids :
          /\ task'[t].wait = "sleep" => WaitsFor(t)' \subseteq silent'
          /\ task[t].wait = "awake" /\ task'[t].wait = "out"
                => WaitsFor(t) = {} \/ \E c \in WaitsFor(t) : task'[c] = NoTask]_vars

\* Every process has a parent that is on its process's thread list, where wait
\* looks for children: no zombie is out of reach, whatever threads of the parent
\* exit in whatever order.
NoOrphan ==
    \A g \in Groups \ {InitPid} :
       /\ task[g].parent \in Tasks
       /\ task[task[g].parent].st \in {"run", "exiting"}

\* A process group lies in one session; and a process whose pid is the number of a
\* process group or session belongs to that session, so that no pid is given to a
\* stranger while a group or session still goes by it.
IdsExact ==
    /\ \A g, h \in Groups : task[g].pgid = task[h].pgid => task[g].sid = task[h].sid
    /\ \A g, p \in Groups : p \in {task[g].pgid, task[g].sid} => task[p].sid = task[g].sid
=============================================================================
