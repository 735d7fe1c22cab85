------------------------ MODULE ProcessTree_proofs ------------------------
(***************************************************************************)
(* Proofs about ProcessTree, for every pid table and every number of       *)
(* waiters: typing, the parent of every process, process group and session *)
(* numbers, and no child missed by wait.                                   *)
(***************************************************************************)
EXTENDS ProcessTree, TLAPS

TaskRecs ==
    [st : {"none", "run", "exiting", "dead", "zombie"},
     leader : Pids \cup {None}, parent : Pids \cup {None},
     pgid : Pids \cup {None}, sid : Pids \cup {None},
     wait : {"out", "sleep", "awake"}, wkind : {"all", "pid", "pgid"},
     wid : Pids \cup {None}, pending : BOOLEAN]

TypeOK ==
    /\ task \in [Pids -> TaskRecs]
    /\ silent \subseteq Pids

\* Every task belongs to a process that is in the table; pid 1 always runs.  A
\* thread that is no leader runs or exits, a zombie has no thread left, and only
\* a running task waits.
MemberInv ==
    /\ task[InitPid].st = "run" /\ Group(InitPid) = InitPid
    /\ \A t \in Tasks :
          /\ Group(t) \in Groups
          /\ Group(t) # t => task[t].st \in {"run", "exiting"}
          /\ task[Group(t)].st = "zombie" => Group(t) = t
          /\ task[t].wait # "out" => task[t].st = "run"

\* Process group and session numbers are pids; and a pid in use, a thread's too,
\* that is such a number belongs to the session, or to a process that has become
\* the leader of a session since.
NumberInv ==
    \A g \in Groups :
       /\ task[g].pgid \in Pids /\ task[g].sid \in Pids
       /\ \A p \in Tasks :
             p \in {task[g].pgid, task[g].sid} =>
                \/ task[Group(p)].sid = task[g].sid
                \/ Group(p) # p /\ task[Group(p)].sid = Group(p)

\* c is a zombie that a wait of t for these children would collect, found from
\* the child's side.
ToldFor(t, c, kind, id) ==
    /\ task[c].st = "zombie"
    /\ task[c].parent \in Pids
    /\ Group(task[c].parent) = Group(t)
    /\ kind = "pid" => id = c
    /\ kind = "pgid" => id = task[c].pgid

Told(t, c) == ToldFor(t, c, task[t].wkind, task[t].wid)

\* Nobody sleeps while there is one that it was not told of.
ToldInv ==
    \A t, c \in Tasks : task[t].wait = "sleep" /\ Told(t, c) => c \in silent

\* No process is the child of one of its own threads.
ForeignParent ==
    \A g \in Groups \ {InitPid} : Group(task[g].parent) # g

\* A free slot waits for nothing.
EmptyInv == \A p \in Pids : task[p].st = "none" => task[p].wait = "out"

TreeInv ==
    TypeOK /\ EmptyInv /\ MemberInv /\ NoOrphan /\ ForeignParent /\ IdsExact /\ NumberInv /\ ToldInv

----------------------------------------------------------------------------

\* At the start there is pid 1 alone.
LEMMA TreeInit == Init => TreeInv
<1> SUFFICES ASSUME Init PROVE TreeInv
  OBVIOUS
<1>1. TypeOK
  BY TreeAssumption DEF Init, NoTask, TypeOK, TaskRecs
<1>2. Tasks = {InitPid} /\ task[InitPid].st = "run" /\ task[InitPid].leader = InitPid
      /\ task[InitPid].wait = "out" /\ task[InitPid].pgid = InitPid
      /\ task[InitPid].sid = InitPid /\ InitPid \in Pids
  BY TreeAssumption DEF Init, NoTask, Tasks
<1>3. Groups = {InitPid}
  BY <1>2 DEF Groups
<1>4. MemberInv /\ NoOrphan /\ ForeignParent
  BY <1>2, <1>3 DEF MemberInv, NoOrphan, ForeignParent, Group
<1>5. IdsExact /\ NumberInv
  BY <1>2, <1>3 DEF IdsExact, NumberInv, Group
<1>6. ToldInv
  BY <1>2 DEF ToldInv
<1>7. EmptyInv
  BY DEF EmptyInv, Init, NoTask
<1>8. QED
  BY <1>1, <1>4, <1>5, <1>6, <1>7 DEF TreeInv

\* Fields of a slot that the calls assign.
LEMMA FieldUpdates ==
    ASSUME NEW r \in TaskRecs
    PROVE  /\ \A x \in {"none", "run", "exiting", "dead", "zombie"} :
                 [r EXCEPT !.st = x] \in TaskRecs
           /\ \A x \in Pids \cup {None} : /\ [r EXCEPT !.parent = x] \in TaskRecs
                                          /\ [r EXCEPT !.wid = x] \in TaskRecs
           /\ \A x \in {"out", "sleep", "awake"} : [r EXCEPT !.wait = x] \in TaskRecs
           /\ \A x \in {"all", "pid", "pgid"} : [r EXCEPT !.wkind = x] \in TaskRecs
           /\ \A x \in BOOLEAN : [r EXCEPT !.pending = x] \in TaskRecs
BY DEF TaskRecs

\* Typing is preserved by every step of a task.
LEMMA TypeStep ==
    ASSUME TypeOK, MemberInv, NEW t \in Tasks, Call(t) \/ Inside(t)
    PROVE  TypeOK'
<1> USE TreeAssumption DEF TypeOK, Tasks
<1>0. Group(t) \in Pids /\ task[t] \in TaskRecs /\ task[Group(t)] \in TaskRecs
      /\ NoTask \in TaskRecs
  BY DEF MemberInv, Groups, NoTask, TaskRecs
<1>1. ASSUME NEW p \in Pids, Fork(t, p) PROVE TypeOK'
  BY <1>0, <1>1, ZenonT(60) DEF Fork, Born, TaskRecs, NoTask
<1>2. ASSUME NEW p \in Pids, CloneThread(t, p) PROVE TypeOK'
  BY <1>0, <1>2, ZenonT(60) DEF CloneThread, Born, TaskRecs, NoTask
<1>3. ASSUME ExitBegin(t) PROVE TypeOK'
  BY <1>3 DEF ExitBegin, TaskRecs
<1>w. ASSUME NEW r \in TaskRecs PROVE Woken(r) \in TaskRecs
  <2>1. (IF r.wait = "sleep" THEN "awake" ELSE r.wait) \in {"out", "sleep", "awake"}
    BY DEF TaskRecs
  <2>2. QED
    BY <2>1, FieldUpdates DEF Woken
<1>4. ASSUME NEW np \in NewParents(t), NEW reap \in BOOLEAN, NEW k \in Pids \cup {None},
             ExitFinish(t, np, reap, k)
      PROVE  TypeOK'
  <2>1. np \in Pids
    BY DEF NewParents, Threads
  <2>2. silent' \subseteq Pids
    BY <1>4 DEF ExitFinish
  <2>3. ASSUME NEW p \in Pids PROVE task'[p] \in TaskRecs
    <3> DEFINE kid == task[p].st # "none" /\ task[p].parent = t
               r1  == [task[p] EXCEPT !.parent = IF kid THEN np ELSE @]
               r   == [task[p] EXCEPT !.parent = IF kid THEN np ELSE @,
                                      !.pending = @ \/ p = k]
    <3>1. r1 \in TaskRecs
      BY <2>1 DEF TaskRecs
    <3>2. r \in TaskRecs
      <4>1. r = [r1 EXCEPT !.pending = @ \/ p = k]
        OBVIOUS
      <4>2. (r1.pending \/ p = k) \in BOOLEAN
        OBVIOUS
      <4> HIDE DEF r, r1
      <4>3. QED
        BY <3>1, <4>1, <4>2, FieldUpdates
    <3>3. [task[p] EXCEPT !.st = "zombie"] \in TaskRecs
          /\ [task[p] EXCEPT !.st = "dead"] \in TaskRecs
      BY FieldUpdates
    <3>4. task'[p] \in {NoTask, [task[p] EXCEPT !.st = "zombie"],
                        [task[p] EXCEPT !.st = "dead"], r, Woken(r)}
      BY <1>4 DEF ExitFinish
    <3> HIDE DEF r
    <3>5. QED
      BY <1>0, <1>w, <3>2, <3>3, <3>4
  <2>4. task' = [p \in Pids |-> task'[p]]
    BY <1>4 DEF ExitFinish
  <2>5. QED
    BY <2>2, <2>3, <2>4
<1>5. ASSUME NEW kind \in {"all", "pid", "pgid"}, NEW id \in Pids \cup {None},
             NEW signal \in BOOLEAN, Pass(t, kind, id, signal)
      PROVE  TypeOK'
  <2>1. Matches(t, kind, id) \subseteq Pids
    BY DEF Matches, Groups, MemberInv, Group
  <2>r. Returned(t) \in TaskRecs
    <3> DEFINE r1 == [task[t] EXCEPT !.wait = "out"]
               r2 == [r1 EXCEPT !.wkind = "all"]
               r3 == [r2 EXCEPT !.wid = None]
    <3>1. r1 \in TaskRecs
      BY <1>0, FieldUpdates
    <3>2. r2 \in TaskRecs
      BY <3>1, FieldUpdates
    <3>3. r3 \in TaskRecs
      BY <3>2, FieldUpdates
    <3>4. Returned(t) = [r3 EXCEPT !.pending = FALSE]
      BY DEF Returned
    <3>5. QED
      BY <3>3, <3>4, FieldUpdates
  <2>2. ASSUME NEW c \in Pids, Reap(t, c) PROVE TypeOK'
    BY <1>0, <2>r, <2>2 DEF Reap
  <2>3. ASSUME Fail(t) PROVE TypeOK'
    BY <2>r, <2>3 DEF Fail
  <2>4. ASSUME Sleep(t, kind, id) PROVE TypeOK'
    <3> DEFINE r1 == [task[t] EXCEPT !.wait = "sleep"]
               r2 == [r1 EXCEPT !.wkind = kind]
               r3 == [r2 EXCEPT !.wid = id]
    <3>1. r1 \in TaskRecs
      BY <1>0, FieldUpdates
    <3>2. r2 \in TaskRecs
      BY <3>1, FieldUpdates
    <3>3. r3 \in TaskRecs
      BY <3>2, FieldUpdates
    <3>4. task' = [task EXCEPT ![t] = r3] /\ silent' = silent
      BY <2>4 DEF Sleep
    <3> HIDE DEF r3
    <3>5. QED
      BY <3>3, <3>4
  <2>5. QED
    BY <1>5, <2>1, <2>2, <2>3, <2>4 DEF Pass
<1>6. ASSUME Signal(t) PROVE TypeOK'
  <2> DEFINE r == [task[t] EXCEPT !.pending = TRUE]
  <2>1. r \in TaskRecs
    BY <1>0, FieldUpdates
  <2>2. task' = [task EXCEPT ![t] = Woken(r)] /\ silent' = silent
    BY <1>6 DEF Signal
  <2> HIDE DEF r
  <2>3. QED
    BY <1>w, <2>1, <2>2
<1>7. ASSUME NEW id \in Tasks, NEW pg \in Pids, Setpgid(t, id, pg) PROVE TypeOK'
  <2>1. Group(id) \in Pids
    BY DEF MemberInv, Groups
  <2>2. QED
    BY <1>7, <2>1 DEF Setpgid, TaskRecs
<1>8. ASSUME Setsid(t) PROVE TypeOK'
  BY <1>0, <1>8 DEF Setsid, TaskRecs
<1>9. CASE Call(t)
  <2>1. ASSUME NEW w \in Waits, WaitStart(t, w[1], w[2]) PROVE TypeOK'
    <3>1. w[1] \in {"all", "pid", "pgid"} /\ w[2] \in Pids \cup {None}
      BY DEF Waits
    <3>2. QED
      BY <1>5, <2>1, <3>1 DEF WaitStart
  <2>2. QED
    BY <1>1, <1>2, <1>3, <1>7, <1>8, <1>9, <2>1, Zenon DEF Call
<1>10. CASE Inside(t)
  <2>1. ASSUME WaitAgain(t) PROVE TypeOK'
    BY <1>0, <1>5, <2>1 DEF WaitAgain, TaskRecs
  <2>2. QED
    BY <1>4, <1>6, <1>10, <2>1, Zenon DEF Inside
<1>11. QED
  BY <1>9, <1>10


----------------------------------------------------------------------------

\* The search of do_wait through the children of every thread of the caller finds
\* exactly the zombies whose parent is in the caller's process.
LEMMA SearchExact ==
    TypeOK /\ MemberInv /\ NoOrphan =>
       \A t \in Tasks, kind \in {"all", "pid", "pgid"}, id \in Pids \cup {None} :
          Collectable(t, kind, id) = {c \in Tasks : ToldFor(t, c, kind, id)}
<1> SUFFICES ASSUME TypeOK, MemberInv, NoOrphan, NEW t \in Tasks,
                    NEW kind \in {"all", "pid", "pgid"}, NEW id \in Pids \cup {None}
             PROVE  Collectable(t, kind, id) = {c \in Tasks : ToldFor(t, c, kind, id)}
  OBVIOUS
<1> USE TreeAssumption
<1>1. Tasks \subseteq Pids /\ Groups \subseteq Tasks
  BY DEF Tasks, Groups
<1>2. ASSUME NEW c \in Tasks, task[c].st = "zombie"
      PROVE  /\ c \in Groups /\ Group(c) = c
             /\ task[c].parent \in Tasks /\ task[c].parent # None
             /\ task[task[c].parent].st \in {"run", "exiting"}
  <2>1. Group(c) = c /\ c # InitPid
    BY <1>2 DEF MemberInv
  <2>2. c \in Groups
    BY <2>1 DEF Groups, Group
  <2>3. QED
    BY <1>1, <2>1, <2>2 DEF NoOrphan
<1>3. ASSUME NEW c \in Tasks, task[c].st = "zombie"
      PROVE  task[c].parent \in Threads(Group(t)) <=> Group(task[c].parent) = Group(t)
  BY <1>2, <1>3 DEF Threads
<1>4. \A c \in Tasks : Group(c) \in Tasks /\ (task[Group(c)].st = "zombie" => Group(c) = c)
  BY <1>1 DEF MemberInv
<1>5. CASE kind = "pid"
  BY <1>1, <1>2, <1>4, <1>5 DEF Collectable, Matches, ToldFor
<1>6. CASE kind = "pgid"
  BY <1>1, <1>2, <1>3, <1>6 DEF Collectable, Matches, ToldFor
<1>7. CASE kind = "all"
  BY <1>1, <1>2, <1>3, <1>7 DEF Collectable, Matches, ToldFor
<1>8. QED
  BY <1>5, <1>6, <1>7

----------------------------------------------------------------------------
(* Steps that leave the tree alone and only enter or leave a wait. *)

Kept(p) ==
    /\ task'[p].st = task[p].st /\ task'[p].leader = task[p].leader
    /\ task'[p].parent = task[p].parent
    /\ task'[p].pgid = task[p].pgid /\ task'[p].sid = task[p].sid

\* A step that only changes what running tasks wait for keeps the tree's invariants.
LEMMA TreeKept ==
    ASSUME TreeInv, \A p \in Pids : Kept(p),
           \A p \in Tasks : task'[p].wait # "out" => task[p].st = "run"
    PROVE  MemberInv' /\ NoOrphan' /\ ForeignParent' /\ IdsExact' /\ NumberInv'
<1> USE TreeAssumption DEF Kept
<1>1. Tasks' = Tasks /\ Groups' = Groups
  BY DEF Tasks, Groups
<1>2. \A t \in Tasks : Group(t)' = Group(t) /\ Group(t) \in Pids /\ Group(t) \in Groups
  BY DEF Tasks, Groups, Group, TreeInv, MemberInv
<1>3. Tasks \subseteq Pids /\ Groups \subseteq Tasks
  BY DEF Tasks, Groups
<1>4. MemberInv'
  BY <1>1, <1>2, <1>3 DEF TreeInv, MemberInv, Group
<1>5. NoOrphan' /\ ForeignParent'
  BY <1>1, <1>2, <1>3 DEF TreeInv, NoOrphan, ForeignParent
<1>6. IdsExact'
  BY <1>1, <1>3 DEF TreeInv, IdsExact
<1>7. NumberInv'
  BY <1>1, <1>2, <1>3 DEF TreeInv, NumberInv
<1>8. QED
  BY <1>4, <1>5, <1>6, <1>7

\* A call of do_wait that finds nothing returns.
LEMMA FailStep == ASSUME TreeInv, NEW t \in Tasks, Fail(t), task[t].st = "run"
                  PROVE  MemberInv' /\ NoOrphan' /\ ForeignParent' /\ IdsExact' /\ NumberInv' /\ ToldInv'
<1>0. TypeOK /\ t \in Pids
  BY DEF TreeInv, Tasks
<1>1. \A p \in Pids : Kept(p) /\ silent' = silent
                     /\ (p = t => task'[p].wait = "out") /\ (p # t => task'[p] = task[p])
  BY <1>0 DEF Fail, Returned, Kept, TypeOK, TaskRecs
<1>2. \A p \in Tasks : task'[p].wait # "out" => task[p].st = "run"
  BY <1>1 DEF TreeInv, MemberInv, Tasks
<1>3. MemberInv' /\ NoOrphan' /\ ForeignParent' /\ IdsExact' /\ NumberInv'
  BY <1>1, <1>2, TreeKept
<1>4. ToldInv'
  BY <1>0, <1>1 DEF ToldInv, Told, ToldFor, Kept, TreeInv, Tasks, Group
<1>5. QED
  BY <1>3, <1>4

\* A task goes to sleep when it has seen no zombie.
LEMMA SleepStep ==
    ASSUME TreeInv, NEW t \in Tasks, task[t].st = "run",
           NEW kind \in {"all", "pid", "pgid"}, NEW id \in Pids \cup {None},
           Sleep(t, kind, id), Collectable(t, kind, id) = {}
    PROVE  MemberInv' /\ NoOrphan' /\ ForeignParent' /\ IdsExact' /\ NumberInv' /\ ToldInv'
<1>0. TypeOK /\ t \in Pids
  BY DEF TreeInv, Tasks
<1>1. \A p \in Pids : Kept(p) /\ silent' = silent
         /\ (p = t => task'[p].wkind = kind /\ task'[p].wid = id)
         /\ (p # t => task'[p] = task[p])
  BY <1>0 DEF Sleep, Kept, TypeOK, TaskRecs
<1>2. \A p \in Tasks : task'[p].wait # "out" => task[p].st = "run"
  BY <1>1 DEF TreeInv, MemberInv, Tasks
<1>3. MemberInv' /\ NoOrphan' /\ ForeignParent' /\ IdsExact' /\ NumberInv'
  BY <1>1, <1>2, TreeKept
<1>4. ToldInv'
  <2>1. \A c \in Tasks : ~ToldFor(t, c, kind, id)
    BY SearchExact DEF TreeInv
  <2>2. QED
    BY <1>0, <1>1, <2>1 DEF ToldInv, Told, ToldFor, Kept, TreeInv, Tasks, Group
<1>5. QED
  BY <1>3, <1>4

\* A signal wakes a task that waits.
LEMMA SignalStep == ASSUME TreeInv, NEW t \in Tasks, Signal(t)
                    PROVE  MemberInv' /\ NoOrphan' /\ ForeignParent' /\ IdsExact' /\ NumberInv' /\ ToldInv'
<1>0. TypeOK /\ t \in Pids
  BY DEF TreeInv, Tasks
<1>1. \A p \in Pids : Kept(p) /\ silent' = silent
                     /\ (p = t => task'[p].wait # "sleep" /\ task[p].wait # "out")
                     /\ (p # t => task'[p] = task[p])
  BY <1>0 DEF Signal, Woken, Kept, TypeOK, TaskRecs
<1>2. \A p \in Tasks : task'[p].wait # "out" => task[p].st = "run"
  BY <1>1 DEF TreeInv, MemberInv, Tasks
<1>3. MemberInv' /\ NoOrphan' /\ ForeignParent' /\ IdsExact' /\ NumberInv'
  BY <1>1, <1>2, TreeKept
<1>4. ToldInv'
  BY <1>0, <1>1 DEF ToldInv, Told, ToldFor, Kept, TreeInv, Tasks, Group
<1>5. QED
  BY <1>3, <1>4

----------------------------------------------------------------------------
(* Steps that change the tree. *)

\* The first section of do_exit.
LEMMA ExitBeginStep == ASSUME TreeInv, NEW t \in Tasks, Running(t), ExitBegin(t)
                       PROVE  MemberInv' /\ NoOrphan' /\ ForeignParent' /\ IdsExact' /\ NumberInv' /\ ToldInv'
<1> USE TreeAssumption
<1>0. TypeOK /\ t \in Pids /\ t # InitPid
  BY DEF TreeInv, Tasks, ExitBegin
<1>1. \A p \in Pids :
         /\ task'[p].leader = task[p].leader /\ task'[p].parent = task[p].parent
         /\ task'[p].pgid = task[p].pgid /\ task'[p].sid = task[p].sid
         /\ task'[p].wait = task[p].wait /\ task'[p].wkind = task[p].wkind
         /\ task'[p].wid = task[p].wid
         /\ IF p = t THEN task'[p].st = "exiting" /\ task[p].st = "run" /\ task[p].wait = "out"
                     ELSE task'[p].st = task[p].st
  BY <1>0 DEF ExitBegin, Running, TypeOK, TaskRecs
<1>2. Tasks' = Tasks /\ Groups' = Groups /\ Tasks \subseteq Pids /\ Groups \subseteq Tasks
      /\ silent' = silent
  BY <1>1 DEF Tasks, Groups, ExitBegin
<1>3. \A u \in Tasks : Group(u)' = Group(u) /\ Group(u) \in Groups
  BY <1>1, <1>2 DEF Group, TreeInv, MemberInv
<1>4. MemberInv'
  BY <1>0, <1>1, <1>2, <1>3 DEF TreeInv, MemberInv, Group
<1>5. NoOrphan' /\ ForeignParent'
  BY <1>1, <1>2, <1>3 DEF TreeInv, NoOrphan, ForeignParent
<1>6. IdsExact'
  BY <1>1, <1>2 DEF TreeInv, IdsExact
<1>7. NumberInv'
  BY <1>1, <1>2, <1>3 DEF TreeInv, NumberInv
<1>8. ToldInv'
  BY <1>1, <1>2 DEF TreeInv, ToldInv, Told, ToldFor, Group
<1>9. QED
  BY <1>4, <1>5, <1>6, <1>7, <1>8

\* A child process: its pid was the number of no group and no session, and it
\* inherits those of its parent.
LEMMA ForkStep ==
    ASSUME TreeInv, NEW t \in Tasks, Running(t), NEW p \in Pids, PidEmpty(p), Fork(t, p)
    PROVE  MemberInv' /\ NoOrphan' /\ ForeignParent' /\ IdsExact' /\ NumberInv' /\ ToldInv'
<1> USE TreeAssumption
<1> DEFINE g == Group(t)
<1>0. TypeOK /\ t \in Pids /\ g \in Groups /\ Groups \subseteq Tasks /\ Tasks \subseteq Pids
      /\ task[t].st = "run" /\ p \notin Tasks /\ t # p /\ g # p
      /\ p # task[g].pgid /\ p # task[g].sid
  BY DEF TreeInv, Tasks, Groups, MemberInv, Running, PidEmpty
<1>1. /\ \A q \in Pids \ {p} : task'[q] = task[q]
      /\ task'[p].st = "run" /\ task'[p].leader = p /\ task'[p].parent = t
      /\ task'[p].pgid = task[g].pgid /\ task'[p].sid = task[g].sid
      /\ task'[p].wait = "out"
      /\ silent' = silent
  BY <1>0 DEF Fork, Born, TypeOK, NoTask
<1>2. Tasks' = Tasks \cup {p} /\ Groups' = Groups \cup {p}
  BY <1>0, <1>1 DEF Tasks, Groups
<1>3. \A u \in Tasks : Group(u)' = Group(u) /\ Group(u) \in Groups /\ Group(u) # p
  BY <1>0, <1>1 DEF Group, TreeInv, MemberInv
<1>4. Group(p)' = p /\ \A h \in Groups : task[h].pgid # p /\ task[h].sid # p
  BY <1>1 DEF Group, PidEmpty
<1> HIDE DEF g
<1>5. MemberInv'
  BY <1>0, <1>1, <1>2, <1>3, <1>4 DEF TreeInv, MemberInv, Group
<1>6. NoOrphan' /\ ForeignParent'
  BY <1>0, <1>1, <1>2, <1>3 DEF TreeInv, NoOrphan, ForeignParent
<1>7. IdsExact'
  BY <1>0, <1>1, <1>2, <1>3, <1>4 DEF TreeInv, IdsExact
<1>8. NumberInv'
  BY <1>0, <1>1, <1>2, <1>3, <1>4 DEF TreeInv, NumberInv
<1>9. ToldInv'
  <2> SUFFICES ASSUME NEW u \in Tasks', NEW c \in Tasks', task'[u].wait = "sleep", Told(u, c)'
               PROVE  c \in silent'
    BY DEF ToldInv
  <2>1. u \in Tasks /\ c \in Tasks /\ c # InitPid
    BY <1>0, <1>1, <1>2 DEF Told, ToldFor, TreeInv, MemberInv
  <2>2. c \in Groups
    BY <1>0, <1>1, <2>1 DEF Told, ToldFor, TreeInv, MemberInv, Groups, Group
  <2>3. task[c].parent \in Tasks
    BY <2>1, <2>2 DEF TreeInv, NoOrphan
  <2>4. Told(u, c)
    BY <1>0, <1>1, <1>3, <2>1, <2>3 DEF Told, ToldFor
  <2>5. QED
    BY <1>0, <1>1, <2>1, <2>4 DEF TreeInv, ToldInv
<1>10. QED
  BY <1>5, <1>6, <1>7, <1>8, <1>9

\* A new thread belongs to the process of its creator.
LEMMA CloneStep ==
    ASSUME TreeInv, NEW t \in Tasks, Running(t), NEW p \in Pids, PidEmpty(p), CloneThread(t, p)
    PROVE  MemberInv' /\ NoOrphan' /\ ForeignParent' /\ IdsExact' /\ NumberInv' /\ ToldInv'
<1> USE TreeAssumption
<1> DEFINE g == Group(t)
<1>0. TypeOK /\ t \in Pids /\ g \in Groups /\ Groups \subseteq Tasks /\ Tasks \subseteq Pids
      /\ task[t].st = "run" /\ p \notin Tasks /\ t # p /\ g # p /\ task[g].st # "zombie"
  BY DEF TreeInv, Tasks, Groups, MemberInv, Running, PidEmpty
<1>1. /\ \A q \in Pids \ {p} : task'[q] = task[q]
      /\ task'[p].st = "run" /\ task'[p].leader = g /\ task'[p].wait = "out"
      /\ silent' = silent
  BY <1>0 DEF CloneThread, Born, TypeOK, NoTask
<1>2. Tasks' = Tasks \cup {p} /\ Groups' = Groups
  BY <1>0, <1>1 DEF Tasks, Groups
<1>3. \A u \in Tasks : Group(u)' = Group(u) /\ Group(u) \in Groups /\ Group(u) # p
  BY <1>0, <1>1 DEF Group, TreeInv, MemberInv
<1>4. Group(p)' = g /\ \A h \in Groups : task[h].pgid # p /\ task[h].sid # p
  BY <1>1 DEF Group, PidEmpty
<1> HIDE DEF g
<1>5. MemberInv'
  <2>1. task'[InitPid].st = "run" /\ Group(InitPid)' = InitPid
    BY <1>0, <1>1 DEF TreeInv, MemberInv, Group, Tasks
  <2>2. ASSUME NEW u \in Tasks
        PROVE  /\ Group(u)' \in Groups'
               /\ Group(u)' # u => task'[u].st \in {"run", "exiting"}
               /\ task'[Group(u)'].st = "zombie" => Group(u)' = u
               /\ task'[u].wait # "out" => task'[u].st = "run"
    <3>1. u \in Pids \ {p} /\ Group(u) \in Pids \ {p}
      BY <1>0, <1>3
    <3>2. QED
      BY <1>1, <1>2, <1>3, <3>1 DEF TreeInv, MemberInv
  <2>3. Group(p)' \in Groups' /\ task'[Group(p)'].st # "zombie"
        /\ task'[p].wait = "out" /\ task'[p].st = "run"
    BY <1>0, <1>1, <1>2, <1>4
  <2>4. QED
    BY <1>2, <2>1, <2>2, <2>3 DEF MemberInv
<1>6. NoOrphan' /\ ForeignParent'
  BY <1>0, <1>1, <1>2, <1>3 DEF TreeInv, NoOrphan, ForeignParent
<1>7. IdsExact'
  BY <1>0, <1>1, <1>2, <1>3, <1>4 DEF TreeInv, IdsExact
<1>8. NumberInv'
  BY <1>0, <1>1, <1>2, <1>3, <1>4 DEF TreeInv, NumberInv
<1>9. ToldInv'
  <2> SUFFICES ASSUME NEW u \in Tasks', NEW c \in Tasks', task'[u].wait = "sleep", Told(u, c)'
               PROVE  c \in silent'
    BY DEF ToldInv
  <2>1. u \in Tasks /\ c \in Tasks /\ c # InitPid
    BY <1>0, <1>1, <1>2 DEF Told, ToldFor, TreeInv, MemberInv
  <2>2. c \in Groups
    BY <1>0, <1>1, <2>1 DEF Told, ToldFor, TreeInv, MemberInv, Groups, Group
  <2>3. task[c].parent \in Tasks
    BY <2>1, <2>2 DEF TreeInv, NoOrphan
  <2>4. Told(u, c)
    BY <1>0, <1>1, <1>3, <2>1, <2>3 DEF Told, ToldFor
  <2>5. QED
    BY <1>0, <1>1, <2>1, <2>4 DEF TreeInv, ToldInv
<1>10. QED
  BY <1>5, <1>6, <1>7, <1>8, <1>9

\* A process joins a group of its session, or the one with its own number.
LEMMA SetpgidStep ==
    ASSUME TreeInv, NEW t \in Tasks, NEW id \in Tasks, NEW pg \in Pids, Setpgid(t, id, pg)
    PROVE  MemberInv' /\ NoOrphan' /\ ForeignParent' /\ IdsExact' /\ NumberInv' /\ ToldInv'
<1> USE TreeAssumption
<1> DEFINE g == Group(id)
<1>0. TypeOK /\ g \in Groups /\ Groups \subseteq Tasks /\ Tasks \subseteq Pids
      /\ task[g].sid # g
      /\ (id # pg => \E h \in Groups : task[h].pgid = pg /\ task[h].sid = task[g].sid)
  BY DEF TreeInv, Tasks, Groups, MemberInv, Setpgid
<1>1. /\ \A q \in Pids : /\ task'[q].st = task[q].st /\ task'[q].leader = task[q].leader
                         /\ task'[q].parent = task[q].parent /\ task'[q].sid = task[q].sid
                         /\ task'[q].wait = task[q].wait /\ task'[q].wkind = task[q].wkind
                         /\ task'[q].wid = task[q].wid
                         /\ task'[q].pgid = IF q = g THEN pg ELSE task[q].pgid
      /\ silent' = silent \cup {c \in {g} : task[c].st = "zombie"}
  BY <1>0 DEF Setpgid, TypeOK, TaskRecs
<1>2. Tasks' = Tasks /\ Groups' = Groups
  BY <1>1 DEF Tasks, Groups
<1>3. \A u \in Tasks : Group(u)' = Group(u) /\ Group(u) \in Groups
  BY <1>0, <1>1 DEF Group, TreeInv, MemberInv
<1>4. Group(id) = g /\ g \in Pids
  BY <1>0
<1> HIDE DEF g
<1>5. MemberInv'
  BY <1>0, <1>1, <1>2, <1>3 DEF TreeInv, MemberInv, Group
<1>6. NoOrphan' /\ ForeignParent'
  BY <1>0, <1>1, <1>2, <1>3 DEF TreeInv, NoOrphan, ForeignParent
<1>7. \A h \in Groups : task[h].pgid = pg => task[h].sid = task[g].sid
  BY <1>0, <1>4 DEF TreeInv, IdsExact, NumberInv
<1>8. \A p \in Tasks : p = pg => \/ task[Group(p)].sid = task[g].sid
                                 \/ Group(p) # p /\ task[Group(p)].sid = Group(p)
  BY <1>0, <1>4 DEF TreeInv, NumberInv
<1>9. NumberInv'
  <2> SUFFICES ASSUME NEW h \in Groups
               PROVE  /\ task'[h].pgid \in Pids /\ task'[h].sid \in Pids
                      /\ \A p \in Tasks :
                            p \in {task'[h].pgid, task'[h].sid} =>
                               \/ task[Group(p)].sid = task[h].sid
                               \/ Group(p) # p /\ task[Group(p)].sid = Group(p)
    BY <1>0, <1>1, <1>2, <1>3 DEF NumberInv
  <2>1. h \in Pids /\ task[h].pgid \in Pids /\ task[h].sid \in Pids
        /\ \A p \in Tasks :
              p \in {task[h].pgid, task[h].sid} =>
                 \/ task[Group(p)].sid = task[h].sid
                 \/ Group(p) # p /\ task[Group(p)].sid = Group(p)
    BY <1>0 DEF TreeInv, NumberInv
  <2>2. QED
    BY <1>1, <1>8, <2>1
<1>10. IdsExact'
  <2>1. \A h, p \in Groups : p \in {task'[h].pgid, task'[h].sid} => task[p].sid = task[h].sid
    <3> SUFFICES ASSUME NEW h \in Groups, NEW p \in Groups, p \in {task'[h].pgid, task'[h].sid}
                 PROVE  task[p].sid = task[h].sid
      OBVIOUS
    <3>1. CASE h = g /\ p = pg
      <4>1. Group(p) = p
        BY DEF Groups, Group
      <4>2. QED
        BY <1>0, <1>8, <3>1, <4>1
    <3>2. CASE ~(h = g /\ p = pg)
      BY <1>0, <1>1, <3>2 DEF TreeInv, IdsExact
    <3>3. QED
      BY <3>1, <3>2
  <2>2. QED
    BY <1>0, <1>1, <1>2, <1>7, <2>1 DEF TreeInv, IdsExact
<1>11. ToldInv'
  BY <1>0, <1>1, <1>2, <1>4 DEF TreeInv, ToldInv, Told, ToldFor, Group
<1>12. QED
  BY <1>5, <1>6, <1>9, <1>10, <1>11

\* A process becomes the leader of a session and a group that have its number.
LEMMA SetsidStep ==
    ASSUME TreeInv, NEW t \in Tasks, Running(t), Setsid(t)
    PROVE  MemberInv' /\ NoOrphan' /\ ForeignParent' /\ IdsExact' /\ NumberInv' /\ ToldInv'
<1> USE TreeAssumption
<1> DEFINE g == Group(t)
<1>0. TypeOK /\ g \in Groups /\ Groups \subseteq Tasks /\ Tasks \subseteq Pids
      /\ task[g].sid # g /\ task[g].st # "zombie"
      /\ \A h \in Groups : task[h].pgid # g
  BY DEF TreeInv, Tasks, Groups, MemberInv, Setsid, Running
<1>1. /\ \A q \in Pids : /\ task'[q].st = task[q].st /\ task'[q].leader = task[q].leader
                         /\ task'[q].parent = task[q].parent
                         /\ task'[q].wait = task[q].wait /\ task'[q].wkind = task[q].wkind
                         /\ task'[q].wid = task[q].wid
                         /\ task'[q].pgid = IF q = g THEN g ELSE task[q].pgid
                         /\ task'[q].sid = IF q = g THEN g ELSE task[q].sid
      /\ silent' = silent
  BY <1>0 DEF Setsid, TypeOK, TaskRecs
<1>2. Tasks' = Tasks /\ Groups' = Groups
  BY <1>1 DEF Tasks, Groups
<1>3. \A u \in Tasks : Group(u)' = Group(u) /\ Group(u) \in Groups
  BY <1>0, <1>1 DEF Group, TreeInv, MemberInv
<1>4. \A h \in Groups : task[h].sid # g /\ Group(h) = h
  BY <1>0 DEF TreeInv, IdsExact, Groups, Group
<1> HIDE DEF g
<1>5. MemberInv'
  BY <1>0, <1>1, <1>2, <1>3 DEF TreeInv, MemberInv, Group
<1>6. NoOrphan' /\ ForeignParent'
  BY <1>0, <1>1, <1>2, <1>3 DEF TreeInv, NoOrphan, ForeignParent
<1>7. IdsExact'
  BY <1>0, <1>1, <1>2, <1>4 DEF TreeInv, IdsExact
<1>8. NumberInv'
  BY <1>0, <1>1, <1>2, <1>3, <1>4 DEF TreeInv, NumberInv
<1>9. ToldInv'
  BY <1>0, <1>1, <1>2 DEF TreeInv, ToldInv, Told, ToldFor, Group
<1>10. QED
  BY <1>5, <1>6, <1>7, <1>8, <1>9

\* A wait collects a zombie; no thread of it is left, and it is nobody's parent.
LEMMA ReapStep ==
    ASSUME TreeInv, NEW t \in Tasks, task[t].st = "run", NEW c \in Tasks,
           task[c].st = "zombie", Reap(t, c)
    PROVE  MemberInv' /\ NoOrphan' /\ ForeignParent' /\ IdsExact' /\ NumberInv' /\ ToldInv'
<1> USE TreeAssumption
<1>0. TypeOK /\ Groups \subseteq Tasks /\ Tasks \subseteq Pids /\ t # c
      /\ c # InitPid /\ Group(c) = c
      /\ \A u \in Tasks : Group(u) \in Groups /\ (u # c => Group(u) # c)
  BY DEF TreeInv, Tasks, Groups, MemberInv
<1>1. /\ \A q \in Pids \ {c} : Kept(q)
      /\ \A q \in Pids \ {c, t} : task'[q] = task[q]
      /\ task'[t].wait = "out" /\ task'[c].st = "none"
      /\ silent' = silent \ {c}
  BY <1>0 DEF Reap, Returned, TypeOK, TaskRecs, NoTask, Kept
<1>2. Tasks' = Tasks \ {c} /\ Groups' = Groups \ {c}
  BY <1>0, <1>1 DEF Tasks, Groups, Kept
<1>3. \A u \in Tasks \ {c} : Group(u)' = Group(u) /\ Group(u) \in Groups \ {c}
  BY <1>0, <1>1 DEF Group, Kept
<1>4. MemberInv'
  <2>1. task'[InitPid].st = "run" /\ Group(InitPid)' = InitPid
    BY <1>0, <1>1 DEF TreeInv, MemberInv, Group, Kept
  <2>2. ASSUME NEW u \in Tasks \ {c}
        PROVE  /\ Group(u)' \in Groups'
               /\ Group(u)' # u => task'[u].st \in {"run", "exiting"}
               /\ task'[Group(u)'].st = "zombie" => Group(u)' = u
               /\ task'[u].wait # "out" => task'[u].st = "run"
    BY <1>0, <1>1, <1>2, <1>3 DEF TreeInv, MemberInv, Kept
  <2>3. QED
    BY <1>2, <2>1, <2>2 DEF MemberInv
<1>5. NoOrphan' /\ ForeignParent'
  <2> SUFFICES ASSUME NEW g \in Groups \ {InitPid}, g # c
               PROVE  task'[g].parent \in Tasks' /\ task'[task'[g].parent].st \in {"run", "exiting"}
                      /\ Group(task[g].parent)' # g
    BY <1>2 DEF NoOrphan, ForeignParent
  <2>1. task[g].parent \in Tasks /\ task[task[g].parent].st \in {"run", "exiting"}
    BY DEF TreeInv, NoOrphan
  <2>2. task[g].parent \in Tasks \ {c} /\ task'[g].parent = task[g].parent
    BY <1>0, <1>1, <2>1 DEF Kept
  <2>3. QED
    BY <1>0, <1>1, <1>2, <1>3, <2>1, <2>2 DEF Kept, TreeInv, ForeignParent
<1>6. IdsExact'
  BY <1>0, <1>1, <1>2 DEF TreeInv, IdsExact, Kept
<1>7. NumberInv'
  BY <1>0, <1>1, <1>2, <1>3 DEF TreeInv, NumberInv, Kept
<1>8. ToldInv'
  <2> SUFFICES ASSUME NEW u \in Tasks', NEW d \in Tasks', task'[u].wait = "sleep", Told(u, d)'
               PROVE  d \in silent'
    BY DEF ToldInv
  <2>1. u \in Tasks \ {c, t} /\ d \in Tasks \ {c, t} /\ d # InitPid
    BY <1>0, <1>1, <1>2 DEF Told, ToldFor, TreeInv, MemberInv, Kept
  <2>2. d \in Groups /\ task'[u] = task[u] /\ task'[d] = task[d] /\ task[d].st = "zombie"
    BY <1>0, <1>1, <2>1 DEF Told, ToldFor, TreeInv, MemberInv, Groups, Group
  <2>3. task[d].parent \in Tasks \ {c}
    BY <1>0, <2>1, <2>2 DEF TreeInv, NoOrphan
  <2>4. Told(u, d)
    BY <1>0, <1>3, <2>1, <2>2, <2>3 DEF Told, ToldFor
  <2>5. QED
    BY <1>0, <1>1, <2>1, <2>2, <2>4 DEF TreeInv, ToldInv
<1>9. QED
  BY <1>4, <1>5, <1>6, <1>7, <1>8

\* The slots that the last section of do_exit leaves in place: t is the thread that
\* exits, np the new parent of its children.  It wakes t's process, and the
\* parent's with the last thread.
ExitKeeps(t, np) ==
    LET g == Group(t)
        last == Threads(g) = {t}
        above == IF task[g].parent = None THEN None ELSE Group(task[g].parent)
    IN
    \A p \in Pids : p # t /\ ~(p = g /\ last) =>
       /\ task'[p].st = task[p].st /\ task'[p].leader = task[p].leader
       /\ task'[p].pgid = task[p].pgid /\ task'[p].sid = task[p].sid
       /\ task'[p].wkind = task[p].wkind /\ task'[p].wid = task[p].wid
       /\ task'[p].parent = IF p \in Tasks /\ task[p].parent = t THEN np ELSE task[p].parent
       /\ task'[p].wait = "out" <=> task[p].wait = "out"
       /\ task'[p].wait = "sleep" =>
             /\ task[p].wait = "sleep" /\ task[p].leader # g
             /\ last => task[p].leader # above

\* The last section of do_exit: what each slot is afterwards.
LEMMA ExitEffect ==
    ASSUME TreeInv, NEW t \in Tasks, task[t].st = "exiting", NEW np \in NewParents(t),
           NEW reap \in BOOLEAN, NEW k \in Pids \cup {None}, ExitFinish(t, np, reap, k)
    PROVE  LET g == Group(t)
               last == Threads(g) = {t}
           IN
           /\ np \in Tasks /\ np # t /\ task[np].st = "run"
           /\ Group(np) = g \/ np = InitPid
           /\ ExitKeeps(t, np)
           /\ t # g => task'[t] = NoTask
           /\ t = g /\ ~last => task'[t] = [task[t] EXCEPT !.st = "dead"]
           /\ last => task'[g] = NoTask \/ task'[g] = [task[g] EXCEPT !.st = "zombie"]
           /\ silent' = silent \cup {c \in Tasks : task[c].parent = t /\ task[c].st = "zombie"
                                                    /\ Group(np) # g}
<1> USE TreeAssumption
<1> DEFINE g == Group(t)
           last == Threads(g) = {t}
           above == IF task[g].parent = None THEN None ELSE Group(task[g].parent)
<1>0. TypeOK /\ g \in Groups /\ Groups \subseteq Tasks /\ Tasks \subseteq Pids
  BY DEF TreeInv, Tasks, Groups, MemberInv
<1>1. np \in Tasks /\ np # t /\ task[np].st = "run" /\ (Group(np) = g \/ np = InitPid)
  BY <1>0 DEF NewParents, Threads, TreeInv, MemberInv, Tasks
<1>2. silent' = silent \cup {c \in Tasks : task[c].parent = t /\ task[c].st = "zombie"
                                           /\ Group(np) # g}
  BY DEF ExitFinish
<1>3. t # g => task'[t] = NoTask
  BY <1>0 DEF ExitFinish
<1>4. t = g /\ ~last => task'[t] = [task[t] EXCEPT !.st = "dead"]
  BY <1>0 DEF ExitFinish
<1>5. last => task'[g] = NoTask \/ task'[g] = [task[g] EXCEPT !.st = "zombie"]
  BY <1>0 DEF ExitFinish
<1>6. ASSUME NEW p \in Pids, p # t, ~(p = g /\ last)
      PROVE  /\ task'[p].st = task[p].st /\ task'[p].leader = task[p].leader
             /\ task'[p].pgid = task[p].pgid /\ task'[p].sid = task[p].sid
             /\ task'[p].wkind = task[p].wkind /\ task'[p].wid = task[p].wid
             /\ task'[p].parent = IF p \in Tasks /\ task[p].parent = t THEN np
                                  ELSE task[p].parent
             /\ task'[p].wait = "out" <=> task[p].wait = "out"
             /\ task'[p].wait = "sleep" =>
                   /\ task[p].wait = "sleep" /\ task[p].leader # g
                   /\ last => task[p].leader # above
  <2> DEFINE r == [task[p] EXCEPT !.parent = IF p \in {c \in Tasks : task[c].parent = t}
                                             THEN np ELSE @,
                                  !.pending = @ \/ p = k]
  <2>1. task'[p] = IF p = k \/ r.leader = g \/ (last /\ r.leader = above) THEN Woken(r) ELSE r
    BY <1>0, <1>6 DEF ExitFinish
  <2>2. /\ r.st = task[p].st /\ r.leader = task[p].leader /\ r.pgid = task[p].pgid
        /\ r.sid = task[p].sid /\ r.wkind = task[p].wkind /\ r.wid = task[p].wid
        /\ r.parent = IF p \in Tasks /\ task[p].parent = t THEN np ELSE task[p].parent
        /\ r.wait = task[p].wait
    BY <1>0 DEF TypeOK, TaskRecs
  <2>3. /\ Woken(r).st = r.st /\ Woken(r).leader = r.leader /\ Woken(r).pgid = r.pgid
        /\ Woken(r).sid = r.sid /\ Woken(r).wkind = r.wkind /\ Woken(r).wid = r.wid
        /\ Woken(r).parent = r.parent
        /\ Woken(r).wait = IF r.wait = "sleep" THEN "awake" ELSE r.wait
    BY <1>0 DEF TypeOK, TaskRecs, Woken
  <2> HIDE DEF r, g, last, above
  <2>4. QED
    BY <2>1, <2>2, <2>3
<1>7. ExitKeeps(t, np)
  BY <1>6 DEF ExitKeeps
<1>8. QED
  BY <1>1, <1>2, <1>3, <1>4, <1>5, <1>7

\* A thread leaves its process, and with the last one the process ends.
LEMMA ExitFinishStep ==
    ASSUME TreeInv, NEW t \in Tasks, task[t].st = "exiting", NEW np \in NewParents(t),
           NEW reap \in BOOLEAN, NEW k \in Pids \cup {None}, ExitFinish(t, np, reap, k)
    PROVE  MemberInv' /\ NoOrphan' /\ ForeignParent' /\ IdsExact' /\ NumberInv' /\ ToldInv'
<1> USE TreeAssumption
<1> DEFINE g == Group(t)
           last == Threads(g) = {t}
           above == IF task[g].parent = None THEN None ELSE Group(task[g].parent)
<1>0. TypeOK /\ g \in Groups /\ Groups \subseteq Tasks /\ Tasks \subseteq Pids
      /\ t # InitPid /\ g # None /\ Group(g) = g /\ task[g].leader = g
      /\ \A u \in Tasks : Group(u) \in Groups /\ Group(u) = task[u].leader
  BY DEF TreeInv, Tasks, Groups, MemberInv, Group
<1>1. /\ np \in Tasks /\ np # t /\ task[np].st = "run"
      /\ Group(np) = g \/ np = InitPid
      /\ \A p \in Pids : p # t /\ ~(p = g /\ last) =>
            /\ task'[p].st = task[p].st /\ task'[p].leader = task[p].leader
            /\ task'[p].pgid = task[p].pgid /\ task'[p].sid = task[p].sid
            /\ task'[p].wkind = task[p].wkind /\ task'[p].wid = task[p].wid
            /\ task'[p].parent = IF p \in Tasks /\ task[p].parent = t THEN np
                                 ELSE task[p].parent
            /\ task'[p].wait = "out" <=> task[p].wait = "out"
            /\ task'[p].wait = "sleep" =>
                  /\ task[p].wait = "sleep" /\ task[p].leader # g
                  /\ last => task[p].leader # above
      /\ t # g => task'[t] = NoTask
      /\ t = g /\ ~last => task'[t] = [task[t] EXCEPT !.st = "dead"]
      /\ last => task'[g] = NoTask \/ task'[g] = [task[g] EXCEPT !.st = "zombie"]
      /\ silent' = silent \cup {c \in Tasks : task[c].parent = t /\ task[c].st = "zombie"
                                               /\ Group(np) # g}
  BY ExitEffect DEF ExitKeeps
<1>2. /\ last => \A u \in Tasks : u # t /\ Group(u) = g => u = g
      /\ last => \A u \in Tasks : u # t /\ task[u].st \in {"run", "exiting"} => u # g
      /\ task[t].wait = "out"
      /\ last => task[g].wait = "out"
  <2>1. ASSUME last, NEW u \in Tasks, u # t, Group(u) = g
        PROVE  task[u].st \notin {"run", "exiting"}
    BY <2>1 DEF Threads
  <2>2. last => \A u \in Tasks : u # t /\ Group(u) = g => u = g
    BY <2>1 DEF TreeInv, MemberInv
  <2>3. last => \A u \in Tasks : u # t /\ task[u].st \in {"run", "exiting"} => u # g
    BY <1>0, <2>1
  <2>4. task[t].wait = "out"
    BY DEF TreeInv, MemberInv
  <2>5. last => task[g].wait = "out"
    BY <1>0, <2>1, <2>4 DEF TreeInv, MemberInv
  <2>6. QED
    BY <2>2, <2>3, <2>4, <2>5
<1> HIDE DEF last, above
<1>3. /\ Tasks' \subseteq Tasks
      /\ \A p \in Tasks : p # t /\ ~(p = g /\ last) => p \in Tasks'
      /\ t # g => t \notin Tasks'
      /\ ~last => g \in Tasks'
  BY <1>0, <1>1 DEF Tasks, NoTask, TypeOK, TaskRecs
<1>4. /\ t = g /\ ~last => task'[t].st = "dead" /\ task'[t].leader = g
      /\ g \in Tasks' /\ last => task'[g].st = "zombie" /\ task'[g].leader = g
                                 /\ task'[g].parent = task[g].parent
      /\ \A p \in Tasks' : task'[p].pgid = task[p].pgid /\ task'[p].sid = task[p].sid
                           /\ task'[p].leader = task[p].leader
      /\ \A p \in {t, g} : p \in Tasks' /\ (p = t \/ last) => task'[p].wait = "out"
  <2>1. t = g /\ ~last => /\ task'[t].st = "dead" /\ task'[t].leader = g
                          /\ task'[t].pgid = task[t].pgid /\ task'[t].sid = task[t].sid
                          /\ task'[t].wait = "out"
    BY <1>0, <1>1, <1>2 DEF TypeOK, TaskRecs
  <2>2. g \in Tasks' /\ last =>
            /\ task'[g].st = "zombie" /\ task'[g].leader = g
            /\ task'[g].parent = task[g].parent
            /\ task'[g].pgid = task[g].pgid /\ task'[g].sid = task[g].sid
            /\ task'[g].wait = "out"
    BY <1>0, <1>1, <1>2 DEF TypeOK, TaskRecs, Tasks, NoTask
  <2> HIDE DEF g
  <2>3. QED
    BY <1>0, <1>1, <1>3, <2>1, <2>2
<1>5. Groups' = Groups \cap Tasks'
  BY <1>0, <1>3, <1>4 DEF Groups
<1>6. \A u \in Tasks' : Group(u)' = Group(u) /\ Group(u) \in Groups'
  <2> SUFFICES ASSUME NEW u \in Tasks' PROVE Group(u)' = Group(u) /\ Group(u) \in Tasks'
    BY <1>0, <1>3, <1>5
  <2>1. Group(u)' = Group(u)
    BY <1>0, <1>3, <1>4 DEF Group
  <2>2. Group(u) \in Tasks'
    <3>1. CASE Group(u) = g
      BY <1>0, <1>2, <1>3, <3>1
    <3>2. CASE Group(u) # g
      <4>1. Group(u) # t
        BY <1>0, <1>3, <3>2 DEF Groups
      <4>2. QED
        BY <1>0, <1>3, <3>2, <4>1
    <3>3. QED
      BY <3>1, <3>2
  <2>3. QED
    BY <2>1, <2>2
<1>7. MemberInv'
  <2>1. task'[InitPid].st = "run" /\ Group(InitPid)' = InitPid /\ InitPid \in Tasks
    <3>1. InitPid \in Tasks /\ task[InitPid].st = "run" /\ task[InitPid].leader = InitPid
      BY DEF TreeInv, MemberInv, Tasks, Group
    <3>2. ~(InitPid = g /\ last)
      BY <1>0, <1>2, <3>1
    <3>3. QED
      BY <1>0, <1>1, <3>1, <3>2 DEF Group
  <2>2. ASSUME NEW u \in Tasks'
        PROVE  /\ Group(u) # u => task'[u].st \in {"run", "exiting"}
               /\ task'[Group(u)].st = "zombie" => Group(u) = u
               /\ task'[u].wait # "out" => task'[u].st = "run"
    <3>0. u \in Tasks
      BY <1>3
    <3>1. CASE u = t \/ (u = g /\ last)
      <4>1. u = g
        BY <1>3, <3>1
      <4>2. QED
        BY <1>0, <1>4, <3>1, <4>1
    <3>2. CASE u # t /\ ~(u = g /\ last)
      <4>1. task'[u].st = task[u].st /\ (task'[u].wait = "out" <=> task[u].wait = "out")
        BY <1>0, <1>1, <3>0, <3>2
      <4>2. task'[Group(u)].st = "zombie" => task[Group(u)].st = "zombie"
        <5>1. CASE Group(u) # g
          <6>1. Group(u) # t /\ Group(u) \in Pids
            BY <1>0, <3>0, <5>1 DEF Groups
          <6>2. QED
            BY <1>0, <1>1, <5>1, <6>1
        <5>2. CASE Group(u) = g
          <6>1. ~last
            BY <1>2, <3>0, <3>2, <5>2
          <6>2. QED
            BY <1>0, <1>1, <1>4, <5>2, <6>1
        <5>3. QED
          BY <5>1, <5>2
      <4>3. QED
        BY <3>0, <4>1, <4>2 DEF TreeInv, MemberInv
    <3>3. QED
      BY <3>1, <3>2
  <2>3. QED
    BY <1>6, <2>1, <2>2 DEF MemberInv
<1>8. NoOrphan' /\ ForeignParent'
  <2> SUFFICES ASSUME NEW h \in Groups' \ {InitPid}
               PROVE  /\ task'[h].parent \in Tasks'
                      /\ task'[task'[h].parent].st \in {"run", "exiting"}
                      /\ task'[task'[h].parent].leader # h
    BY DEF NoOrphan, ForeignParent, Group
  <2> DEFINE q == task[h].parent
  <2>1. /\ h \in Groups \ {InitPid} /\ h \in Tasks'
        /\ q \in Tasks /\ task[q].st \in {"run", "exiting"} /\ Group(q) # h
    BY <1>5 DEF TreeInv, NoOrphan, ForeignParent
  <2>2. ASSUME NEW x \in Tasks, x # t, task[x].st \in {"run", "exiting"}
        PROVE  x \in Tasks' /\ task'[x].st = task[x].st /\ task'[x].leader = Group(x)
    BY <1>0, <1>1, <1>2, <1>3, <1>6, <2>2
  <2>3. ASSUME q = t PROVE Group(np) # h
    BY <1>0, <1>1, <2>1, <2>3 DEF TreeInv, MemberInv
  <2>4. task'[h].parent = IF q = t THEN np ELSE q
    <3>1. CASE h = t \/ (h = g /\ last)
      <4>1. h = g /\ q # t
        BY <1>3, <2>1, <3>1
      <4>2. CASE last
        BY <1>4, <2>1, <4>1, <4>2
      <4>3. CASE ~last
        <5>1. h = t /\ t = g
          BY <3>1, <4>1, <4>3
        <5>2. QED
          BY <1>0, <1>1, <4>1, <4>3, <5>1 DEF TypeOK, TaskRecs
      <4>4. QED
        BY <4>2, <4>3
    <3>2. CASE h # t /\ ~(h = g /\ last)
      BY <1>0, <1>1, <2>1, <3>2
    <3>3. QED
      BY <3>1, <3>2
  <2>5. QED
    BY <1>1, <2>1, <2>2, <2>3, <2>4
<1>9. IdsExact'
  BY <1>0, <1>3, <1>4, <1>5 DEF TreeInv, IdsExact
<1>10. NumberInv'
  BY <1>0, <1>3, <1>4, <1>5, <1>6 DEF TreeInv, NumberInv
<1>11. ToldInv'
  <2> SUFFICES ASSUME NEW u \in Tasks', NEW c \in Tasks', task'[u].wait = "sleep", Told(u, c)'
               PROVE  c \in silent'
    BY DEF ToldInv
  <2> DEFINE q == task[c].parent
  <2>1. u \in Tasks /\ c \in Tasks /\ u # t /\ ~(u = g /\ last) /\ c \in Pids
    BY <1>0, <1>3, <1>4
  <2>2. task[u].wait = "sleep" /\ task[u].leader # g /\ (last => task[u].leader # above)
        /\ task'[u].wkind = task[u].wkind /\ task'[u].wid = task[u].wid
    BY <1>0, <1>1, <2>1
  <2>3. task'[c].st = "zombie" /\ task'[c].parent \in Pids
        /\ task'[task'[c].parent].leader = Group(u)
        /\ (task[u].wkind = "pid" => task[u].wid = c)
        /\ (task[u].wkind = "pgid" => task[u].wid = task[c].pgid)
    BY <1>4, <1>6, <2>1, <2>2 DEF Told, ToldFor, Group
  <2>4. ASSUME NEW x \in Tasks, x # t, task[x].st \in {"run", "exiting"}
        PROVE  task'[x].leader = Group(x)
    BY <1>0, <1>1, <1>2, <1>3, <1>6, <2>4
  <2>5. CASE c = t \/ (c = g /\ last)
    <3>1. c = g /\ c \in Groups \ {InitPid}
      <4>1. c = g
        BY <1>3, <2>5
      <4>2. task'[InitPid].st = "run"
        BY <1>7 DEF MemberInv
      <4>3. QED
        BY <1>0, <2>3, <4>1, <4>2
    <3>2. last
      BY <1>4, <2>3, <2>5, <3>1
    <3>3. q \in Tasks /\ task[q].st \in {"run", "exiting"} /\ Group(q) # g /\ q # None
      BY <1>0, <3>1 DEF TreeInv, NoOrphan, ForeignParent
    <3>4. task'[q].leader = Group(q) /\ task'[c].parent = q
      BY <1>4, <2>4, <3>1, <3>2, <3>3
    <3>5. above = Group(q)
      BY <3>1, <3>3 DEF above
    <3>6. QED
      BY <1>0, <2>1, <2>2, <2>3, <3>2, <3>4, <3>5
  <2>6. CASE c # t /\ ~(c = g /\ last)
    <3>1. /\ task[c].st = "zombie"
          /\ task'[c].parent = IF q = t THEN np ELSE q
      BY <1>1, <2>1, <2>3, <2>6
    <3>2. c \in Groups \ {InitPid}
      BY <2>1, <3>1 DEF TreeInv, MemberInv, Groups, Group
    <3>3. q \in Tasks /\ task[q].st \in {"run", "exiting"}
      BY <3>2 DEF TreeInv, NoOrphan
    <3>4. CASE q = t
      <4>1. Group(np) = Group(u)
        BY <1>1, <2>3, <2>4, <3>1, <3>4
      <4>2. Group(np) # g
        BY <1>0, <2>1, <2>2, <4>1
      <4>3. QED
        BY <1>1, <2>1, <3>1, <3>4, <4>2
    <3>5. CASE q # t
      <4>1. Told(u, c)
        BY <1>0, <2>3, <2>4, <3>1, <3>3, <3>5 DEF Told, ToldFor
      <4>2. c \in silent
        BY <2>1, <2>2, <4>1 DEF TreeInv, ToldInv
      <4>3. QED
        BY <1>1, <4>2
    <3>6. QED
      BY <3>4, <3>5
  <2>7. QED
    BY <2>5, <2>6
<1>12. QED
  BY <1>7, <1>8, <1>9, <1>10, <1>11

----------------------------------------------------------------------------
(* The theorems. *)

Preserved == MemberInv' /\ NoOrphan' /\ ForeignParent' /\ IdsExact' /\ NumberInv' /\ ToldInv'

\* What a wait, new or resumed, does to the waits of the others: nothing.  It
\* collects a zombie, or returns because it sees none, or sleeps.
LEMMA PassEffect ==
    ASSUME TreeInv, NEW t \in Tasks, task[t].st = "run",
           NEW kind \in {"all", "pid", "pgid"}, NEW id \in Pids \cup {None},
           NEW signal \in BOOLEAN, Pass(t, kind, id, signal)
    PROVE  /\ Preserved
           /\ \A p \in Pids \ {t} : \/ task'[p].wait = task[p].wait
                                    \/ task'[p].wait = "out" /\ task[p].st # "run"
           /\ \A p \in Pids : task'[p].st = "none" => task'[p].wait = "out"
           /\ task'[t].wait = "out" =>
                 \/ Collectable(t, kind, id) = {}
                 \/ \E c \in Collectable(t, kind, id) : task'[c] = NoTask
<1>0. TypeOK /\ t \in Pids /\ Tasks \subseteq Pids
  BY DEF TreeInv, Tasks
<1>1. /\ Collectable(t, kind, id) = {c \in Matches(t, kind, id) : task[c].st = "zombie"}
      /\ Collectable(t, kind, id) \subseteq Tasks
  BY SearchExact DEF TreeInv, Collectable
<1>2. ASSUME NEW c \in Collectable(t, kind, id), Reap(t, c)
      PROVE  /\ Preserved
             /\ \A p \in Pids \ {t} : \/ task'[p].wait = task[p].wait
                                      \/ task'[p].wait = "out" /\ task[p].st # "run"
             /\ \A p \in Pids : task'[p].st = "none" => task'[p].wait = "out"
             /\ task'[c] = NoTask
  <2>1. c \in Tasks /\ task[c].st = "zombie" /\ c # t
    BY <1>1
  <2>2. Preserved
    BY <1>2, <2>1, ReapStep DEF Preserved
  <2>3. /\ \A q \in Pids \ {c, t} : task'[q] = task[q]
        /\ task'[t].wait = "out" /\ task'[c] = NoTask /\ NoTask.wait = "out"
    BY <1>0, <1>2, <2>1 DEF Reap, Returned, TypeOK, TaskRecs, NoTask
  <2>4. \A p \in Pids : task'[p].st = "none" => task'[p].wait = "out"
    BY <2>3 DEF TreeInv, EmptyInv
  <2>5. \A p \in Pids \ {t} : \/ task'[p].wait = task[p].wait
                              \/ task'[p].wait = "out" /\ task[p].st # "run"
    BY <2>1, <2>3
  <2>6. QED
    BY <2>2, <2>3, <2>4, <2>5
<1>3. ASSUME Collectable(t, kind, id) = {}, Fail(t)
      PROVE  /\ Preserved
             /\ \A p \in Pids \ {t} : task'[p] = task[p]
             /\ task'[t].wait = "out"
  <2>1. Preserved
    BY <1>3, FailStep DEF Preserved
  <2>2. QED
    BY <1>0, <1>3, <2>1 DEF Fail, Returned, TypeOK, TaskRecs
<1>4. ASSUME Collectable(t, kind, id) = {}, Sleep(t, kind, id)
      PROVE  /\ Preserved
             /\ \A p \in Pids \ {t} : task'[p] = task[p]
             /\ task'[t].wait = "sleep" /\ task'[t].st = "run"
  <2>1. Preserved
    BY <1>4, SleepStep DEF Preserved
  <2>2. QED
    BY <1>0, <1>4, <2>1 DEF Sleep, TypeOK, TaskRecs
<1>5. \/ \E c \in Collectable(t, kind, id) : Reap(t, c)
      \/ Collectable(t, kind, id) = {} /\ Fail(t)
      \/ Collectable(t, kind, id) = {} /\ Sleep(t, kind, id)
  BY <1>1 DEF Pass
<1>6. CASE \E c \in Collectable(t, kind, id) : Reap(t, c)
  BY <1>2, <1>6
<1>7. CASE Collectable(t, kind, id) = {} /\ Fail(t)
  <2>1. \A p \in Pids : task'[p].st = "none" => task'[p].wait = "out"
    BY <1>3, <1>7 DEF TreeInv, EmptyInv
  <2>2. QED
    BY <1>3, <1>7, <2>1
<1>8. CASE Collectable(t, kind, id) = {} /\ Sleep(t, kind, id)
  <2>1. \A p \in Pids : task'[p].st = "none" => task'[p].wait = "out"
    BY <1>4, <1>8 DEF TreeInv, EmptyInv
  <2>2. QED
    BY <1>4, <1>8, <2>1
<1>9. QED
  BY <1>5, <1>6, <1>7, <1>8

\* A task comes back from do_wait with nothing only if it left nothing behind.
Returns ==
    \A t \in Pids :
       task[t].wait = "awake" /\ task'[t].wait = "out"
          => WaitsFor(t) = {} \/ \E c \in WaitsFor(t) : task'[c] = NoTask

\* Nobody sleeps beside a zombie that it was told of.
SleepInv == \A t \in Pids : task[t].wait = "sleep" => WaitsFor(t) \subseteq silent

\* Every step of a task preserves the tree and loses no child.
LEMMA TaskStep ==
    ASSUME TreeInv, NEW t \in Tasks, Call(t) \/ Inside(t)
    PROVE  TreeInv' /\ Returns
<1> USE TreeAssumption
<1>0. TypeOK /\ t \in Pids /\ Tasks \subseteq Pids /\ Group(t) \in Pids
      /\ \A p \in Pids : task[p].wait # "out" => task[p].st = "run" /\ p \in Tasks
  BY DEF TreeInv, MemberInv, Groups, Tasks, EmptyInv
<1>1. TypeOK'
  BY TypeStep DEF TreeInv
<1> DEFINE Goal == Preserved /\ EmptyInv' /\ Returns
<1>2. ASSUME NEW p \in Pids, PidEmpty(p), Running(t), Fork(t, p) PROVE Goal
  <2>1. Preserved
    BY <1>2, ForkStep DEF Preserved
  <2>2. (\A q \in Pids \ {p} : task'[q] = task[q]) /\ task'[p].st = "run" /\ p \notin Tasks
    BY <1>0, <1>2 DEF Fork, Born, TypeOK, NoTask, PidEmpty
  <2>3. QED
    BY <1>0, <2>1, <2>2 DEF TreeInv, EmptyInv, Returns
<1>3. ASSUME NEW p \in Pids, PidEmpty(p), Running(t), CloneThread(t, p) PROVE Goal
  <2>1. Preserved
    BY <1>3, CloneStep DEF Preserved
  <2>2. (\A q \in Pids \ {p} : task'[q] = task[q]) /\ task'[p].st = "run" /\ p \notin Tasks
    BY <1>0, <1>3 DEF CloneThread, Born, TypeOK, NoTask, PidEmpty
  <2>3. QED
    BY <1>0, <2>1, <2>2 DEF TreeInv, EmptyInv, Returns
<1>4. ASSUME Running(t), ExitBegin(t) PROVE Goal
  <2>1. Preserved
    BY <1>4, ExitBeginStep DEF Preserved
  <2>2. \A q \in Pids : task'[q].wait = task[q].wait
                        /\ (task'[q].st = "none" => task[q].st = "none")
    BY <1>0, <1>4 DEF ExitBegin, TypeOK, TaskRecs
  <2>3. QED
    BY <1>0, <2>1, <2>2 DEF TreeInv, EmptyInv, Returns
<1>5. ASSUME NEW id \in Tasks, NEW pg \in Pids, Setpgid(t, id, pg) PROVE Goal
  <2>1. Preserved
    BY <1>5, SetpgidStep DEF Preserved
  <2>2. \A q \in Pids : task'[q].wait = task[q].wait /\ task'[q].st = task[q].st
    BY <1>0, <1>5 DEF Setpgid, TypeOK, TaskRecs
  <2>3. QED
    BY <1>0, <2>1, <2>2 DEF TreeInv, EmptyInv, Returns
<1>6. ASSUME Running(t), Setsid(t) PROVE Goal
  <2>1. Preserved
    BY <1>6, SetsidStep DEF Preserved
  <2>2. \A q \in Pids : task'[q].wait = task[q].wait /\ task'[q].st = task[q].st
    BY <1>0, <1>6 DEF Setsid, TypeOK, TaskRecs
  <2>3. QED
    BY <1>0, <2>1, <2>2 DEF TreeInv, EmptyInv, Returns
<1>7. ASSUME Signal(t) PROVE Goal
  <2>1. Preserved
    BY <1>7, SignalStep DEF Preserved
  <2>2. \A q \in Pids : (task'[q].wait = "out" <=> task[q].wait = "out")
                        /\ task'[q].st = task[q].st
    BY <1>0, <1>7 DEF Signal, Woken, TypeOK, TaskRecs
  <2>3. QED
    BY <1>0, <2>1, <2>2 DEF TreeInv, EmptyInv, Returns
<1>8. ASSUME Running(t), NEW w \in Waits, WaitStart(t, w[1], w[2]) PROVE Goal
  <2>1. w[1] \in {"all", "pid", "pgid"} /\ w[2] \in Pids \cup {None}
    BY DEF Waits
  <2>2. /\ Preserved
        /\ \A p \in Pids \ {t} : \/ task'[p].wait = task[p].wait
                                 \/ task'[p].wait = "out" /\ task[p].st # "run"
        /\ EmptyInv'
    BY <1>8, <2>1, PassEffect DEF WaitStart, Running, EmptyInv
  <2>3. QED
    BY <1>0, <1>8, <2>2 DEF Running, Returns
<1>9. ASSUME WaitAgain(t) PROVE Goal
  <2>1. task[t].wkind \in {"all", "pid", "pgid"} /\ task[t].wid \in Pids \cup {None}
        /\ task[t].pending \in BOOLEAN /\ task[t].st = "run"
    BY <1>0, <1>9 DEF TypeOK, TaskRecs, WaitAgain
  <2>2. /\ Preserved
        /\ \A p \in Pids \ {t} : \/ task'[p].wait = task[p].wait
                                 \/ task'[p].wait = "out" /\ task[p].st # "run"
        /\ EmptyInv'
        /\ task'[t].wait = "out" => \/ WaitsFor(t) = {}
                                    \/ \E c \in WaitsFor(t) : task'[c] = NoTask
    BY <1>9, <2>1, PassEffect DEF WaitAgain, WaitsFor, EmptyInv
  <2>3. QED
    BY <1>0, <2>2 DEF Returns
<1>10. ASSUME task[t].st = "exiting", NEW np \in NewParents(t), NEW reap \in BOOLEAN,
              NEW k \in Pids \cup {None}, ExitFinish(t, np, reap, k)
       PROVE  Goal
  <2> DEFINE g == Group(t)
             last == Threads(g) = {t}
  <2>1. Preserved
    BY <1>10, ExitFinishStep DEF Preserved
  <2>2. /\ \A p \in Pids : p # t /\ ~(p = g /\ last) =>
              /\ task'[p].wait = "out" <=> task[p].wait = "out"
              /\ task'[p].st = task[p].st
        /\ \A p \in {t, g} : p = t \/ last =>
              task'[p] = NoTask \/ task'[p].st \in {"dead", "zombie"}
    <3>1. /\ t # g => task'[t] = NoTask
          /\ t = g /\ ~last => task'[t] = [task[t] EXCEPT !.st = "dead"]
          /\ last => task'[g] = NoTask \/ task'[g] = [task[g] EXCEPT !.st = "zombie"]
      BY <1>10, ExitEffect
    <3>2. \A p \in Pids : p # t /\ ~(p = g /\ last) =>
              /\ task'[p].wait = "out" <=> task[p].wait = "out"
              /\ task'[p].st = task[p].st
      <4>1. ExitKeeps(t, np)
        BY <1>10, ExitEffect
      <4>2. QED
        BY <4>1 DEF ExitKeeps
    <3>3. [task[t] EXCEPT !.st = "dead"].st = "dead"
          /\ [task[g] EXCEPT !.st = "zombie"].st = "zombie"
      BY <1>0 DEF TypeOK, TaskRecs
    <3>4. last => task'[g] = NoTask \/ task'[g].st \in {"dead", "zombie"}
      BY <3>1, <3>3
    <3>5. task'[t] = NoTask \/ task'[t].st \in {"dead", "zombie"}
      BY <3>1, <3>3, <3>4
    <3> HIDE DEF g, last
    <3>6. QED
      BY <3>2, <3>4, <3>5
  <2>3. \A p \in Pids : task[p].wait # "out" => p # t /\ ~(p = g /\ last)
    <3>1. task[t].wait = "out"
      BY <1>0, <1>10
    <3>2. g \in Tasks /\ Group(g) = g
      BY DEF TreeInv, MemberInv, Groups, Group
    <3>3. last /\ task[g].st = "run" => g = t
      BY <3>2 DEF Threads
    <3>4. QED
      BY <1>0, <3>1, <3>3
  <2>4. NoTask.wait = "out"
    BY DEF NoTask
  <2> HIDE DEF g, last
  <2>5. EmptyInv'
    BY <1>0, <2>2, <2>4 DEF TreeInv, EmptyInv
  <2>6. Returns
    BY <2>2, <2>3 DEF Returns
  <2>7. QED
    BY <2>1, <2>5, <2>6
<1> HIDE DEF Goal
<1>11. Goal
  <2>1. CASE Call(t)
    BY <1>2, <1>3, <1>4, <1>5, <1>6, <1>8, <2>1, Zenon DEF Call
  <2>2. CASE Inside(t)
    BY <1>7, <1>9, <1>10, <2>2, Zenon DEF Inside
  <2>3. QED
    BY <2>1, <2>2
<1>12. QED
  BY <1>1, <1>11 DEF Goal, Preserved, TreeInv

\* The tree's invariants hold in every reachable state.
THEOREM TreeInvariant == Spec => []TreeInv
<1>1. TreeInv /\ [Next]_vars => TreeInv'
  <2> SUFFICES ASSUME TreeInv, [Next]_vars PROVE TreeInv'
    OBVIOUS
  <2>1. CASE Next
    BY <2>1, TaskStep DEF Next
  <2>2. CASE UNCHANGED vars
    BY <2>2 DEF vars, TreeInv, TypeOK, EmptyInv, MemberInv, NoOrphan, ForeignParent, IdsExact,
                NumberInv, ToldInv, Told, ToldFor, Tasks, Groups, Group
  <2>3. QED
    BY <2>1, <2>2
<1>2. QED
  BY TreeInit, <1>1, PTL DEF Spec

\* Every slot of the pid table is well typed in every reachable state.
THEOREM TypeCorrect == Spec => []TypeOK
<1>1. TreeInv => TypeOK
  BY DEF TreeInv
<1>2. QED
  BY TreeInvariant, <1>1, PTL

\* do_exit never leaves a process without a parent that can wait for it, in whatever
\* order threads of parent and child exit.
THEOREM NoOrphanHolds == Spec => []NoOrphan
<1>1. TreeInv => NoOrphan
  BY DEF TreeInv
<1>2. QED
  BY TreeInvariant, <1>1, PTL

\* setpgid, setsid and the reuse of pids keep every process group in one session, and
\* every pid out of groups and sessions that are not its own.
THEOREM IdsExactHolds == Spec => []IdsExact
<1>1. TreeInv => IdsExact
  BY DEF TreeInv
<1>2. QED
  BY TreeInvariant, <1>1, PTL

\* do_wait neither sleeps beside a zombie that it was told of nor returns with
\* nothing when there is one.
THEOREM NoChildMissedHolds == Spec => NoChildMissed
<1>1. TreeInv => SleepInv
  <2> SUFFICES ASSUME TreeInv, NEW t \in Pids, task[t].wait = "sleep"
               PROVE  WaitsFor(t) \subseteq silent
    BY DEF SleepInv
  <2>1. t \in Tasks /\ task[t].wkind \in {"all", "pid", "pgid"} /\ task[t].wid \in Pids \cup {None}
    BY DEF TreeInv, TypeOK, TaskRecs, EmptyInv, Tasks
  <2>2. WaitsFor(t) = {c \in Tasks : Told(t, c)}
    BY <2>1, SearchExact DEF TreeInv, WaitsFor, Told
  <2>3. QED
    BY <2>1, <2>2 DEF TreeInv, ToldInv
<1>2. TreeInv /\ [Next]_vars => Returns \/ UNCHANGED vars
  BY TaskStep DEF Next
<1>3. SleepInv' /\ Returns =>
         \A t \in Pids :
            /\ task'[t].wait = "sleep" => WaitsFor(t)' \subseteq silent'
            /\ task[t].wait = "awake" /\ task'[t].wait = "out"
                  => WaitsFor(t) = {} \/ \E c \in WaitsFor(t) : task'[c] = NoTask
  BY DEF SleepInv, Returns
<1>4. QED
  BY TreeInvariant, <1>1, <1>2, <1>3, PTL DEF Spec, NoChildMissed
=============================================================================
