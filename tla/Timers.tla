------------------------------ MODULE Timers ------------------------------
(***************************************************************************)
(* The two clients of a host timer, a signal timer and a timerfd, each     *)
(* composed with the thread of util/timer.c.  `owner' says which of them   *)
(* created the timer; the other one does not exist.                        *)
(***************************************************************************)
EXTENDS PosixTimer, TimerFd

VARIABLE owner

posixVars == <<slot, setting, cbSetting, sent>>
timersVars == <<vars, tfdVars, owner>>

\* No descriptor, and no slot of the process's timer table in use.
NoTimerFd ==
    /\ next = 0 /\ fdInterval = 0 /\ expired = FALSE /\ expirations = 0
    /\ open = FALSE /\ first = 0 /\ reads = 0

NoPosixTimer ==
    /\ slot = "empty" /\ cbSetting = 0 /\ sent = 0
    /\ setting = [id |-> 0, first |-> 0, ivl |-> 0]

TimersInit == \/ owner = "posix" /\ Init /\ NoTimerFd
              \/ owner = "timerfd" /\ FdInit /\ NoPosixTimer

OfPosix(A) == owner = "posix" /\ A /\ UNCHANGED <<tfdVars, owner>>
OfTimerFd(A) == owner = "timerfd" /\ A /\ UNCHANGED <<posixVars, owner>>

TimersNext == OfPosix(Next) \/ OfTimerFd(FdNext)

(***************************************************************************)
(* Fairness: the host schedules the timer thread, its callback included,   *)
(* and a deletion that has begun goes on.  The clock need not advance.     *)
(***************************************************************************)
TimersSpec ==
    /\ TimersInit /\ [][TimersNext]_timersVars
    /\ WF_timersVars(OfPosix(TimerThread))
    /\ WF_timersVars(OfPosix(Callback))
    /\ WF_timersVars(OfPosix(DeleteFree \/ DeleteFreed \/ DeleteEnd))
    /\ WF_timersVars(OfTimerFd(FdThread))
    /\ WF_timersVars(OfTimerFd(FdCallback))
=============================================================================
