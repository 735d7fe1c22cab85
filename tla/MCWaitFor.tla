----------------------------- MODULE MCWaitFor -----------------------------
(* A small instance of WaitFor: SIGKILL, one stop signal that may be        *)
(* blocked, and SIGCONT.                                                    *)
EXTENDS WaitFor

CONSTANTS kill, tstp, cont

MCSigs        == {kill, tstp, cont}
MCUnblockable == {kill}
MCStopSigs    == {tstp}
MCContSigs    == {cont}
=============================================================================
