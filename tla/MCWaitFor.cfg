CONSTANTS
    Waiter = w
    Peers = {p1, p2}
    None = none
    kill = kill
    tstp = tstp
    cont = cont
    Ignored = {}
    Sigs <- MCSigs
    Unblockable <- MCUnblockable
    StopSigs <- MCStopSigs
    ContSigs <- MCContSigs
SPECIFICATION FairSpec
INVARIANTS NoLostSignal RegistrationExact
PROPERTIES SignalEndsWait
