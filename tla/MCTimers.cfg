CONSTANTS
    MaxTime = 5
    MaxSets = 3
    Values = {0, 1, 2}
    Intervals = {0, 1, 2}
SPECIFICATION TimersSpec
CHECK_DEADLOCK FALSE
INVARIANTS NotMoreThanDue SettingInForce NoPeriodLost
PROPERTIES NoStaleSignal EveryDeadlineSignalled DeleteEnds DeadlineMakesReadable
