SPECIFICATION FairSpec
CONSTANTS
    o1 = o1
    o2 = o2
    Oracle = {o1, o2}
    Signal = {sigint, sigterm}
    Stored <- OneStored
INVARIANTS TypeOK CleanExitReleases NothingPulledAway
PROPERTIES StartEnds SignalEndsProcess
CHECK_DEADLOCK FALSE
