SPECIFICATION FairSpec
CONSTANTS
    Loops = {l1, l2}
    Cmds = {c1, c2, c3, c4}
    NoCmd = NoCmd
    MaxWrites = 1
    MaxFaults = 2
INVARIANTS TypeOK LoneServerIsCurrent NewestTorCurrent
PROPERTIES TorComesBack
CHECK_DEADLOCK FALSE
