SPECIFICATION FairSpec
CONSTANTS
    Backends = {b1, b2}
    Loops = {l1, l2}
    Cmds = {c1, c2, c3, c4}
    NoCmd = NoCmd
    NoFile = NoFile
    Torn = Torn
    MaxWrites = 1
    Faults = {"read", "write", "start", "death", "crash", "term"}
    MaxFaults = 2
INVARIANTS TypeOK ConfigIsPublished FirstReloadReachesAll NewestBalancerCurrent SupervisedAtRest
PROPERTIES EventuallyWritten EventuallyBalanced
CHECK_DEADLOCK FALSE
