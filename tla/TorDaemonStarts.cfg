SPECIFICATION Spec
CONSTANTS
    Loops = {l1, l2, l3}
    Cmds = {c1, c2, c3, c4, c5}
    NoCmd = NoCmd
    MaxWrites = 2
    MaxFaults = 2

PROPERTIES StartsOnlyWhenDown
CHECK_DEADLOCK FALSE
