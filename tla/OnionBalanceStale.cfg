SPECIFICATION Spec
CONSTANTS
    Backends = {b1, b2}
    Loops = {l1, l2, l3}
    Cmds = {c1, c2, c3, c4, c5}
    NoCmd = NoCmd
    NoFile = NoFile
    Torn = Torn
    MaxWrites = 2
    Faults = {}
    MaxFaults = 0
INVARIANT BalancersCurrent
CHECK_DEADLOCK FALSE
