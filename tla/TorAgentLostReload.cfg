SPECIFICATION Spec
CONSTANTS
    TorConfigs = {c1, c2}
    Masters = {m1}
    NoMaster = NoMaster
    NoFile = NoFile
    Torn = Torn
    MaxWrites = 1
    Faults = {"obread"}
    MaxFaults = 1
INVARIANTS ReloadNeverLost
CHECK_DEADLOCK FALSE
