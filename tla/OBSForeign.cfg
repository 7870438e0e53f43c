SPECIFICATION Spec
CONSTANTS
    Operators = {o1}
    Addresses = {a1}
    NoAddress = NoAddress
    NoSecret = NoSecret
    MaxBackends = 2
    Foreign = {f1}
    MaxGeneration = 1
    AllowScaleDown = FALSE
    AllowDelete = FALSE
    Faults = {}
    MaxFaults = 0
    InitialSecrets = {NoSecret}
    InitialMonitors = {"unwanted"}
INVARIANTS QuiescentMeansComplete
CHECK_DEADLOCK FALSE
