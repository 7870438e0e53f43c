SPECIFICATION FairSpec
CONSTANTS
    Operators = {o1}
    Addresses = {a1}
    NoAddress = NoAddress
    NoSecret = NoSecret
    MaxBackends = 2
    Foreign = {}
    MaxGeneration = 2
    AllowScaleDown = FALSE
    AllowDelete = TRUE
    Faults = {"api", "crash"}
    MaxFaults = 1
    InitialSecrets = {NoSecret}
    InitialMonitors = {"unwanted", "absent"}
INVARIANTS TypeOK QuiescentMeansComplete NoSurplusBackends
PROPERTIES ListedBackendKept EventuallyComplete DeletionIsFinal
CHECK_DEADLOCK FALSE
