SPECIFICATION Spec
CONSTANTS
    Operators = {o1}
    Addresses = {a1}
    NoAddress = NoAddress
    NoSecret = NoSecret
    MaxBackends = 2
    Foreign = {}
    MaxGeneration = 1
    AllowScaleDown = FALSE
    AllowDelete = FALSE
    Faults = {"list"}
    MaxFaults = 1
    InitialSecrets = {NoSecret}
    InitialMonitors = {"unwanted"}
PROPERTIES ListedBackendKept
CHECK_DEADLOCK FALSE
