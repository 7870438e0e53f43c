SPECIFICATION Spec
CONSTANTS
    Operators = {o1, o2}
    Addresses = {a1, a2}
    NoAddress = NoAddress
    NoSecret = NoSecret
    MaxBackends = 2
    Foreign = {}
    MaxGeneration = 1
    AllowScaleDown = FALSE
    AllowDelete = FALSE
    Faults = {"list", "crash"}
    MaxFaults = 1
    InitialSecrets = {NoAddress, NoSecret}
    InitialMonitors = {"unwanted"}
SYMMETRY Symmetry
INVARIANTS MasterAgreement PublishedAddressHasKeys ListedAreThere
PROPERTIES AddressStable ImplementsIdentity
CHECK_DEADLOCK FALSE
