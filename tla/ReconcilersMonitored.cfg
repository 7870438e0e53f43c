SPECIFICATION FairSpec
CONSTANTS
    Specs <- MonitoredSpecs
    Targets = {}
    Installed = {TRUE}
    Names = {}
    Keys = {k1}
    Passwords = {p1}
    Given = Given
    NoKey = NoKey
    MaxGeneration = 1
    Faults = {}
    MaxFaults = 0
PROPERTY EventuallyReported
CHECK_DEADLOCK FALSE
