SPECIFICATION FairSpec
CONSTANTS
    Specs <- AllSpecs
    Targets <- AllTargets
    Installed = {TRUE}
    Names = {"secret", "service"}
    Keys = {k1}
    Passwords = {p1, p2}
    Given = Given
    NoKey = NoKey
    MaxGeneration = 2
    Faults = {"api", "stale", "crash", "other"}
    MaxFaults = 1
INVARIANTS TypeOK RestsOnlyWhenReflected PasswordAgreed DeploymentSupplied RestsOnlyWhenReported
PROPERTIES ForeignUntouched HostnameKept ChildrenOnlyAdvance ImplementsIdentity EventuallyReflected ReportedUnlessMonitored DeletionIsFinal
CHECK_DEADLOCK FALSE
