SPECIFICATION FairSpec
CONSTANTS
    TorConfigs = {c1, c2}
    Masters = {m1}
    NoMaster = NoMaster
    NoFile = NoFile
    Torn = Torn
    MaxWrites = 2
    Faults = {"torread", "torwrite", "copy", "obread", "obwrite", "status", "crash"}
    MaxFaults = 2
INVARIANTS TypeOK ReloadNotLost PublishedIsSecrets RestsOnlyWhenPublished
PROPERTIES EventuallyServed
CHECK_DEADLOCK FALSE
