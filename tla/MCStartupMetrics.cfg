CONSTANTS
    CRDs = {"backups"}
    MaxPods = 1
    MaxFaults = 1
SPECIFICATION FairSpec
CHECK_DEADLOCK FALSE
PROPERTIES TakesOver
