CONSTANTS
    CRDs = {"backups", "restores"}
    MaxPods = 3
    MaxFaults = 3
SPECIFICATION FairSpec
CHECK_DEADLOCK FALSE
INVARIANTS TypeOK OneLeader ClusterFits UntouchedUnlessSupported
PROPERTIES TakesOverUnlessHalfMeasured
