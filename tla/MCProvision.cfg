CONSTANTS
    Buckets = {b1, b2}
    NoName = NoName
    Absent = Absent
    Platform = "AWS"
    Kinds = {"bsl", "service", "monitor"}
    MaxFaults = 1
SPECIFICATION FairSpec
INVARIANTS TypeOK VeleroOnReadyBucket AtRestInstalled
PROPERTIES StaysOnBucket Settles Collected
