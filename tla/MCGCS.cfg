CONSTANTS
    b1 = b1
    b2 = b2
    b3 = b3
    b4 = b4
    Buckets = {b1, b2, b3, b4}
    NoName = NoName
    Absent = Absent
    InfraName = InfraName
    OtherInfra = OtherInfra
    TheirBuckets = {b4}
    MaxFaults = 3
SPECIFICATION FairSpec
INVARIANTS TypeOK OneBucketPerCluster TheirsUntouched
PROPERTIES ImplementsContract ConvergesUnlessUnrecorded
