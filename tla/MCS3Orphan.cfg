CONSTANTS
    b1 = b1
    b2 = b2
    b3 = b3
    Buckets = {b1, b2, b3}
    NoName = NoName
    Absent = Absent
    InfraName = InfraName
    OtherInfra = OtherInfra
    TheirBuckets = {}
    RemoteBuckets = {}
    MaxFaults = 2
SYMMETRY Symmetry
SPECIFICATION Spec
INVARIANTS ExistingBucketUsed
