CONSTANTS
    b1 = b1
    b2 = b2
    b3 = b3
    Buckets = {b1, b2, b3}
    NoName = NoName
    Absent = Absent
    InfraName = InfraName
    OtherInfra = OtherInfra
    TheirBuckets = {}
    RemoteBuckets = {b3}
    MaxFaults = 2
SPECIFICATION FairSpec
PROPERTIES Converges DriftRepaired
